------------------------------ MODULE CostModel ------------------------------
(***************************************************************************)
(* The monthly cost model of src/eval/cost_analysis.py, in whole numbers:  *)
(* vectors and queries in thousands, memory in thousandths of a GiB, money *)
(* in thousandths of a dollar.                                             *)
(***************************************************************************)
EXTENDS Integers, Sequences, SequencesExt

Bigger(a, b) == IF a > b THEN a ELSE b

VectorBytes == 384 * 4
MetadataBytes == 700
BytesPerVector == VectorBytes + MetadataBytes
DefaultQueries == 50
Scales == {100, 1000, 10000}

\* 1024^3 / 10^6, kept exact enough in halves of a hundredth.
MilliGiB(vectors, bytes) == (vectors * bytes * 50) \div 53687

StorageGB(vectors) == MilliGiB(vectors, BytesPerVector)

ServerlessFloor == 50000

\* The managed free tier ends there.
ServerlessFreeTier == 2000

\* One read unit per GiB of the namespace and query, a quarter at least.
ReadUnitsPerQuery(vectors) == Bigger(StorageGB(vectors), 250)

\* What the usage costs at `price` cents per million read units.
ServerlessUsage(vectors, queries, price) ==
    (((ReadUnitsPerQuery(vectors) * queries) \div 1000) * price) \div 100
        + (StorageGB(vectors) * 330) \div 1000

\* max(usage, floor), never floor + usage.
ServerlessBilled(vectors, queries) ==
    Bigger(ServerlessUsage(vectors, queries, 825), ServerlessFloor)

\* RAM for quantized vectors with the index's overhead, disk for the payload.
ResourceHourCost(vectors, quantized) ==
    LET vectorGB == MilliGiB(vectors, VectorBytes)
        resident == IF quantized THEN vectorGB \div 4 ELSE vectorGB
    IN (resident * 912) \div 10 + (MilliGiB(vectors, MetadataBytes) * 80) \div 1000

ActivityTiers == << <<1000, 45000>>, <<10000, 80000>>, <<100000, 300000>> >>

ActivityUnitCost(vectors) ==
    LET gb == StorageGB(vectors)
        reached == SelectSeq(ActivityTiers, LAMBDA tier : gb <= tier[1])
        floor == IF reached = <<>> THEN Last(ActivityTiers)[2] ELSE Head(reached)[2]
    IN Bigger(floor, (gb * 35) \div 1000)

\* The host the embedded store needs, from the smaller to the larger choice.
ComputeLow(vectors) == CASE vectors = 100 -> 0 [] vectors = 1000 -> 12000 [] vectors = 10000 -> 35000

ComputeHigh(vectors) == IF vectors = 10000 THEN 85000 ELSE ComputeLow(vectors)

\* A volume of less than a GiB is billed as one; the backup is not.
DiskAndBackup(vectors) ==
    (Bigger(StorageGB(vectors), 1000) * 80) \div 1000 + (StorageGB(vectors) * 23) \div 1000

EmbeddedLow(vectors) == DiskAndBackup(vectors) + ComputeLow(vectors)

EmbeddedHigh(vectors) == DiskAndBackup(vectors) + ComputeHigh(vectors)

\* The free tier is not part of the bill.
ScaleCost(vectors, queries) ==
    [embeddedLow |-> EmbeddedLow(vectors),
     embeddedHigh |-> EmbeddedHigh(vectors),
     serverlessBilled |-> ServerlessBilled(vectors, queries),
     freeTier |-> StorageGB(vectors) <= ServerlessFreeTier,
     resourceHour |-> ResourceHourCost(vectors, TRUE),
     unquantized |-> ResourceHourCost(vectors, FALSE),
     activityUnit |-> ActivityUnitCost(vectors)]

\* Fault: the larger host is charged from the tenfold volume on.
HostFactor_Early(multiplier) == IF multiplier < 10 THEN 1 ELSE 2

\* At a hundredfold volume the host needs more processors.
HostFactor(multiplier) == IF multiplier < 100 THEN 1 ELSE 2

Verdict(low, high, billed) ==
    IF low <= billed /\ billed <= high THEN "wash"
    ELSE IF billed > high THEN "embedded" ELSE "serverless"

\* One row of sensitivity, which never sees the volume asked for on the
\* command line.
SensitivityRow(vectors, multiplier) ==
    LET low == EmbeddedLow(vectors) * HostFactor(multiplier)
        high == EmbeddedHigh(vectors) * HostFactor(multiplier)
        billed == ServerlessBilled(vectors, DefaultQueries * multiplier)
    IN [low |-> low, high |-> high, billed |-> billed, verdict |-> Verdict(low, high, billed)]
=============================================================================
