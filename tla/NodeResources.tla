--------------------------- MODULE NodeResources ---------------------------
(***************************************************************************)
(* What the scheduler is told a machine can hold: the capacity of an       *)
(* instance type and the overhead taken from it (instancetype/types.go,    *)
(* overhead.go, utils/utils.go, localssd.go).                              *)
(*                                                                         *)
(* CPU is in millicores, memory in MiB, disks in GiB; the code rounds      *)
(* memory to the byte, the model to the MiB.  Over these ranges the code's *)
(* floating point arithmetic gives the integers computed here.  A map of   *)
(* quantities is a function on the keys it has.  A machine is a record     *)
(*   [name, family, metal, cpus, memory, gpus, partitions, total]          *)
(* where total is the SSD size the table of localssd.go lists for the      *)
(* machine by name, 0 for most, and partitions the number of local SSDs.   *)
(* A node class is a record                                                *)
(*   [threads, boot, mode, sharing, maxPods, podsPerCore, kubeReserved,    *)
(*    systemReserved, evictionHard]                                        *)
(* with NotSet for a nil field.                                            *)
(***************************************************************************)
EXTENDS Integers, Sequences

CONSTANTS
    Machines,          \* the machine types looked at
    Kubelets,          \* the node classes looked at
    MemoryOverhead     \* VMMemoryOverheadPercent, as a percentage

NotSet == -1

Least(x, y) == IF x < y THEN x ELSE y

\* map with the entries of over written on top of it.
Overlay(map, over) ==
    [k \in DOMAIN map \cup DOMAIN over |->
        IF k \in DOMAIN over THEN over[k] ELSE map[k]]

At(map, k) == IF k \in DOMAIN map THEN map[k] ELSE 0

-----------------------------------------------------------------------------
(* Reservations *)

\* More than any machine has.
NoLimit == 100000000

\* <<width, rate in 400ths>> of each bracket, lowest first.
MemoryBrackets ==
    <<<<4096, 100>>, <<4096, 80>>, <<8192, 40>>, <<114688, 24>>, <<NoLimit, 8>>>>

CPUBrackets ==
    <<<<1000, 24>>, <<1000, 4>>, <<2000, 2>>, <<NoLimit, 1>>>>

\* What the brackets from the i-th on take of amount, each rounded down.
Bracketed(brackets, amount) ==
    LET take[i \in 1..Len(brackets), left \in 1..amount] ==
            (Least(left, brackets[i][1]) * brackets[i][2]) \div 400
                + IF left - brackets[i][1] <= 0 THEN 0
                  ELSE take[i + 1, left - brackets[i][1]]
    IN  take[1, amount]

\* A plausible slip: the second bracket is charged for the memory of the first as well.
ReservedMemoryOverlapping(memory) ==
    IF memory <= 1024 THEN 255
    ELSE Bracketed(MemoryBrackets, memory)
            + IF memory > 4096 THEN (4096 * 80) \div 400 ELSE 0

ResolveReservedMemoryMiB(memory) ==
    IF memory <= 1024 THEN 255 ELSE Bracketed(MemoryBrackets, memory)

sharedCore(machine) == machine.name \in {"e2-micro", "e2-small", "e2-medium"}

ResolveReservedCPUMCore(machine, mcores) ==
    IF sharedCore(machine) THEN 1060
    ELSE Bracketed(CPUBrackets, mcores)

\* <<eviction threshold, system reservation>>
ResolveReservedEphemeralStorage(boot, ssd, count) ==
    IF count > 0 /\ ssd > 0
    THEN <<ssd \div 10, CASE count = 1 -> 50 [] count = 2 -> 75 [] OTHER -> 100>>
    ELSE <<boot \div 10,
           Least(100, Least((boot + 1) \div 2, (35 * boot + 650) \div 100))>>

-----------------------------------------------------------------------------
(* Capacity *)

visibleCPUs(machine, nc) ==
    IF nc.threads = 1 /\ machine.cpus >= 2 THEN machine.cpus \div 2 ELSE machine.cpus

memoryOf(machine) == machine.memory - (machine.memory * MemoryOverhead) \div 100

partitionSizeGiB(machine) ==
    CASE machine.family = "z3" -> 3000
      [] machine.family = "z4d" -> 3500
      [] OTHER -> 375

TotalGiB(machine, partitions) ==
    IF machine.total > 0 THEN machine.total ELSE partitions * partitionSizeGiB(machine)

\* A node class without a boot disk size gets 100 GiB.
bootDiskGiB(nc) == IF nc.boot > 0 THEN nc.boot ELSE 100

\* Local SSDs count as ephemeral storage in that mode alone.
ephemeralSSDs(machine, nc) ==
    IF nc.mode = "ephemeral"
    THEN [gib |-> TotalGiB(machine, machine.partitions), count |-> machine.partitions]
    ELSE [gib |-> 0, count |-> 0]

totalStorageGiB(machine, nc) ==
    LET ssd == ephemeralSSDs(machine, nc).gib IN IF ssd = 0 THEN bootDiskGiB(nc) ELSE ssd

GetMaxPods(nc) == IF nc.maxPods = NotSet THEN 110 ELSE nc.maxPods

kcMaxPods(machine, nc) ==
    IF nc.podsPerCore > 0
    THEN Least(GetMaxPods(nc), nc.podsPerCore * visibleCPUs(machine, nc))
    ELSE GetMaxPods(nc)

gpuClientsPerGPU(nc) == IF nc.sharing < 1 THEN 1 ELSE nc.sharing

computeCapacity(machine, nc) ==
    [cpu |-> visibleCPUs(machine, nc) * 1000,
     memory |-> memoryOf(machine),
     storage |-> totalStorageGiB(machine, nc),
     pods |-> kcMaxPods(machine, nc),
     gpus |-> machine.gpus * gpuClientsPerGPU(nc)]

-----------------------------------------------------------------------------
(* Overhead *)

staticKubeProxyCPUMilliCore == 100

computedKubeReserved(machine, nc) ==
    LET ssds == ephemeralSSDs(machine, nc)
    IN  [cpu |-> ResolveReservedCPUMCore(machine, visibleCPUs(machine, nc) * 1000),
         memory |-> ResolveReservedMemoryMiB(machine.memory),
         storage |-> ResolveReservedEphemeralStorage(bootDiskGiB(nc), ssds.gib, ssds.count)[2]]

mergeKubeReserved(machine, nc) == Overlay(computedKubeReserved(machine, nc), nc.kubeReserved)

\* A plausible slip: the user's systemReserved replaces the provider's share.
systemReservedReplaced(nc) == Overlay([cpu |-> staticKubeProxyCPUMilliCore], nc.systemReserved)

\* The user's systemReserved comes on top of the kube-proxy's share.
kcSystemReserved(nc) ==
    Overlay(nc.systemReserved,
            [cpu |-> staticKubeProxyCPUMilliCore + At(nc.systemReserved, "cpu")])

\* A signal is a percentage of the capacity, rounded up, or an amount.
computeEvictionSignal(capacity, signal) ==
    IF signal.percent THEN (capacity * signal.value + 99) \div 100 ELSE signal.value

evictionThreshold(machine, nc) ==
    LET ssds == ephemeralSSDs(machine, nc)
        capacity == [memory |-> memoryOf(machine), storage |-> totalStorageGiB(machine, nc)]
    IN  Overlay(
            [memory |-> 100,
             storage |-> ResolveReservedEphemeralStorage(bootDiskGiB(nc), ssds.gib, ssds.count)[1]],
            [r \in DOMAIN nc.evictionHard |->
                computeEvictionSignal(capacity[r], nc.evictionHard[r])])

\* What the scheduler may fill: InstanceType.Allocatable of Karpenter core.
Allocatable(machine, nc) ==
    [r \in {"cpu", "memory", "storage"} |->
        computeCapacity(machine, nc)[r] - At(mergeKubeReserved(machine, nc), r)
            - At(kcSystemReserved(nc), r) - At(evictionThreshold(machine, nc), r)]

-----------------------------------------------------------------------------
(* What could go wrong *)

\* small is at most as large as large in CPU and memory, and otherwise alike.
NoLarger(small, large) ==
    /\ small.cpus <= large.cpus /\ small.memory <= large.memory
    /\ [small EXCEPT !.cpus = large.cpus, !.memory = large.memory] = large

ReservationsGoWrong(small, large, nc) ==
    LET less == Allocatable(small, nc)
        more == Allocatable(large, nc)
    IN  \/ \E r \in {"cpu", "memory", "storage"} : less[r] <= 0
        \/ less.cpu > more.cpu \/ less.memory > more.memory

(* The pairs of machines and the node classes that keep the computed       *)
(* reservations for which LargerMachineHoldsMore (module MCCatalogue)      *)
(* would not hold.  GCE has no shared-core machine with one thread per     *)
(* core.                                                                   *)
ReservationCounterexamples ==
    {p \in Machines \X Machines \X Kubelets :
        /\ NoLarger(p[1], p[2])
        /\ \A f \in {"kubeReserved", "systemReserved", "evictionHard"} : DOMAIN p[3][f] = {}
        /\ sharedCore(p[1]) => p[3].threads # 1
        /\ ReservationsGoWrong(p[1], p[2], p[3])}
=============================================================================
