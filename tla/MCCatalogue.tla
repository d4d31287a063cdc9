----------------------------- MODULE MCCatalogue -----------------------------
(***************************************************************************)
(* Two registrations of one machine type; and an instance of               *)
(* InstanceDisks, for what a machine of the catalogue is planned and       *)
(* launched with.  That has no state of its own: its properties are stated *)
(* of the states in which the catalogue offers something.                  *)
(***************************************************************************)
EXTENDS Catalogue, InstanceDisks, TLC

CONSTANTS a, b, m

Names == <<a, b>>
TwoPrices == a :> 1 @@ b :> 2
OneType == a :> m @@ b :> m

Machine(name, family, metal, cpus, memory, gpus, partitions, total) ==
    [name |-> name, family |-> family, metal |-> metal, cpus |-> cpus, memory |-> memory,
     gpus |-> gpus, partitions |-> partitions, total |-> total]

\* Both sides of every edge of the memory brackets, and the largest machine.
MCMemories == {1023, 1024, 1025, 4096, 4097, 8192, 8193, 16384, 16385, 131072, 131073, 12582912}

MCMachines ==
    {Machine("n2", "n2", FALSE, c, mem, 0, 0, 0) : c \in {1, 2, 4, 6}, mem \in MCMemories}
    \cup {Machine("e2-small", "e2", FALSE, 2, 2048, 0, 0, 0),
          Machine("a2", "a2", FALSE, 12, 87040, 2, 0, 0),
          Machine("z3", "z3", FALSE, 88, 720896, 0, 12, 0),
          Machine("z3small", "z3", FALSE, 44, 360448, 0, 3, 0),
          Machine("z3-metal", "z3", TRUE, 192, 1572864, 0, 12, 72000),
          Machine("h4d", "h4d", FALSE, 192, 737280, 0, 0, 0)}

Amount(v) == [percent |-> FALSE, value |-> v]
Percent(v) == [percent |-> TRUE, value |-> v]
MCNone == [k \in {} |-> 0]

NodeClass(threads, boot, mode, sharing, maxPods, podsPerCore, kube, system, eviction) ==
    [threads |-> threads, boot |-> boot, mode |-> mode, sharing |-> sharing,
     maxPods |-> maxPods, podsPerCore |-> podsPerCore, kubeReserved |-> kube,
     systemReserved |-> system, evictionHard |-> eviction,
     os |-> "cos", secondary |-> FALSE, huge2m |-> NotSet, huge1g |-> NotSet,
     confidential |-> FALSE, notice |-> 0, autoTaint |-> FALSE]

MCKubelets ==
    {NodeClass(t, boot, "ephemeral", NotSet, NotSet, NotSet, MCNone, MCNone, MCNone) :
        t \in {NotSet, 1}, boot \in {0, 10, 269}}
    \cup
    {NodeClass(t, 0, "raw", s, p, c, k, y, e) :
        t \in {NotSet, 1}, s \in {NotSet, 2}, p \in {NotSet, 8, 17, 256}, c \in {NotSet, 10},
        k \in {MCNone, [cpu |-> 200]}, y \in {MCNone, [cpu |-> 50, memory |-> 64]},
        e \in {MCNone, [memory |-> Percent(5)], [memory |-> Amount(300)]}}

MCClasses ==
    {[NodeClass(NotSet, 0, mode, s, NotSet, NotSet, MCNone, MCNone, MCNone) EXCEPT
        !.os = o, !.secondary = d, !.huge2m = h, !.confidential = d, !.notice = n] :
        mode \in {"ephemeral", "raw"}, s \in {NotSet, 2}, o \in {"cos", "ubuntu", "custom"},
        d \in BOOLEAN, h \in {NotSet, 4}, n \in {0, 60}}
    \cup
    {NodeClass(NotSet, 0, "raw", NotSet, p, c, MCNone, y, e) :
        p \in {NotSet, 8}, c \in {NotSet, 10}, y \in {MCNone, [cpu |-> 50]},
        e \in {MCNone, [memory |-> Amount(300)]}}

\* A bare GKE pool, two that have everything set for themselves, one of them
\* with a kubelet configuration of its own, and one without the entries a
\* node needs.
MCSources ==
    {[env |-> {"CA_CERT", "ZONE"}, kubeLabels |-> {"netd-ready"}, nodeLabels |-> {"netd-ready"},
      kubelet |-> [kubeReserved |-> MCNone, systemReserved |-> MCNone, podsPerCore |-> 0,
                   evictionHard |-> [memory |-> Amount(100)], shutdown |-> 0]],
     [env |-> EnvKeys, kubeLabels |-> {"gpu-sharing", "team"}, nodeLabels |-> {"local-ssd"},
      kubelet |-> [kubeReserved |-> [cpu |-> 500, memory |-> 1, storage |-> 7],
                   systemReserved |-> MCNone, podsPerCore |-> 0,
                   evictionHard |-> [memory |-> Amount(100)], shutdown |-> 15]],
     [env |-> EnvKeys, kubeLabels |-> {"masq-agent-ready"}, nodeLabels |-> {"team"},
      kubelet |-> [kubeReserved |-> [cpu |-> 500, pid |-> 9],
                   systemReserved |-> [cpu |-> 70, memory |-> 80], podsPerCore |-> 4,
                   evictionHard |-> [memory |-> Percent(9)], shutdown |-> 0]],
     [env |-> {"ZONE"}, kubeLabels |-> {}, nodeLabels |-> {},
      kubelet |-> [kubeReserved |-> MCNone, systemReserved |-> MCNone, podsPerCore |-> 0,
                   evictionHard |-> MCNone, shutdown |-> 0]]}

\* Both sides of a bracket, the smallest and the largest machine of a family,
\* one too small for SSDs, and machines that come with theirs.
MCShapes ==
    {Machine("n1", "n1", FALSE, 1, 3840, 0, 0, 0)}
    \cup {Machine("n2", "n2", FALSE, c, 65536, 0, 0, 0) : c \in {2, 11, 12, 80, 128}}
    \cup {Machine("c2", "c2", FALSE, c, 65536, 0, 0, 0) : c \in {2, 4, 60}}
    \cup {Machine("e2", "e2", FALSE, 2, 8192, 0, 0, 0),
          Machine("c4d-lssd", "c4d", FALSE, 8, 31744, 0, 1, 0),
          Machine("z3", "z3", FALSE, 88, 720896, 0, 12, 0),
          Machine("z3-metal", "z3", TRUE, 192, 1572864, 0, 12, 72000),
          Machine("unknown-lssd", "c3", FALSE, 4, 16384, 0, NotSet, 0)}

MCRequests ==
    {[op |-> "absent", counts |-> {}], [op |-> "Exists", counts |-> {}]}
    \cup {[op |-> "In", counts |-> c] : c \in {{0}, {1}, {8}, {12}, {1, 2}, {3}}}

\* A boot disk, alone and among others: two image caches, one image kept
\* from the node, and a disk without an image.
MCDiskLists ==
    LET Boot(size) == [boot |-> TRUE, size |-> size, image |-> NoImage, mode |-> ""]
        Cache(image, mode) == [boot |-> FALSE, size |-> 50, image |-> image, mode |-> mode]
    IN  {<<Boot(20)>>,
         <<Cache("models", "CONTAINER_IMAGE_CACHE"), Boot(20)>>,
         <<Cache("models", "CONTAINER_IMAGE_CACHE"), Cache("tools", ""), Boot(100),
           Cache("kept", "MODE_UNSPECIFIED"), Cache(NoImage, "")>>}
-----------------------------------------------------------------------------

Offering == \E t \in Types : Offered(t) # {}

(* What NewStaticInstanceType reserves for the system by itself leaves     *)
(* something of CPU, memory and storage on every machine, and a machine    *)
(* with more cores or more memory never has less to offer: crossing an     *)
(* edge of the bracketed tables (utils.go:72, :114) loses nothing.         *)
LargerMachineHoldsMore == Offering => ReservationCounterexamples = {}

(* What Karpenter packs pods against is what the node will offer: the CPU  *)
(* (less the kube-proxy pod it cannot see), memory, pods and GPUs that     *)
(* NewStaticInstanceType and computeCapacity promise are those the kubelet *)
(* and the device plugin compute from the metadata setupInstanceMetadata   *)
(* writes, whatever the kubelet settings of the node class, and every pod  *)
(* has two addresses in the node's alias range.                            *)
PlanMatchesKubelet == Offering => PlanCounterexamples = {}


(* The VM buildInstance asks for is one GCE accepts, and the one planned   *)
(* for.  GCE boots from the first disk and takes one boot disk only:       *)
(* renderDiskProperties puts it first and gives it the node's image,       *)
(* wherever the class lists it.  The local SSDs of the VM, attached or     *)
(* bundled with the machine, are as many as the node claim asked for, as   *)
(* the planner counted as storage and as kube-env announces; every image   *)
(* disk kube-env names is attached under that device name, once.  A VM     *)
(* that cannot be moved while it runs never asks for live migration, in    *)
(* whatever order the policies are applied, and exactly the spot VMs are   *)
(* deleted on preemption and never restarted.                              *)
BuiltAsPlanned ==
    Offering => DiskCounterexamples = {} /\ SchedulingCounterexamples = {}
=============================================================================
