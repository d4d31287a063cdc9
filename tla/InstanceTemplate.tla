------------------------- MODULE InstanceTemplate --------------------------
(***************************************************************************)
(* What a VM is launched with: the bootstrap metadata made from the source *)
(* template and the node class, and the scheduling of the instance         *)
(* (instance.go buildInstance and below, metadata_bootstrap.go, metadata/).*)
(*                                                                         *)
(* A kube-env entry holds what the source template had, what the provider  *)
(* wrote, or nothing.  A source is a record                                *)
(*   [env, kubeLabels, nodeLabels, kubelet]                                *)
(* the first three being the keys it has, and kubelet its kubelet-config   *)
(*   [kubeReserved, systemReserved, evictionHard, podsPerCore, shutdown].  *)
(* A class adds to the fields of NodeResources                             *)
(*   [os, secondary, huge2m, huge1g, confidential, notice, autoTaint].     *)
(***************************************************************************)
EXTENDS NodeResources

CONSTANTS
    Sources,           \* the source templates looked at
    Classes            \* the node classes looked at for the metadata

-----------------------------------------------------------------------------
(* kube-env *)

Inherited == [from |-> "source", value |-> 0]
Absent    == [from |-> "none", value |-> 0]
Ours(v)   == [from |-> "provider", value |-> v]

\* Entries written and removed together are one key: GPU_SHARING stands for
\* the three of gpuSharingKubeEnvEntries, BFQ for the two of the I/O scheduler.
EnvKeys ==
    {"CA_CERT", "ZONE", "BFQ", "SECONDARY_BOOT_DISKS", "HUGEPAGE_2M", "HUGEPAGE_1G",
     "HUGETLB_CONTROLLER", "GPU_SHARING", "NVME_BLOCK_EXT", "EPHEMERAL_LOCAL_SSD"}

SetEntry(env, key, value) == [env EXCEPT ![key] = Ours(value)]

UnsetEntry(env, key) == [env EXCEPT ![key] = Absent]

parseKubeEnv(source) ==
    [k \in EnvKeys |-> IF k \in source.env THEN Inherited ELSE Absent]

\* CA_CERT stands for the entries no node can boot without.
validateSourceKubeEnv(source) == "CA_CERT" \in source.env

\* A custom image keeps what the source has.
patchKubeEnvOSDistribution(env, nc) ==
    CASE nc.os = "ubuntu" -> UnsetEntry(env, "BFQ")
      [] nc.os = "cos" -> SetEntry(env, "BFQ", 1)
      [] OTHER -> env

patchSecondaryBootDisksKubeEnv(env, nc) ==
    IF nc.secondary THEN SetEntry(env, "SECONDARY_BOOT_DISKS", 1)
    ELSE UnsetEntry(env, "SECONDARY_BOOT_DISKS")


patchHugepagesKubeEnv(env, nc) ==
    LET pages(e, key, n) ==
            IF n # NotSet THEN SetEntry(e, key, n) ELSE UnsetEntry(e, key)
        both == pages(pages(env, "HUGEPAGE_2M", nc.huge2m), "HUGEPAGE_1G", nc.huge1g)
    IN  IF nc.huge2m # NotSet \/ nc.huge1g # NotSet
        THEN SetEntry(both, "HUGETLB_CONTROLLER", 1) ELSE both

patchGPUSharingKubeEnv(env, machine, nc) ==
    IF machine.gpus = 0 \/ nc.sharing = NotSet THEN UnsetEntry(env, "GPU_SHARING")
    ELSE SetEntry(env, "GPU_SHARING", nc.sharing)

\* One mode of local SSD excludes the other.
patchLocalSSDMetadata(env, machine, nc) ==
    CASE machine.partitions <= 0 -> env
      [] machine.partitions > 0 /\ nc.mode = "ephemeral" ->
            SetEntry(UnsetEntry(env, "NVME_BLOCK_EXT"), "EPHEMERAL_LOCAL_SSD", 1)
      [] OTHER ->
            SetEntry(UnsetEntry(env, "EPHEMERAL_LOCAL_SSD"), "NVME_BLOCK_EXT", machine.partitions)

targetKubeEnv(source, machine, nc) ==
    LET zoned == SetEntry(parseKubeEnv(source), "ZONE", 1)
        disks == patchSecondaryBootDisksKubeEnv(patchKubeEnvOSDistribution(zoned, nc), nc)
    IN  patchLocalSSDMetadata(
            patchGPUSharingKubeEnv(patchHugepagesKubeEnv(disks, nc), machine, nc),
            machine, nc)

-----------------------------------------------------------------------------
(* Labels, taints and the flags of the kubelet *)

\* The labels GKE's own daemons select nodes by; two stand for the six.
GKEReadinessLabelKeys == {"netd-ready", "masq-agent-ready"}

filterReadinessLabels(labels) == labels \cap GKEReadinessLabelKeys

\* own, and those of inherited that own does not have.
mergeMissingLabels(own, inherited) ==
    [k \in own \cup inherited |-> IF k \in own THEN "provider" ELSE "source"]

bootstrapKubeEnvLabels == {"max-pods-per-node", "os-distribution", "nodepool", "nodeclass"}

bootstrapKubeLabels == bootstrapKubeEnvLabels \cup {"registered"}

gpuLabels(machine, nc) ==
    IF machine.gpus = 0 THEN {}
    ELSE {"gpu-driver", "cpu-scaling-level"}
            \cup IF nc.sharing = NotSet THEN {} ELSE {"gpu-sharing"}

gpuTaints(machine, nc) == IF machine.gpus > 0 /\ nc.autoTaint THEN {"gpu"} ELSE {}

\* Written on both maps of labels, over what is there.
commonLabels(machine, nc) ==
    {"max-pods", "provisioning", "family"} \cup gpuLabels(machine, nc)
        \cup IF machine.partitions > 0 THEN {"local-ssd"} ELSE {}

buildTargetMetadata(source, machine, nc) ==
    LET written(own, inherited) ==
            mergeMissingLabels(own \cup commonLabels(machine, nc), filterReadinessLabels(inherited))
    IN  [kubeLabels |->
            written(bootstrapKubeLabels \cup IF nc.secondary THEN {"secondary-disk"} ELSE {},
                    source.kubeLabels),
         nodeLabels |-> written(bootstrapKubeEnvLabels, source.nodeLabels),
         taints |-> {"unregistered"} \cup gpuTaints(machine, nc),
         maxPods |-> GetMaxPods(nc)]

\* The alias range of the node: GKE gives a node two addresses per pod.
podCIDRRange(pods) ==
    CASE pods <= 8 -> 28 [] pods <= 16 -> 27 [] pods <= 32 -> 26
      [] pods <= 64 -> 25 [] pods <= 128 -> 24 [] OTHER -> 23

-----------------------------------------------------------------------------
(* kubelet-config *)

applyInstanceTypeKubeReserved(config, machine, nc) ==
    [config EXCEPT !.kubeReserved = Overlay(@, mergeKubeReserved(machine, nc))]

applyNodeClassKubeletConfig(config, nc) ==
    [config EXCEPT
        !.podsPerCore = IF nc.podsPerCore = NotSet THEN @ ELSE nc.podsPerCore,
        !.systemReserved = Overlay(@, nc.systemReserved),
        !.kubeReserved = Overlay(@, nc.kubeReserved),
        !.evictionHard = Overlay(@, nc.evictionHard)]

applySpotShutdownKubeletConfig(config, spot) ==
    IF spot THEN [config EXCEPT !.shutdown = 30] ELSE config

targetKubeletConfig(source, machine, nc, spot) ==
    applySpotShutdownKubeletConfig(
        applyNodeClassKubeletConfig(
            applyInstanceTypeKubeReserved(source.kubelet, machine, nc), nc),
        spot)

-----------------------------------------------------------------------------
(* Scheduling *)

setupScheduling(nc, spot) ==
    [action |-> IF spot THEN "DELETE" ELSE "",
     notice |-> IF spot /\ nc.notice > 0 THEN nc.notice ELSE 0,
     model |-> "", restart |-> TRUE, maintenance |-> ""]

configureInstanceCapacityProvision(sched, spot) ==
    IF spot THEN [sched EXCEPT !.model = "SPOT", !.restart = FALSE] ELSE sched

\* An empty policy leaves GCE its default, which is to migrate.
onHostMaintenancePolicy(machine, spot) ==
    LET limit == [z3 |-> 18 * 1024, z4d |-> 42000]
    IN  CASE spot \/ machine.gpus > 0 \/ machine.metal \/ machine.family = "h4d" -> "TERMINATE"
          [] OTHER -> IF machine.family \notin DOMAIN limit THEN ""
                      ELSE IF TotalGiB(machine, machine.partitions) > limit[machine.family]
                           THEN "TERMINATE" ELSE "MIGRATE"

configureConfidentialInstance(sched, nc) ==
    IF nc.confidential THEN [sched EXCEPT !.maintenance = "TERMINATE"] ELSE sched

schedulingOf(machine, nc, spot) ==
    configureConfidentialInstance(
        [configureInstanceCapacityProvision(setupScheduling(nc, spot), spot)
         EXCEPT !.maintenance = onHostMaintenancePolicy(machine, spot)], nc)

-----------------------------------------------------------------------------
(* The instance *)

\* The launch fails on a source that misses what every node needs.  (Other
\* failures, of the image, service account or server binary, are left out.)
buildable(source) == validateSourceKubeEnv(source)

buildInstance(source, machine, nc, spot) ==
    [env |-> targetKubeEnv(source, machine, nc),
     meta |-> buildTargetMetadata(source, machine, nc),
     kubelet |-> targetKubeletConfig(source, machine, nc, spot),
     range |-> podCIDRRange(GetMaxPods(nc)),
     scheduling |-> schedulingOf(machine, nc, spot),
     threads |-> nc.threads]

\* The guest: a VM with one thread per core shows half of its vCPUs.
GuestCPUs(machine, vm) ==
    IF vm.threads = 1 /\ machine.cpus >= 2 THEN machine.cpus \div 2 ELSE machine.cpus

\* The kubelet's own account of the node.  It rounds a percentage down.
KubeletAllocatable(machine, vm, r) ==
    LET capacity == [cpu |-> GuestCPUs(machine, vm) * 1000, memory |-> memoryOf(machine)]
        config == vm.kubelet
        eviction == IF r \notin DOMAIN config.evictionHard THEN 0
                    ELSE LET signal == config.evictionHard[r]
                         IN  IF signal.percent THEN (capacity[r] * signal.value) \div 100
                             ELSE signal.value
    IN  capacity[r] - At(config.kubeReserved, r) - At(config.systemReserved, r) - eviction

KubeletPods(machine, vm) ==
    IF vm.kubelet.podsPerCore > 0
    THEN Least(vm.meta.maxPods, vm.kubelet.podsPerCore * GuestCPUs(machine, vm))
    ELSE vm.meta.maxPods

\* The device plugin advertises every GPU once per client.
PluginGPUs(machine, vm) ==
    machine.gpus * IF vm.env["GPU_SHARING"] = Absent THEN 1 ELSE vm.env["GPU_SHARING"].value

-----------------------------------------------------------------------------
(* What could go wrong: the inputs for which a property of module MCCatalogue *)
(* would not hold.                                                         *)

\* The source pool leaves alone what the planner cannot see of it.
GKEDefaults(source) ==
    /\ DOMAIN source.kubelet.systemReserved = {}
    /\ source.kubelet.evictionHard = [memory |-> [percent |-> FALSE, value |-> 100]]
    /\ source.kubelet.podsPerCore = 0

PlanGoesWrong(source, machine, nc) ==
    LET vm == buildInstance(source, machine, nc, FALSE)
        plan == Allocatable(machine, nc)
        capacity == computeCapacity(machine, nc)
    IN  \/ plan.cpu + staticKubeProxyCPUMilliCore # KubeletAllocatable(machine, vm, "cpu")
        \/ KubeletAllocatable(machine, vm, "memory") - plan.memory \notin 0..1
        \/ capacity.pods # KubeletPods(machine, vm)
        \/ capacity.gpus # PluginGPUs(machine, vm)
        \/ 2 * capacity.pods > 2^(32 - vm.range)

PlanCounterexamples ==
    {p \in Sources \X Machines \X Kubelets :
        /\ buildable(p[1]) /\ GKEDefaults(p[1])
        /\ PlanGoesWrong(p[1], p[2], p[3])}

\* The kube-env entries a node has from its source pool, given what is asked
\* of the provider: it leaves them alone (metadata_bootstrap.go:109,
\* instance.go:1289), or the image is the user's own.
InheritedEntries(machine, nc) ==
    {"CA_CERT"}
        \cup (IF nc.os = "custom" THEN {"BFQ"} ELSE {})
        \cup (IF machine.partitions > 0 THEN {} ELSE {"NVME_BLOCK_EXT", "EPHEMERAL_LOCAL_SSD"})
        \cup (IF nc.huge2m # NotSet \/ nc.huge1g # NotSet THEN {} ELSE {"HUGETLB_CONTROLLER"})

Only(map, keys) == [k \in DOMAIN map \cap keys |-> map[k]]
Without(map, keys) == Only(map, DOMAIN map \ keys)

\* What the provider or the node class has settled of a VM.  The rest of the
\* kubelet's configuration is the source pool's (metadata_bootstrap.go:171-176).
Settled(vm, machine, nc, spot) ==
    [vm EXCEPT
        !.env = Without(@, InheritedEntries(machine, nc)),
        !.meta.kubeLabels = Without(@, GKEReadinessLabelKeys),
        !.meta.nodeLabels = Without(@, GKEReadinessLabelKeys),
        !.kubelet = [kubeReserved |-> Only(@.kubeReserved, {"cpu", "memory", "storage"}),
                     systemReserved |-> Only(@.systemReserved, DOMAIN nc.systemReserved),
                     evictionHard |-> Only(@.evictionHard, DOMAIN nc.evictionHard),
                     podsPerCore |-> IF nc.podsPerCore = NotSet THEN NotSet ELSE @.podsPerCore,
                     shutdown |-> IF spot THEN @.shutdown ELSE NotSet]]

LeaksInto(machine, nc, spot) ==
    LET nodes == {Settled(buildInstance(s, machine, nc, spot), machine, nc, spot) :
                    s \in {x \in Sources : buildable(x)}}
    IN  \E v, w \in nodes : v # w

LeakCounterexamples ==
    {p \in Machines \X Classes \X BOOLEAN : LeaksInto(p[1], p[2], p[3])}

SchedulingGoesWrong(machine, nc, spot) ==
    LET sched == schedulingOf(machine, nc, spot)
    IN  \/ /\ spot \/ nc.confidential \/ machine.gpus > 0 \/ machine.metal
           /\ sched.maintenance # "TERMINATE"
        \/ spot # (sched.action = "DELETE") \/ spot # (sched.model = "SPOT")
        \/ spot /\ sched.restart
        \/ ~spot /\ sched.notice # 0

SchedulingCounterexamples ==
    {p \in Machines \X Classes \X BOOLEAN : SchedulingGoesWrong(p[1], p[2], p[3])}

=============================================================================
