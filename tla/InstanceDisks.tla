--------------------------- MODULE InstanceDisks ---------------------------
(***************************************************************************)
(* The disks of a VM: the variants with local SSDs a machine type is       *)
(* offered in (localssd.go, instancetype.go), the variants a launch may    *)
(* take (instance.go instanceTypesForLaunch), and the disks the instance   *)
(* is inserted with (renderDiskProperties, secondary_disks.go).            *)
(*                                                                         *)
(* A shape is a machine of NodeResources as the machine types API lists    *)
(* it: partitions counts the local SSDs bundled with it, NotSet when they  *)
(* are bundled and the API gives no number.  A variant is the machine with *)
(* the number of local SSDs it is offered with.  A disk of a node class is *)
(* a record [boot, size, image, mode], with NoImage for an empty           *)
(* secondaryBootImage; the CRD no longer accepts the category local-ssd    *)
(* that renderDiskProperties skips.                                        *)
(***************************************************************************)
EXTENDS InstanceTemplate, SequencesExt

CONSTANTS
    Shapes,            \* the machine types looked at
    DiskLists,         \* the disks of the node classes looked at
    Requests           \* what node claims ask of the number of local SSDs

NoImage == "none"

-----------------------------------------------------------------------------
(* Variants *)

\* <<fewest vCPUs, counts>>, largest machines first.
configurableLocalSSDFamilies ==
    [n1  |-> <<<<0, {1, 2, 3, 4, 5, 6, 7, 8, 16, 24}>>>>,
     n2  |-> <<<<82, {16, 24}>>, <<42, {8, 16, 24}>>, <<22, {4, 8, 16, 24}>>,
               <<12, {2, 4, 8, 16, 24}>>, <<2, {1, 2, 4, 8, 16, 24}>>>>,
     n2d |-> <<<<96, {8, 16, 24}>>, <<64, {4, 8, 16, 24}>>,
               <<32, {2, 4, 8, 16, 24}>>, <<2, {1, 2, 4, 8, 16, 24}>>>>,
     c2  |-> <<<<60, {8}>>, <<30, {4, 8}>>, <<16, {2, 4, 8}>>, <<4, {1, 2, 4, 8}>>>>,
     c2d |-> <<<<112, {8}>>, <<56, {4, 8}>>, <<32, {2, 4, 8}>>, <<2, {1, 2, 4, 8}>>>>]

FamilySupportsConfigurableLocalSSDs(machine) ==
    machine.family \in DOMAIN configurableLocalSSDFamilies

\* The first bracket the machine reaches.
AllowedLocalSSDCounts(machine) ==
    LET brackets == SelectSeq(configurableLocalSSDFamilies[machine.family],
                              LAMBDA bracket : machine.cpus >= bracket[1])
    IN  IF brackets = <<>> THEN {} ELSE Head(brackets)[2]

ssdCountVariants(shape) ==
    CASE FamilySupportsConfigurableLocalSSDs(shape) -> {0} \cup AllowedLocalSSDCounts(shape)
      [] OTHER -> IF shape.partitions = NotSet THEN {} ELSE {shape.partitions}

Variant(shape, count) == [shape EXCEPT !.partitions = count]

-----------------------------------------------------------------------------
(* The launch *)

\* A request is a record [op, counts], op being "absent", "In", or "Exists"
\* for any other operator.  The result is the set of counts a machine of a
\* configurable family may have.
requestedLocalSSDCount(request) ==
    CASE request.op = "absent" -> {0}
      [] request.op = "In" /\ Cardinality(request.counts) = 1 -> request.counts
      [] OTHER -> {}

instanceTypesForLaunch(request, variants) ==
    {v \in variants :
        \/ ~FamilySupportsConfigurableLocalSSDs(v)
        \/ v.partitions \in requestedLocalSSDCount(request)}

\* Karpenter core passes on the instance types the node claim's own
\* requirements allow.
Compatible(request, variants) ==
    {v \in variants : request.op = "In" => v.partitions \in request.counts}

secondaryBootDiskImageDeviceName(image) == <<"gke", image, "disk">>

\* A disk of the class that holds an image the node is told to mount.
HoldsImage(disk) ==
    ~disk.boot /\ disk.image # NoImage /\ disk.mode # "MODE_UNSPECIFIED"

secondaryBootDisks(disks) == SelectSeq(disks, HoldsImage)

\* The code's comparison moves a boot disk before whatever precedes it.
BootFirst(disks) ==
    Reverse(SelectSeq(disks, LAMBDA disk : disk.boot))
        \o SelectSeq(disks, LAMBDA disk : ~disk.boot)

scratchDisk == [boot |-> FALSE, device |-> <<>>, image |-> NoImage, type |-> "SCRATCH", size |-> 0]

\* A plausible slip: the SSDs that come with the machine are attached as well.
localSSDDisksAnyFamily(machine, count) == [i \in 1..count |-> scratchDisk]

localSSDDisks(machine, count) ==
    IF FamilySupportsConfigurableLocalSSDs(machine)
    THEN [i \in 1..count |-> scratchDisk]
    ELSE <<>>

\* A class without an image for the machine fails the launch before this.
renderDiskProperties(machine, disks, nodeImage, count) ==
    LET attached(disk) ==
            [boot |-> disk.boot,
             device |-> IF disk.boot THEN <<>> ELSE secondaryBootDiskImageDeviceName(disk.image),
             image |-> IF disk.boot THEN nodeImage ELSE disk.image,
             type |-> "PERSISTENT", size |-> disk.size]
        sorted == BootFirst(disks)
    IN  [i \in DOMAIN sorted |-> attached(sorted[i])] \o localSSDDisks(machine, count)

\* SECONDARY_BOOT_DISKS of kube-env: the devices the node mounts.
secondaryBootDiskPaths(disks) ==
    {secondaryBootDiskImageDeviceName(disk.image) : disk \in ToSet(secondaryBootDisks(disks))}

\* GCE: what the VM has in the end, the SSDs bundled with its machine type included.
LocalSSDs(shape, attached) ==
    Len(SelectSeq(attached, LAMBDA disk : disk.type = "SCRATCH"))
        + IF FamilySupportsConfigurableLocalSSDs(shape) THEN 0 ELSE shape.partitions

-----------------------------------------------------------------------------
(* What could go wrong *)

\* The node class with these disks, as the planner sees it.
ClassWith(nc, disks) ==
    [nc EXCEPT !.boot = SelectSeq(disks, LAMBDA disk : disk.boot)[1].size,
               !.secondary = secondaryBootDisks(disks) # <<>>]

DisksGoWrong(shape, variant, request, disks, class) ==
    LET nc == ClassWith(class, disks)
        attached == renderDiskProperties(variant, disks, "node", variant.partitions)
        boots == SelectSeq(attached, LAMBDA disk : disk.boot)
        devices == [i \in DOMAIN attached |-> attached[i].device]
        count == LocalSSDs(shape, attached)
        env == patchLocalSSDMetadata([k \in EnvKeys |-> Absent], variant, nc)
    IN  \/ Len(boots) # 1 \/ ~attached[1].boot \/ attached[1].image # "node"
        \/ \E path \in secondaryBootDiskPaths(disks) :
              Len(SelectSeq(attached, LAMBDA disk : disk.device = path /\ disk.image = path[2])) # 1
        \/ request.op = "In" /\ count \notin request.counts
        \/ request.op = "absent" /\ FamilySupportsConfigurableLocalSSDs(shape) /\ count # 0
        \/ nc.mode = "raw" /\ env["NVME_BLOCK_EXT"] # IF count > 0 THEN Ours(count) ELSE Absent
        \/ computeCapacity(variant, nc).storage
              # IF nc.mode = "ephemeral" /\ count > 0 THEN TotalGiB(shape, count)
                ELSE attached[1].size

DiskCounterexamples ==
    {p \in Shapes \X Requests \X DiskLists \X Classes :
        \E v \in instanceTypesForLaunch(p[2],
                    Compatible(p[2], {Variant(p[1], n) : n \in ssdCountVariants(p[1])})) :
            DisksGoWrong(p[1], v, p[2], p[3], p[4])}
=============================================================================
