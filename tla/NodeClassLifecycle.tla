------------------------- MODULE NodeClassLifecycle -------------------------
(***************************************************************************)
(* A GCENodeClass and the NodeClaims that use it: the status, hash and     *)
(* termination controllers (pkg/controllers/nodeclass), drift detection    *)
(* (pkg/cloudprovider/drift.go), and what CloudProvider.Get needs of the   *)
(* NodeClass when core finalizes a node.                                   *)
(*                                                                         *)
(* The controllers work on copies of the NodeClass.  Writes under a        *)
(* resource version fail when the object has changed since: a copy is      *)
(* "fresh" or not.  The hash controller patches without one.  A spec and   *)
(* an image set are numbers; the hash of a spec is the spec.               *)
(***************************************************************************)
EXTENDS Naturals

CONSTANTS
    Claims,
    Unready,        \* the NodeClaims whose node may become NotReady
    MaxSpec,        \* bound: changes of the spec
    MaxImage        \* bound: image sets that are published

ASSUME NodeClassAssumption ==
    /\ Unready \subseteq Claims
    /\ MaxSpec \in Nat \ {0}
    /\ MaxImage \in Nat \ {0}

VARIABLES
    class,      \* the GCENodeClass
    pool,       \* the NodePool that refers to it exists
    claim,      \* NodeClaim -> phase, hash annotation, ImageID
    node,       \* NodeClaim -> its node
    vm,         \* the NodeClaims that have a VM
    published,  \* the image set that the image provider resolves to
    status,     \* the status controller: what it is about to patch
    hashed,     \* the hash controller: the spec it has read, 0 if none
    term,       \* the termination controller
    using       \* history: the NodeClaims there were when class was deleted

vars == <<class, pool, claim, node, vm, published, status, hashed, term, using>>

NoImage == 0        \* Status.Images is empty; as ImageID, no VM yet
Failing == MaxImage + 1
Unavailable == MaxImage + 2

NoClass == [phase |-> "gone", finalizer |-> FALSE, spec |-> 0, hash |-> 0,
            images |-> NoImage, ready |-> FALSE]
NoClaim == [phase |-> "none", hash |-> 0, image |-> NoImage]
NoPatch == [pending |-> FALSE, fresh |-> FALSE, images |-> NoImage,
            ready |-> FALSE]

Init ==
    /\ class = [phase |-> "active", finalizer |-> FALSE, spec |-> 1,
                hash |-> 0, images |-> NoImage, ready |-> FALSE]
    /\ pool = TRUE
    /\ claim = [c \in Claims |-> NoClaim]
    /\ node = [c \in Claims |-> "none"]
    /\ vm = {}
    /\ published = 1
    /\ status = NoPatch
    /\ hashed = 0
    /\ term = "idle"
    /\ using = {}

Exists == class.phase # "gone"

(* What is left of a patch whose copy is out of date: it will be refused. *)
Refused == [NoPatch EXCEPT !.pending = status.pending]

(* The NodeClass is written: copies made before are out of date. *)
Outdated ==
    /\ status' = Refused
    /\ term' = IF term = "empty" THEN "stale" ELSE term

Live(c) == claim[c].phase \in {"pending", "launched", "deleting"}

-----------------------------------------------------------------------------
(* Users and the image provider's data.                                    *)

SpecChanges ==
    /\ Exists
    /\ class.spec < MaxSpec
    /\ class' = [class EXCEPT !.spec = @ + 1]
    /\ Outdated
    /\ UNCHANGED <<pool, claim, node, vm, published, hashed, using>>

(* Without a finalizer the object is gone at once. *)
ClassDeleted ==
    /\ class.phase = "active"
    /\ class' = IF class.finalizer THEN [class EXCEPT !.phase = "deleting"]
                                   ELSE NoClass
    /\ using' = IF class.finalizer THEN {c \in Claims : Live(c)} ELSE {}
    /\ Outdated
    /\ UNCHANGED <<pool, claim, node, vm, published, hashed>>

PoolDeleted ==
    /\ pool
    /\ pool' = FALSE
    /\ UNCHANGED <<class, claim, node, vm, published, status, hashed, term, using>>

Publication ==
    /\ published' \in (1..MaxImage) \cup {Failing, Unavailable}
    /\ published' # published
    /\ UNCHANGED <<class, pool, claim, node, vm, status, hashed, term, using>>

-----------------------------------------------------------------------------
(* The status controller.                                                  *)

(* The API server takes no new finalizer for an object being deleted. *)
AddFinalizer ==
    /\ class.phase = "active"
    /\ ~status.pending
    /\ ~class.finalizer
    /\ class' = [class EXCEPT !.finalizer = TRUE]
    /\ Outdated
    /\ UNCHANGED <<pool, claim, node, vm, published, hashed, using>>

(* Image.Reconcile: a lookup that fails keeps the image set for diagnosis, *)
(* confirmed unavailability drops it.                                      *)
ResolveImages ==
    /\ Exists /\ class.finalizer
    /\ ~status.pending
    /\ status' = [pending |-> TRUE, fresh |-> TRUE,
                  images |-> CASE published = Failing -> class.images
                               [] published = Unavailable -> NoImage
                               [] OTHER -> published,
                  ready |-> published \in 1..MaxImage]
    /\ UNCHANGED <<class, pool, claim, node, vm, published, hashed, term, using>>

(* Status().Patch with the optimistic lock; a conflict is retried from the *)
(* start.                                                                  *)
PatchStatus ==
    /\ status.pending
    /\ IF status.fresh /\ Exists
       THEN /\ class' = [class EXCEPT !.images = status.images,
                                      !.ready = status.ready]
            /\ term' = IF term = "empty" /\ class' # class THEN "stale" ELSE term
       ELSE UNCHANGED <<class, term>>
    /\ status' = NoPatch
    /\ UNCHANGED <<pool, claim, node, vm, published, hashed, using>>

-----------------------------------------------------------------------------
(* The hash controller.  It patches without a resource version.            *)

HashRead ==
    /\ Exists
    /\ hashed = 0
    /\ class.hash # class.spec
    /\ hashed' = class.spec
    /\ UNCHANGED <<class, pool, claim, node, vm, published, status, term, using>>

(* A plausible slip: the annotation is written only once. *)
HashPatchOnce ==
    /\ hashed # 0
    /\ IF Exists /\ class.hash = 0
       THEN class' = [class EXCEPT !.hash = hashed] /\ Outdated
       ELSE UNCHANGED <<class, status, term>>
    /\ hashed' = 0
    /\ UNCHANGED <<pool, claim, node, vm, published, using>>

HashPatch ==
    /\ hashed # 0
    /\ IF Exists
       THEN class' = [class EXCEPT !.hash = hashed] /\ Outdated
       ELSE UNCHANGED <<class, status, term>>
    /\ hashed' = 0
    /\ UNCHANGED <<pool, claim, node, vm, published, using>>

-----------------------------------------------------------------------------
(* The termination controller lists the NodeClaims, then updates the       *)
(* object it was called with.                                              *)

(* A plausible slip: NodeClaims that are being deleted are not waited for. *)
Undeleted(c) == claim[c].phase \in {"pending", "launched"}

InUse(c) == Live(c)

ListClaims ==
    /\ class.phase = "deleting" /\ class.finalizer
    /\ term = "idle"
    /\ \A c \in Claims : ~InUse(c)
    /\ term' = "empty"
    /\ UNCHANGED <<class, pool, claim, node, vm, published, status, hashed, using>>

(* A plausible slip: a conflict is swallowed and nothing tries again. *)
RemoveFinalizerGivesUp ==
    /\ term = "empty"
    /\ term' = "idle"
    /\ class' = NoClass
    /\ status' = Refused
    /\ UNCHANGED <<pool, claim, node, vm, published, hashed, using>>

RemoveFinalizer ==
    /\ term \in {"empty", "stale"}
    /\ term' = "idle"
    /\ class' = IF term = "empty" THEN NoClass ELSE class
    /\ status' = IF term = "empty" THEN Refused ELSE status
    /\ UNCHANGED <<pool, claim, node, vm, published, hashed, using>>

-----------------------------------------------------------------------------
(* NodeClaims, core and Create.                                            *)

(* GetInstanceTypes offers nothing for a NodeClass that is terminating or  *)
(* has no images.  The NodeClaim is created later, from that decision.     *)
Plan(c) ==
    /\ claim[c].phase = "none"
    /\ pool /\ class.phase = "active" /\ class.ready
    /\ claim' = [claim EXCEPT ![c].phase = "planned"]
    /\ UNCHANGED <<class, pool, node, vm, published, status, hashed, term, using>>

ClaimCreated(c) ==
    /\ claim[c].phase = "planned"
    /\ claim' = [claim EXCEPT ![c].phase = "pending"]
    /\ UNCHANGED <<class, pool, node, vm, published, status, hashed, term, using>>

(* CloudProvider.Create.  A NodeClass that cannot be read is reported as a *)
(* lack of capacity and one that is not ready as such; core deletes the    *)
(* NodeClaim in both cases.  The hash is that of the spec, not the         *)
(* annotation.                                                             *)
Create(c) ==
    /\ claim[c].phase = "pending"
    /\ IF Exists /\ class.ready
       THEN /\ claim' = [claim EXCEPT ![c] = [phase |-> "launched",
                                              hash |-> class.spec,
                                              image |-> class.images]]
            /\ vm' = vm \cup {c}
            /\ node' = [node EXCEPT ![c] = "ready"]
       ELSE /\ claim' = [claim EXCEPT ![c].phase = "deleting"]
            /\ UNCHANGED <<vm, node>>
    /\ UNCHANGED <<class, pool, published, status, hashed, term, using>>

NotReady(c) ==
    /\ c \in Unready
    /\ node[c] = "ready"
    /\ node' = [node EXCEPT ![c] = "notReady"]
    /\ UNCHANGED <<class, pool, claim, vm, published, status, hashed, term, using>>

ClaimDeleted(c) ==
    /\ claim[c].phase \in {"pending", "launched"}
    /\ claim' = [claim EXCEPT ![c].phase = "deleting"]
    /\ UNCHANGED <<class, pool, node, vm, published, status, hashed, term, using>>

(* CloudProvider.Get resolves the VM's instance type through its NodePool  *)
(* and NodeClass.  That either is gone is no error; that the NodeClass is  *)
(* terminating is one.                                                     *)
GetFails(c) == c \in vm /\ pool /\ class.phase = "deleting"

(* Core finalizes the node: if it is not ready, Get has to succeed or to   *)
(* report NotFound first.  Then the node is drained and its VM deleted.    *)
FinalizeNode(c) ==
    /\ claim[c].phase = "deleting"
    /\ node[c] # "none"
    /\ node[c] = "notReady" => ~GetFails(c)
    /\ node' = [node EXCEPT ![c] = "none"]
    /\ vm' = vm \ {c}
    /\ UNCHANGED <<class, pool, claim, published, status, hashed, term, using>>

FinalizeClaim(c) ==
    /\ claim[c].phase = "deleting"
    /\ node[c] = "none"
    /\ claim' = [claim EXCEPT ![c] = [NoClaim EXCEPT !.phase = "gone"]]
    /\ vm' = vm \ {c}
    /\ UNCHANGED <<class, pool, node, published, status, hashed, term, using>>

Next ==
    \/ SpecChanges
    \/ ClassDeleted
    \/ PoolDeleted
    \/ Publication
    \/ AddFinalizer
    \/ ResolveImages
    \/ PatchStatus
    \/ HashRead
    \/ HashPatch
    \/ ListClaims
    \/ RemoveFinalizer
    \/ \E c \in Claims :
        \/ Plan(c)
        \/ ClaimCreated(c)
        \/ Create(c)
        \/ NotReady(c)
        \/ ClaimDeleted(c)
        \/ FinalizeNode(c)
        \/ FinalizeClaim(c)

Spec == Init /\ [][Next]_vars

(* Every watch event leads to a reconcile, and errors are retried; the     *)
(* status controller asks to be called again in any case.  The             *)
(* deletion of the last NodeClaim triggers the termination controller.     *)
FairSpec ==
    /\ Spec
    /\ WF_vars(ResolveImages)
    /\ WF_vars(PatchStatus)
    /\ WF_vars(HashRead)
    /\ WF_vars(HashPatch)
    /\ SF_vars(ListClaims)
    /\ WF_vars(term = "stale" /\ RemoveFinalizer)
    /\ SF_vars(term = "empty" /\ RemoveFinalizer)
    /\ \A c \in Claims : /\ WF_vars(Create(c))
                         /\ WF_vars(FinalizeNode(c))
                         /\ WF_vars(FinalizeClaim(c))

-----------------------------------------------------------------------------
(* IsDrifted.                                                              *)

areStaticFieldsDrifted(c) ==
    /\ class.hash # 0
    /\ claim[c].hash # 0
    /\ class.hash # claim[c].hash

(* A plausible slip: a retained image set counts. *)
isImageDriftedAnyway(c) ==
    /\ claim[c].image # class.images
    /\ class.images # NoImage

(* Images are matched first; then a usable replacement is required. *)
isImageDrifted(c) ==
    /\ claim[c].image # class.images
    /\ class.ready
    /\ class.images # NoImage

IsDrifted(c) ==
    /\ pool /\ class.phase = "active"
    /\ areStaticFieldsDrifted(c) \/ isImageDrifted(c)

-----------------------------------------------------------------------------

(* The finalizer does its work: a NodeClass outlives every NodeClaim that  *)
(* existed when it was deleted, whatever the status and hash controllers   *)
(* write in between.                                                       *)
OutlivesItsClaims ==
    ~Exists => \A c \in using : ~Live(c)

(* Image drift settles: once the provider's answer stops changing, every   *)
(* node is reported as drifted exactly if a usable image set is published  *)
(* and the node runs another.  A node does not stay drifted for a set that *)
(* was withdrawn or cannot be looked up (Image.Reconcile keeps the old one *)
(* for diagnosis), nor for one that was published and taken back.          *)
ImageDriftSettles ==
    \A c \in Claims :
        \/ <>[](claim[c].phase = "launched" /\ class.phase = "active"
                => (isImageDrifted(c) <=> /\ published \in 1..MaxImage
                                         /\ claim[c].image # published))
        \/ []<><<Publication>>_vars

(* A node built from an older spec is reported as drifted in the end,      *)
(* although the hash in the NodeClass lags behind its spec.                *)
DriftIsNoticed ==
    \A c \in Claims :
        claim[c].phase = "launched" /\ claim[c].hash < class.spec
            ~> IsDrifted(c) \/ claim[c].phase # "launched"
                \/ class.phase # "active" \/ ~pool

(* A node built from the current spec may look drifted until the hash      *)
(* controller has caught up, but not for ever.                             *)
FalseDriftEnds ==
    \A c \in Claims :
        claim[c].phase = "launched" /\ claim[c].hash = class.spec
            ~> ~areStaticFieldsDrifted(c) \/ claim[c].hash # class.spec
                \/ class.phase # "active"

Winding == \A c \in Claims : claim[c].phase \in {"none", "deleting", "gone"}

(* A NodeClass whose NodeClaims are all being deleted goes away, unless    *)
(* the node of one of them stops being ready: then core asks Get first.    *)
(* A NodeClaim that was not in the list, created from an older plan, is    *)
(* not stuck without its NodeClass: Create gives it up, and Get ignores    *)
(* that the NodeClass is not found.                                        *)
TerminationCompletes ==
    /\ class.phase = "deleting" /\ Winding
        ~> ~Exists \/ ~Winding \/ \E c \in Claims : node[c] = "notReady"
    /\ \A c \in Claims : claim[c].phase \in {"pending", "deleting"} /\ ~Exists
        ~> claim[c].phase = "gone"

(* errNodeClassTerminating is, by its comment, treated by callers as "no   *)
(* NodeClass available" (equivalent to NotFound), so the deletion of a     *)
(* NodeClass does not keep any of its nodes from being finalized.          *)
TerminatingIsNotFound ==
    class.phase = "deleting" /\ Winding ~> ~Exists \/ ~Winding
=============================================================================
