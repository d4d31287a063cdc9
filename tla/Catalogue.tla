------------------------------ MODULE Catalogue ------------------------------
(***************************************************************************)
(* Custom machine types in the instance type catalogue.  A user registers  *)
(* a custom shape with a GCECustomMachineType object;                      *)
(* pkg/controllers/gcecustommachinetype confirms in which zones the shape  *)
(* exists and writes that to the object's status;                          *)
(* pkg/controllers/providers/instancetype merges the Ready objects into    *)
(* the catalogue of pkg/providers/instancetype, from which List serves the *)
(* scheduler.                                                              *)
(*                                                                         *)
(* Both controllers read objects from the informer's cache, which lags     *)
(* behind the API server; a status is written with an optimistic lock.     *)
(* The cache is up to date with an event before the event starts a         *)
(* reconcile.                                                              *)
(*                                                                         *)
(* Predefined shapes come from GCE at every update, and are left out, as   *)
(* is the cache of static instance types, which is flushed when their set  *)
(* changes.                                                                *)
(***************************************************************************)
EXTENDS Naturals, Sequences, FiniteSets

CONSTANTS
    NameOrder,      \* names of the objects in lexicographic order
    Types,          \* custom machine types
    MachineType,    \* name -> type; spec.machineType cannot be changed
    Zones,
    FirstZones,     \* where GCE may have a type at first
    Prices,
    NoPrice,
    ListPrice,      \* name -> price in the object when it is created
    MaxChanges,     \* bound: changes by users, of GCE and of the cluster
    MaxErrors       \* bound: calls that fail

Objects == {NameOrder[i] : i \in 1..Len(NameOrder)}
Place(o) == CHOOSE i \in 1..Len(NameOrder) : NameOrder[i] = o

ASSUME CatalogueAssumption ==
    /\ \A i, j \in 1..Len(NameOrder) : NameOrder[i] = NameOrder[j] => i = j
    /\ MachineType \in [Objects -> Types]
    /\ FirstZones \subseteq SUBSET Zones
    /\ NoPrice \notin Prices
    /\ ListPrice \in [Objects -> Prices]
    /\ MaxChanges \in Nat
    /\ MaxErrors \in Nat

VARIABLES
    reg,        \* name -> the object in the API server
    pending,    \* names with events on their way to the informer's cache
    seen,       \* name -> the object in the cache
    queue,      \* names waiting to be reconciled
    ctl,        \* name -> its reconcile
    gce,        \* type -> zones in which GCE has it
    zones,      \* the zones of the cluster
    stale,      \* names whose zones changed and were not looked at since
    cat,        \* type -> what the instance type provider holds of it
    update,     \* reconcile of the instance type controller: what is to do
    dirty,      \* another reconcile of it is due
    now,        \* the latest creation timestamp
    changes,
    errors

regVars == <<reg, pending>>
catVars == <<cat, update, dirty>>
envVars == <<gce, zones, now, changes, errors>>
vars == <<regVars, seen, queue, ctl, stale, catVars, envVars>>

NoReg == [exists |-> FALSE, created |-> 0, price |-> NoPrice,
          ready |-> "unknown", zones |-> {}, shape |-> FALSE]
Idle == [pc |-> "idle", stored |-> NoReg, next |-> NoReg, retry |-> FALSE,
         current |-> FALSE, evidence |-> {}]
Updates == {"types", "offerings"}

Registered(o, t) ==
    [NoReg EXCEPT !.exists = TRUE, !.created = t, !.price = ListPrice[o]]

(* Some objects have just been created, in the same second. *)
Init ==
    /\ reg \in {[o \in Objects |-> IF o \in known THEN Registered(o, 1) ELSE NoReg] :
                known \in SUBSET Objects}
    /\ pending = {}
    /\ seen = reg
    /\ queue = {o \in Objects : reg[o].exists}
    /\ ctl = [o \in Objects |-> Idle]
    /\ gce \in [Types -> FirstZones]
    /\ zones = Zones
    /\ stale = {}
    /\ cat = [m \in Types |-> [known |-> FALSE, price |-> NoPrice, zones |-> {}]]
    /\ update = {}
    /\ dirty = TRUE
    /\ now = 1
    /\ changes = 0
    /\ errors = 0

-----------------------------------------------------------------------------
(* Which of two registrations of one machine type counts.                  *)

(* Earlier creation, then the smaller name. *)
outranks(a, oa, b, ob) ==
    \/ a.created < b.created
    \/ a.created = b.created /\ Place(oa) < Place(ob)

Siblings(o, known) ==
    {p \in Objects : /\ p # o
                     /\ known[p].exists
                     /\ MachineType[p] = MachineType[o]}

isSupersededDuplicate(o) ==
    \E p \in Siblings(o, seen) : outranks(seen[p], p, seen[o], o)

-----------------------------------------------------------------------------
(* Writes to the API server, and the watch.                                *)

(* Every write changes the resource version: a reconcile that has read the *)
(* object before will not be able to patch it.                             *)
Write(o, r) ==
    /\ reg' = [reg EXCEPT ![o] = r]
    /\ pending' = pending \cup {o}

Outdated(o) == [ctl EXCEPT ![o].current = FALSE]

Change ==
    /\ changes < MaxChanges
    /\ changes' = changes + 1
    /\ UNCHANGED errors

(* A call fails. *)
Error ==
    /\ errors < MaxErrors
    /\ errors' = errors + 1
    /\ UNCHANGED <<gce, zones, now, changes>>

Create(o) ==
    /\ Change
    /\ ~reg[o].exists
    /\ \E t \in {now, now + 1} : now' = t /\ Write(o, Registered(o, t))
    /\ ctl' = Outdated(o)
    /\ UNCHANGED <<seen, queue, stale, gce, zones, catVars>>

Reprice(o) ==
    /\ Change
    /\ reg[o].exists
    /\ \E p \in Prices \ {reg[o].price} : Write(o, [reg[o] EXCEPT !.price = p])
    /\ ctl' = Outdated(o)
    /\ UNCHANGED <<seen, queue, stale, gce, zones, now, catVars>>

(* There is no finalizer: the object is gone at once. *)
Delete(o) ==
    /\ Change
    /\ reg[o].exists
    /\ Write(o, NoReg)
    /\ ctl' = Outdated(o)
    /\ UNCHANGED <<seen, queue, stale, gce, zones, now, catVars>>

(* GCE offers a type in a zone or no longer does; the cluster gets or      *)
(* loses a zone.                                                           *)
GCEChanges(m, z) ==
    /\ Change
    /\ gce' = [gce EXCEPT ![m] = IF z \in @ THEN @ \ {z} ELSE @ \cup {z}]
    /\ stale' = Objects
    /\ UNCHANGED <<regVars, seen, queue, ctl, zones, now, catVars>>

ZonesChange(z) ==
    /\ Change
    /\ zones' = IF z \in zones THEN zones \ {z} ELSE zones \cup {z}
    /\ zones' # {}
    /\ stale' = Objects
    /\ UNCHANGED <<regVars, seen, queue, ctl, gce, now, catVars>>

(* A plausible slip: siblings are not told. *)
DeliverToOne ==
    /\ pending # {}
    /\ pending' = {}
    /\ seen' = reg
    /\ queue' = queue \cup pending
    /\ dirty' = TRUE
    /\ UNCHANGED <<reg, ctl, stale, cat, update, envVars>>

(* The events reach the cache and are mapped to requests: each object's    *)
(* own, those of enqueueSiblingsWithSameMachineType, and the instance type *)
(* controller's only one.                                                  *)
Deliver ==
    /\ pending # {}
    /\ pending' = {}
    /\ seen' = reg
    /\ queue' = queue \cup pending \cup UNION {Siblings(o, reg) : o \in pending}
    /\ dirty' = TRUE
    /\ UNCHANGED <<reg, ctl, stale, cat, update, envVars>>

(* resolveTTL after the last reconcile.  (A requeue without a reason is    *)
(* bounded like a change.)                                                 *)
Requeue(o) ==
    /\ seen[o].exists
    /\ o \notin queue /\ ctl[o].pc = "idle"
    /\ queue' = queue \cup {o}
    /\ \/ o \in stale /\ UNCHANGED envVars
       \/ o \notin stale /\ Change /\ UNCHANGED <<gce, zones, now>>
    /\ UNCHANGED <<regVars, seen, ctl, stale, catVars>>

-----------------------------------------------------------------------------
(* Controller.Reconcile of one object.  Other objects' run beside it.      *)

Withdrawn(r) == [r EXCEPT !.zones = {}, !.shape = FALSE, !.ready = "false"]

(* A plausible slip: no answer counts as not found. *)
KeptNever(r, failed) == {}

(* resolveZones: "failed" are the zones for which GCE gave no answer.  Of  *)
(* these, the ones that were confirmed before are kept.                    *)
Kept(r, failed) == IF r.ready = "true" THEN r.zones \cap failed ELSE {}

(* A plausible slip: the object stays Ready. *)
StillReady(r) == [r EXCEPT !.zones = {}]

(* No confirmed zone remains, and there are zones without an answer. *)
Unconfirmed(r) ==
    IF r.zones = {} THEN r ELSE [r EXCEPT !.zones = {}, !.ready = "unknown"]

Resolved(o, failed) ==
    LET r == seen[o]
        found == (zones \cap gce[MachineType[o]]) \ failed
        resolved == found \cup Kept(r, failed)
        shape == found # {} \/ (r.ready = "true" /\ r.shape)
    IN
    CASE resolved # {} ->
            [r EXCEPT !.zones = resolved, !.shape = shape, !.ready = "true"]
      [] resolved = {} /\ failed = {} -> Withdrawn(r)
      [] resolved = {} /\ failed # {} -> Unconfirmed(r)

(* Up to the patch: the object and its siblings are read from the cache,   *)
(* the cluster's zones are resolved and GCE is asked for each of them.     *)
(* GCE's answers to one reconcile count as simultaneous.                   *)
Reconcile(o, failed) ==
    LET superseded == isSupersededDuplicate(o)
        there == zones \cap gce[MachineType[o]]
    IN
    /\ o \in queue
    /\ ctl[o].pc = "idle"
    /\ seen[o].exists
    /\ failed \subseteq IF superseded THEN {} ELSE zones
    /\ queue' = queue \ {o}
    /\ stale' = stale \ {o}
    /\ ctl' = [ctl EXCEPT ![o] =
            [pc |-> "patch",
             stored |-> seen[o],
             next |-> IF superseded THEN Withdrawn(seen[o])
                                    ELSE Resolved(o, failed),
             retry |-> failed # {},
             current |-> o \notin pending,
             evidence |-> IF superseded THEN Zones ELSE Zones \ (failed \cup there)]]
    /\ IF failed = {} THEN UNCHANGED envVars ELSE Error
    /\ UNCHANGED <<regVars, seen, catVars>>

(* The object is gone. *)
ReconcileNothing(o) ==
    /\ o \in queue
    /\ ctl[o].pc = "idle"
    /\ ~seen[o].exists
    /\ queue' = queue \ {o}
    /\ UNCHANGED <<regVars, seen, ctl, stale, catVars, envVars>>

(* patchStatus: without a difference nothing is written; a conflict is     *)
(* returned and retried; that the object is gone is no error.              *)
Patch(o) ==
    LET c == ctl[o]
        differs == c.next # c.stored /\ reg[o].exists
    IN
    /\ c.pc = "patch"
    /\ IF differs /\ c.current THEN Write(o, c.next) ELSE UNCHANGED regVars
    /\ ctl' = [ctl EXCEPT ![o] = Idle]
    /\ queue' = IF c.retry \/ (differs /\ ~c.current)
                THEN queue \cup {o} ELSE queue
    /\ UNCHANGED <<seen, stale, catVars, envVars>>

(* The siblings, the cluster's zones or the status: a call fails. *)
ReconcileFails(o) ==
    /\ ctl[o].pc # "idle"
    /\ Error
    /\ ctl' = [ctl EXCEPT ![o] = Idle]
    /\ queue' = queue \cup {o}
    /\ UNCHANGED <<regVars, seen, stale, catVars>>

-----------------------------------------------------------------------------
(* The instance type provider and its controller.                          *)

Ready(known, m) ==
    {o \in Objects : /\ known[o].exists
                     /\ known[o].ready = "true"
                     /\ MachineType[o] = m}

(* listCustomMachineTypes: the highest-ranked Ready registration. *)
Winners(known, m) ==
    {o \in Ready(known, m) :
        \A p \in Ready(known, m) \ {o} : outranks(known[o], o, known[p], p)}

Custom(m) ==
    LET w == Winners(seen, m) IN
    IF w = {} THEN NoReg ELSE seen[CHOOSE o \in w : TRUE]

(* Both updates run in parallel, each under the write lock: in either      *)
(* order, and registrations may change between them.                       *)
UpdateStarts ==
    /\ dirty
    /\ update = {}
    /\ update' = Updates
    /\ dirty' = FALSE
    /\ UNCHANGED <<regVars, seen, queue, ctl, stale, cat, envVars>>

(* instanceTypesByName and customMachineTypePrices.  There is one entry    *)
(* for each zone of a registration.                                        *)
UpdateInstanceTypes ==
    LET known == {m \in Types : Custom(m).zones # {}} IN
    /\ "types" \in update
    /\ cat' = [m \in Types |-> [cat[m] EXCEPT !.known = m \in known,
                                              !.price = Custom(m).price]]
    /\ update' = update \ {"types"}
    /\ UNCHANGED <<regVars, seen, queue, ctl, stale, dirty, envVars>>

(* instanceTypesOfferings. *)
UpdateInstanceTypeOfferings ==
    /\ "offerings" \in update
    /\ cat' = [m \in Types |-> [cat[m] EXCEPT !.zones = Custom(m).zones]]
    /\ update' = update \ {"offerings"}
    /\ UNCHANGED <<regVars, seen, queue, ctl, stale, dirty, envVars>>

(* GCE or the API server gives no answer. *)
UpdateFails(u) ==
    /\ u \in update
    /\ Error
    /\ update' = update \ {u}
    /\ dirty' = TRUE
    /\ UNCHANGED <<regVars, seen, queue, ctl, stale, cat>>

(* What List returns of a type: injectOfferings. *)
Offered(m) ==
    IF cat[m].known /\ cat[m].price # NoPrice THEN cat[m].zones \cap zones ELSE {}

Next ==
    \/ \E o \in Objects :
        \/ Create(o) \/ Reprice(o) \/ Delete(o)
        \/ Requeue(o)
        \/ \E failed \in SUBSET Zones : Reconcile(o, failed)
        \/ ReconcileNothing(o)
        \/ Patch(o)
        \/ ReconcileFails(o)
    \/ \E z \in Zones : ZonesChange(z) \/ \E m \in Types : GCEChanges(m, z)
    \/ Deliver
    \/ UpdateStarts
    \/ UpdateInstanceTypes
    \/ UpdateInstanceTypeOfferings
    \/ \E u \in Updates : UpdateFails(u)

Spec == Init /\ [][Next]_vars

(* Events arrive, requests are worked off, and calls end and do not fail   *)
(* for ever.  The hourly requeue is relied on only for what no event tells *)
(* the controller: that GCE's or the cluster's zones have changed.         *)
FairSpec ==
    /\ Spec
    /\ WF_vars(Deliver)
    /\ \A o \in Objects : /\ WF_vars(o \in stale /\ Requeue(o))
                          /\ WF_vars(Reconcile(o, {}) \/ ReconcileNothing(o))
                          /\ WF_vars(Patch(o))
    /\ WF_vars(UpdateStarts)
    /\ WF_vars(UpdateInstanceTypes)
    /\ WF_vars(UpdateInstanceTypeOfferings)

-----------------------------------------------------------------------------

(* A Ready object has confirmed zones and a known shape: the scheduler is  *)
(* never given a node with 0 CPUs, whatever answers GCE gave or withheld,  *)
(* in whatever order they came (controller.go:165).                        *)
ReadyHasShape ==
    \A o \in Objects :
        reg[o].ready = "true" => reg[o].zones # {} /\ reg[o].shape

(* "Only a definitive absence or removal from the cluster's zones can      *)
(* withdraw their offerings": a confirmed zone disappears from a status    *)
(* only by a reconcile to which GCE answered that the type is not there,   *)
(* or which found the zone outside of the cluster or the object            *)
(* superseded, never because GCE gave no answer, and never by a reconcile  *)
(* that worked on an older object.                                         *)
WithdrawnOnEvidence ==
    [][\A o \in Objects :
        reg[o].exists /\ reg'[o].exists /\ reg[o].ready = "true"
            => /\ reg[o].zones \ reg'[o].zones \subseteq ctl[o].evidence
               /\ reg'[o] # reg[o] /\ reg'[o].price = reg[o].price
                    => ctl[o].stored = reg[o]]_vars

(* The registration of a type that counts, by the objects' metadata alone. *)
First(m) ==
    {o \in Objects : /\ reg[o].exists
                     /\ MachineType[o] = m
                     /\ \A p \in Siblings(o, reg) : ~outranks(reg[p], p, reg[o], o)}

(* In the end, whatever happened in whatever order, each type is offered   *)
(* in exactly the zones of the cluster in which GCE has it, at the price   *)
(* of the registration that ranks first, and only that one is Ready: a     *)
(* duplicate takes over when the winner is deleted, without waiting for    *)
(* its hourly requeue, and no update of the catalogue is lost.             *)
Settles ==
    <>[](\A m \in Types :
            /\ First(m) = {} => Offered(m) = {}
            /\ \A o \in First(m) : /\ Offered(m) = gce[m] \cap zones
                                   /\ Offered(m) # {} => cat[m].price = reg[o].price
            /\ \A o \in Ready(reg, m) : o \in First(m))
=============================================================================
