--------------------------- MODULE CatalogueProofs ---------------------------
(***************************************************************************)
(* Proofs about Catalogue: what the status of a custom machine type says,  *)
(* and on what evidence a zone disappears from it.                         *)
(***************************************************************************)
EXTENDS Catalogue, TLAPS

Regs == [exists : BOOLEAN, created : Nat, price : Prices \cup {NoPrice},
         ready : {"true", "false", "unknown"}, zones : SUBSET Zones, shape : BOOLEAN]

Reconciles == [pc : {"idle", "patch"}, stored : Regs, next : Regs, retry : BOOLEAN,
               current : BOOLEAN, evidence : SUBSET Zones]

TypeOK ==
    /\ reg \in [Objects -> Regs]
    /\ pending \subseteq Objects
    /\ seen \in [Objects -> Regs]
    /\ ctl \in [Objects -> Reconciles]
    /\ zones \subseteq Zones
    /\ now \in Nat

(* Ready means that there are confirmed zones and a shape. *)
Complete(r) == r.ready = "true" => r.zones # {} /\ r.shape

(* The status that a reconcile is about to write is complete, and drops    *)
(* from the status it has read only zones it has evidence against.         *)
Justified(c) ==
    /\ Complete(c.next)
    /\ c.next.price = c.stored.price
    /\ c.stored.ready = "true" => c.stored.zones \ c.next.zones \subseteq c.evidence

(* What is in the API server, in the informer's cache and in the hands of  *)
(* the controller is complete and justified; the cache lacks only what is  *)
(* pending; and a reconcile that can still patch has read what is stored.  *)
Consistent ==
    \A o \in Objects :
        /\ Complete(reg[o])
        /\ Complete(seen[o])
        /\ o \notin pending => seen[o] = reg[o]
        /\ ctl[o].pc = "patch" => Justified(ctl[o])
        /\ ctl[o].pc = "patch" /\ ctl[o].current => ctl[o].stored = reg[o]
-----------------------------------------------------------------------------
(* The records.                                                            *)

(* An object that does not exist is not Ready. *)
LEMMA NoRegType == NoReg \in Regs /\ Complete(NoReg)
BY DEF NoReg, Regs, Complete

(* A controller between two reconciles. *)
LEMMA IdleType == Idle \in Reconciles /\ Idle.pc = "idle"
BY NoRegType DEF Idle, Reconciles

(* An object that has just been created has no status. *)
LEMMA RegisteredType ==
    ASSUME NEW o \in Objects, NEW t \in Nat
    PROVE  Registered(o, t) \in Regs /\ Complete(Registered(o, t))
BY CatalogueAssumption DEF Registered, NoReg, Regs, Complete

(* A status that is withdrawn is not Ready and keeps the price. *)
LEMMA WithdrawnType ==
    ASSUME NEW r \in Regs
    PROVE  /\ Withdrawn(r) \in Regs
           /\ Complete(Withdrawn(r))
           /\ Withdrawn(r).price = r.price
BY DEF Withdrawn, Regs, Complete

(* resolveZones turns a complete status into a complete one, keeps the     *)
(* price, and drops a confirmed zone only if GCE answered for it and does  *)
(* not have the type there, or if the zone has left the cluster.           *)
LEMMA ResolvedJustified ==
    ASSUME TypeOK, NEW o \in Objects, NEW failed \in SUBSET Zones,
           Complete(seen[o])
    PROVE  LET r == Resolved(o, failed) IN
           /\ r \in Regs
           /\ Complete(r)
           /\ r.price = seen[o].price
           /\ seen[o].ready = "true"
                => seen[o].zones \ r.zones
                    \subseteq Zones \ (failed \cup (zones \cap gce[MachineType[o]]))
<1> DEFINE r == seen[o]
           found == (zones \cap gce[MachineType[o]]) \ failed
           resolved == found \cup Kept(r, failed)
           shape == found # {} \/ (r.ready = "true" /\ r.shape)
<1>1. r \in Regs /\ zones \subseteq Zones
  BY DEF TypeOK
<1>2. /\ Kept(r, failed) \subseteq r.zones \cap failed
      /\ r.ready = "true" => Kept(r, failed) = r.zones \cap failed
      /\ r.ready # "true" => Kept(r, failed) = {}
  BY DEF Kept
<1>3. resolved \subseteq Zones
  BY <1>1, <1>2 DEF Regs
<1>4. CASE resolved # {}
  <2>1. shape
    BY <1>2, <1>4 DEF Complete
  <2>2. Resolved(o, failed) =
          [r EXCEPT !.zones = resolved, !.shape = TRUE, !.ready = "true"]
    BY <1>4, <2>1 DEF Resolved
  <2>3. /\ Resolved(o, failed) \in Regs
        /\ Resolved(o, failed).zones = resolved
        /\ Resolved(o, failed).shape
        /\ Resolved(o, failed).price = r.price
    <3>1. resolved \in SUBSET Zones
      BY <1>3
    <3> HIDE DEF r, resolved
    <3> QED
      BY <1>1, <2>2, <3>1 DEF Regs
  <2>4. r.ready = "true"
          => r.zones \ resolved
               \subseteq Zones \ (failed \cup (zones \cap gce[MachineType[o]]))
    BY <1>1, <1>2 DEF Regs
  <2> QED
    BY <1>4, <2>3, <2>4 DEF Complete
<1>5. CASE resolved = {}
  <2>1. Resolved(o, failed) = Withdrawn(r) \/ Resolved(o, failed) = Unconfirmed(r)
    BY <1>5 DEF Resolved
  <2>2. Withdrawn(r) \in Regs /\ Complete(Withdrawn(r)) /\ Withdrawn(r).price = r.price
    BY <1>1, WithdrawnType
  <2>3. /\ Unconfirmed(r) \in Regs /\ Complete(Unconfirmed(r))
        /\ Unconfirmed(r).price = r.price
    BY <1>1 DEF Unconfirmed, Regs, Complete
  <2>4. r.ready = "true"
          => r.zones \subseteq Zones \ (failed \cup (zones \cap gce[MachineType[o]]))
    BY <1>1, <1>2, <1>5 DEF Regs
  <2> QED
    BY <2>1, <2>2, <2>3, <2>4
<1> QED
  BY <1>4, <1>5

(* Reconcile prepares a well-typed and justified patch from what it has    *)
(* read, whichever of GCE's answers are missing.                           *)
LEMMA ReconcilePrepares ==
    ASSUME TypeOK, Consistent, NEW o \in Objects, NEW failed \in SUBSET Zones,
           Reconcile(o, failed)
    PROVE  \E c \in Reconciles :
                /\ ctl' = [ctl EXCEPT ![o] = c]
                /\ Justified(c)
                /\ c.stored = seen[o]
                /\ c.current = (o \notin pending)
<1> DEFINE superseded == isSupersededDuplicate(o)
           there == zones \cap gce[MachineType[o]]
           next == IF superseded THEN Withdrawn(seen[o]) ELSE Resolved(o, failed)
           evidence == IF superseded THEN Zones ELSE Zones \ (failed \cup there)
           c == [pc |-> "patch", stored |-> seen[o], next |-> next,
                 retry |-> failed # {}, current |-> o \notin pending,
                 evidence |-> evidence]
<1>1. ctl' = [ctl EXCEPT ![o] = c]
  BY DEF Reconcile
<1>2. seen[o] \in Regs /\ Complete(seen[o])
  BY DEF TypeOK, Consistent
<1>3. /\ next \in Regs
      /\ Complete(next)
      /\ next.price = seen[o].price
      /\ seen[o].ready = "true" => seen[o].zones \ next.zones \subseteq evidence
  <2>1. CASE superseded
    BY <1>2, <2>1, WithdrawnType DEF Regs
  <2>2. CASE ~superseded
    BY <1>2, <2>2, ResolvedJustified
  <2> QED
    BY <2>1, <2>2
<1>4. evidence \subseteq Zones /\ (o \notin pending) \in BOOLEAN
      /\ (failed # {}) \in BOOLEAN
  OBVIOUS
<1> HIDE DEF next, evidence
<1>5. c \in Reconciles
  BY <1>2, <1>3, <1>4 DEF Reconciles
<1>6. Justified(c) /\ c.stored = seen[o] /\ c.current = (o \notin pending)
  BY <1>3 DEF Justified
<1> QED
  BY <1>1, <1>5, <1>6

-----------------------------------------------------------------------------
(* Types.                                                                  *)

(* The objects that exist at the start are registrations. *)
LEMMA InitTypeOK == Init => TypeOK
<1> SUFFICES ASSUME Init  PROVE TypeOK
  OBVIOUS
<1>1. reg \in [Objects -> Regs]
  <2>1. PICK known \in SUBSET Objects :
          reg = [o \in Objects |-> IF o \in known THEN Registered(o, 1) ELSE NoReg]
    BY DEF Init
  <2> QED
    BY <2>1, NoRegType, RegisteredType
<1> QED
  BY <1>1, IdleType DEF Init, TypeOK

(* Every step of the controllers, the informer and GCE preserves the       *)
(* types.                                                                  *)
LEMMA NextTypeOK == TypeOK /\ Consistent /\ [Next]_vars => TypeOK'
<1> SUFFICES ASSUME TypeOK, Consistent, [Next]_vars  PROVE TypeOK'
  OBVIOUS
<1> USE DEF TypeOK
<1>0. ASSUME NEW o \in Objects  PROVE Outdated(o) \in [Objects -> Reconciles]
  BY DEF Outdated, Reconciles
<1>1. ASSUME NEW o \in Objects, Create(o)  PROVE TypeOK'
  <2>1. PICK t \in {now, now + 1} : now' = t /\ Write(o, Registered(o, t))
    BY <1>1 DEF Create
  <2>2. t \in Nat /\ Registered(o, t) \in Regs
    BY RegisteredType
  <2> QED
    BY <1>0, <1>1, <2>1, <2>2 DEF Create, Write
<1>2. ASSUME NEW o \in Objects, Reprice(o)  PROVE TypeOK'
  <2>1. PICK p \in Prices : Write(o, [reg[o] EXCEPT !.price = p])
    BY <1>2 DEF Reprice
  <2>2. [reg[o] EXCEPT !.price = p] \in Regs
    BY DEF Regs
  <2> QED
    BY <1>0, <1>2, <2>1, <2>2 DEF Reprice, Write
<1>3. ASSUME NEW o \in Objects, Delete(o)  PROVE TypeOK'
  BY <1>0, <1>3, NoRegType DEF Delete, Write
<1>4. ASSUME NEW o \in Objects, Requeue(o)  PROVE TypeOK'
  BY <1>4 DEF Requeue, regVars, envVars, Change
<1>5. ASSUME NEW o \in Objects, NEW failed \in SUBSET Zones, Reconcile(o, failed)
      PROVE  TypeOK'
  <2>1. ctl' \in [Objects -> Reconciles]
    BY <1>5, ReconcilePrepares
  <2> QED
    BY <1>5, <2>1 DEF Reconcile, regVars, envVars, Error
<1>6. ASSUME NEW o \in Objects, ReconcileNothing(o)  PROVE TypeOK'
  BY <1>6 DEF ReconcileNothing, regVars, envVars
<1>7. ASSUME NEW o \in Objects, Patch(o)  PROVE TypeOK'
  <2>1. ctl[o].next \in Regs
    BY DEF Reconciles
  <2> QED
    BY <1>7, <2>1, IdleType DEF Patch, Write, regVars, envVars
<1>8. ASSUME NEW o \in Objects, ReconcileFails(o)  PROVE TypeOK'
  BY <1>8, IdleType DEF ReconcileFails, regVars, Error
<1>9. ASSUME NEW z \in Zones, ZonesChange(z)  PROVE TypeOK'
  BY <1>9 DEF ZonesChange, regVars
<1>10. ASSUME NEW z \in Zones, NEW m \in Types, GCEChanges(m, z)  PROVE TypeOK'
  BY <1>10 DEF GCEChanges, regVars
<1>11. CASE Deliver
  BY <1>11 DEF Deliver, envVars
<1>12. CASE UpdateStarts \/ UpdateInstanceTypes \/ UpdateInstanceTypeOfferings
  BY <1>12 DEF UpdateStarts, UpdateInstanceTypes, UpdateInstanceTypeOfferings,
               regVars, envVars
<1>13. ASSUME NEW u \in Updates, UpdateFails(u)  PROVE TypeOK'
  BY <1>13 DEF UpdateFails, regVars, Error
<1>14. CASE UNCHANGED vars
  BY <1>14 DEF vars, regVars, envVars
<1> QED
  BY <1>1, <1>2, <1>3, <1>4, <1>5, <1>6, <1>7, <1>8, <1>9, <1>10, <1>11, <1>12,
     <1>13, <1>14 DEF Next

-----------------------------------------------------------------------------
(* Consistency.                                                            *)

(* At the start the cache is up to date and no reconcile is under way. *)
LEMMA InitConsistent == Init => Consistent
<1> SUFFICES ASSUME Init, NEW o \in Objects
             PROVE  /\ Complete(reg[o])
                    /\ seen[o] = reg[o]
                    /\ ctl[o].pc = "idle"
  BY DEF Init, Consistent
<1>1. Complete(reg[o])
  <2>1. PICK known \in SUBSET Objects :
          reg = [p \in Objects |-> IF p \in known THEN Registered(p, 1) ELSE NoReg]
    BY DEF Init
  <2> QED
    BY <2>1, NoRegType, RegisteredType
<1> QED
  BY <1>1, IdleType DEF Init

(* A write by somebody else than the object's reconcile leaves that        *)
(* reconcile without the current version.                                  *)
LEMMA WriteConsistent ==
    ASSUME TypeOK, Consistent, NEW o \in Objects, NEW r, Complete(r),
           Write(o, r), ctl' = Outdated(o), UNCHANGED seen
    PROVE  Consistent'
<1>1. /\ reg' = [reg EXCEPT ![o] = r]
      /\ pending' = pending \cup {o}
  BY DEF Write
<1>2. ~ctl'[o].current /\ ctl'[o].pc = ctl[o].pc
      /\ (Justified(ctl[o]) => Justified(ctl'[o]))
  BY DEF Outdated, TypeOK, Reconciles, Justified
<1>3. \A p \in Objects \ {o} : ctl'[p] = ctl[p] /\ reg'[p] = reg[p]
  BY <1>1 DEF Outdated, TypeOK
<1>4. reg'[o] = r
  BY <1>1 DEF TypeOK
<1> SUFFICES ASSUME NEW p \in Objects
             PROVE  /\ Complete(reg'[p])
                    /\ Complete(seen'[p])
                    /\ p \notin pending' => seen'[p] = reg'[p]
                    /\ ctl'[p].pc = "patch" => Justified(ctl'[p])
                    /\ ctl'[p].pc = "patch" /\ ctl'[p].current
                            => ctl'[p].stored = reg'[p]
  BY DEF Consistent, Complete, Justified
<1>5. CASE p = o
  BY <1>1, <1>2, <1>4, <1>5 DEF Consistent
<1>6. CASE p # o
  BY <1>1, <1>3, <1>6 DEF Consistent
<1> QED
  BY <1>5, <1>6

(* The reconcile of o ends or prepares a patch; nothing is written. *)
LEMMA ControlConsistent ==
    ASSUME TypeOK, Consistent, NEW o \in Objects, NEW c,
           ctl' = [ctl EXCEPT ![o] = c], UNCHANGED <<reg, pending, seen>>,
           c.pc = "patch" => Justified(c),
           c.pc = "patch" /\ c.current => c.stored = reg[o]
    PROVE  Consistent'
<1>1. ctl'[o] = c /\ \A p \in Objects \ {o} : ctl'[p] = ctl[p]
  BY DEF TypeOK
<1> SUFFICES ASSUME NEW p \in Objects
             PROVE  /\ ctl'[p].pc = "patch" => Justified(ctl'[p])
                    /\ ctl'[p].pc = "patch" /\ ctl'[p].current
                            => ctl'[p].stored = reg[p]
  BY DEF Consistent, Complete, Justified
<1> QED
  BY <1>1 DEF Consistent

(* Every step of the controllers, the informer and GCE keeps all copies of *)
(* a status consistent.                                                    *)
LEMMA NextConsistent == TypeOK /\ Consistent /\ [Next]_vars => Consistent'
<1> SUFFICES ASSUME TypeOK, Consistent, [Next]_vars  PROVE Consistent'
  OBVIOUS
<1>0. CASE UNCHANGED <<reg, pending, seen, ctl>>
  BY <1>0 DEF Consistent, Complete, Justified
<1>1. ASSUME NEW o \in Objects, Create(o)  PROVE Consistent'
  <2>1. PICK t \in {now, now + 1} : Write(o, Registered(o, t))
    BY <1>1 DEF Create
  <2>2. t \in Nat
    BY DEF TypeOK
  <2>3. Complete(Registered(o, t))
    BY <2>2, RegisteredType
  <2> QED
    BY <1>1, <2>1, <2>3, WriteConsistent DEF Create
<1>2. ASSUME NEW o \in Objects, Reprice(o)  PROVE Consistent'
  <2>1. PICK p \in Prices : Write(o, [reg[o] EXCEPT !.price = p])
    BY <1>2 DEF Reprice
  <2>2. Complete([reg[o] EXCEPT !.price = p])
    <3>1. reg[o] \in Regs /\ Complete(reg[o])
      BY DEF TypeOK, Consistent
    <3> QED
      BY <3>1 DEF Regs, Complete
  <2> QED
    BY <1>2, <2>1, <2>2, WriteConsistent DEF Reprice
<1>3. ASSUME NEW o \in Objects, Delete(o)  PROVE Consistent'
  BY <1>3, NoRegType, WriteConsistent DEF Delete
<1>4. ASSUME NEW o \in Objects, Requeue(o) \/ ReconcileNothing(o)  PROVE Consistent'
  BY <1>0, <1>4 DEF Requeue, ReconcileNothing, regVars
<1>5. ASSUME NEW o \in Objects, NEW failed \in SUBSET Zones, Reconcile(o, failed)
      PROVE  Consistent'
  <2>1. PICK c \in Reconciles : /\ ctl' = [ctl EXCEPT ![o] = c]
                                /\ Justified(c)
                                /\ c.stored = seen[o]
                                /\ c.current = (o \notin pending)
    BY <1>5, ReconcilePrepares
  <2>2. UNCHANGED <<reg, pending, seen>>
    BY <1>5 DEF Reconcile, regVars
  <2>3. c.current => c.stored = reg[o]
    BY <2>1 DEF Consistent
  <2> QED
    BY <2>1, <2>2, <2>3, ControlConsistent
<1>6. ASSUME NEW o \in Objects, Patch(o)  PROVE Consistent'
  <2>1. ctl' = [ctl EXCEPT ![o] = Idle] /\ UNCHANGED seen /\ ctl[o].pc = "patch"
    BY <1>6 DEF Patch
  <2>2. CASE UNCHANGED regVars
    BY <2>1, <2>2, IdleType, ControlConsistent DEF regVars
  <2>3. CASE Write(o, ctl[o].next)
    <3>1. /\ reg' = [reg EXCEPT ![o] = ctl[o].next]
          /\ pending' = pending \cup {o}
      BY <2>3 DEF Write
    <3>2. /\ reg'[o] = ctl[o].next /\ ctl'[o].pc = "idle"
          /\ \A p \in Objects \ {o} : reg'[p] = reg[p] /\ ctl'[p] = ctl[p]
      BY <2>1, <3>1, IdleType DEF TypeOK
    <3>3. Complete(ctl[o].next)
      BY <2>1 DEF Consistent, Justified
    <3> SUFFICES ASSUME NEW p \in Objects
                 PROVE  /\ Complete(reg'[p])
                        /\ Complete(seen'[p])
                        /\ p \notin pending' => seen'[p] = reg'[p]
                        /\ ctl'[p].pc = "patch" => Justified(ctl'[p])
                        /\ ctl'[p].pc = "patch" /\ ctl'[p].current
                                => ctl'[p].stored = reg'[p]
      BY DEF Consistent, Complete, Justified
    <3>4. CASE p = o
      BY <2>1, <3>1, <3>2, <3>3, <3>4 DEF Consistent
    <3>5. CASE p # o
      BY <2>1, <3>1, <3>2, <3>5 DEF Consistent
    <3> QED
      BY <3>4, <3>5
  <2> QED
    BY <1>6, <2>2, <2>3 DEF Patch
<1>7. ASSUME NEW o \in Objects, ReconcileFails(o)  PROVE Consistent'
  BY <1>7, IdleType, ControlConsistent DEF ReconcileFails, regVars
<1>8. ASSUME NEW z \in Zones,
             ZonesChange(z) \/ \E m \in Types : GCEChanges(m, z)
      PROVE  Consistent'
  BY <1>0, <1>8 DEF ZonesChange, GCEChanges, regVars
<1>9. CASE Deliver
  <2>1. seen' = reg /\ reg' = reg /\ ctl' = ctl
    BY <1>9 DEF Deliver
  <2> QED
    BY <2>1 DEF Consistent, Complete, Justified
<1>10. CASE UpdateStarts \/ UpdateInstanceTypes \/ UpdateInstanceTypeOfferings
  BY <1>0, <1>10 DEF UpdateStarts, UpdateInstanceTypes, UpdateInstanceTypeOfferings,
                     regVars
<1>11. ASSUME NEW u \in Updates, UpdateFails(u)  PROVE Consistent'
  BY <1>0, <1>11 DEF UpdateFails, regVars
<1>12. CASE UNCHANGED vars
  BY <1>0, <1>12 DEF vars, regVars
<1> QED
  BY <1>1, <1>2, <1>3, <1>4, <1>5, <1>6, <1>7, <1>8, <1>9, <1>10, <1>11, <1>12
     DEF Next

(* Every status keeps its type, and statuses, copies and reconciles stay   *)
(* consistent, however late the informer's cache is.                       *)
THEOREM CatalogueConsistent == Spec => [](TypeOK /\ Consistent)
BY InitTypeOK, InitConsistent, NextTypeOK, NextConsistent, PTL DEF Spec

(* No object is ever Ready without confirmed zones and a shape, whatever   *)
(* answers GCE gave or withheld and however many objects, types and zones  *)
(* there are (resolveZones, patchStatus).                                  *)
THEOREM ReadyIsComplete == Spec => []ReadyHasShape
<1>1. Consistent => ReadyHasShape
  BY DEF Consistent, Complete, ReadyHasShape
<1> QED
  BY <1>1, CatalogueConsistent, PTL

(* A confirmed zone is withdrawn only by a reconcile that has evidence     *)
(* against it and has read the object that it overwrites: the optimistic   *)
(* lock of patchStatus holds off every reconcile that read an older one.   *)
THEOREM WithdrawalHasEvidence == Spec => WithdrawnOnEvidence
<1> DEFINE Step ==
        \A o \in Objects :
            reg[o].exists /\ reg'[o].exists /\ reg[o].ready = "true"
                => /\ reg[o].zones \ reg'[o].zones \subseteq ctl[o].evidence
                   /\ reg'[o] # reg[o] /\ reg'[o].price = reg[o].price
                        => ctl[o].stored = reg[o]
<1>1. TypeOK /\ Consistent /\ [Next]_vars => [Step]_vars
  <2> SUFFICES ASSUME TypeOK, Consistent, Next  PROVE Step
    OBVIOUS
  <2>0. CASE UNCHANGED reg
    BY <2>0
  <2>1. ASSUME NEW o \in Objects, NEW r, reg' = [reg EXCEPT ![o] = r],
               reg[o].exists /\ r.exists /\ reg[o].ready = "true"
                 => /\ reg[o].zones \ r.zones \subseteq ctl[o].evidence
                    /\ r # reg[o] /\ r.price = reg[o].price
                         => ctl[o].stored = reg[o]
        PROVE  Step
    <3>1. reg'[o] = r /\ \A p \in Objects \ {o} : reg'[p] = reg[p]
      BY <2>1 DEF TypeOK
    <3> QED
      BY <2>1, <3>1
  <2>2. ASSUME NEW o \in Objects, Create(o)  PROVE Step
    BY <2>1, <2>2 DEF Create, Write
  <2>3. ASSUME NEW o \in Objects, Reprice(o)  PROVE Step
    <3>1. PICK p \in Prices \ {reg[o].price} : Write(o, [reg[o] EXCEPT !.price = p])
      BY <2>3 DEF Reprice
    <3>2. LET r == [reg[o] EXCEPT !.price = p] IN
          r.zones = reg[o].zones /\ r.price # reg[o].price
      BY DEF TypeOK, Regs
    <3> QED
      BY <2>1, <3>1, <3>2 DEF Write
  <2>4. ASSUME NEW o \in Objects, Delete(o)  PROVE Step
    BY <2>1, <2>4 DEF Delete, Write, NoReg
  <2>5. ASSUME NEW o \in Objects, Patch(o)  PROVE Step
    <3>1. CASE Write(o, ctl[o].next) /\ ctl[o].current
      <4>1. ctl[o].stored = reg[o] /\ Justified(ctl[o])
        BY <2>5, <3>1 DEF Patch, Consistent
      <4> QED
        BY <2>1, <3>1, <4>1 DEF Write, Justified
    <3> QED
      BY <2>0, <2>5, <3>1 DEF Patch, regVars
  <2>6. ASSUME NEW o \in Objects,
               \/ Requeue(o)
               \/ \E failed \in SUBSET Zones : Reconcile(o, failed)
               \/ ReconcileNothing(o)
               \/ ReconcileFails(o)
        PROVE  UNCHANGED reg
    BY <2>6 DEF Requeue, Reconcile, ReconcileNothing, ReconcileFails, regVars
  <2>7. \/ \E z \in Zones : ZonesChange(z) \/ \E m \in Types : GCEChanges(m, z)
        \/ Deliver \/ UpdateStarts \/ UpdateInstanceTypes
        \/ UpdateInstanceTypeOfferings
        \/ \E u \in Updates : UpdateFails(u)
        => UNCHANGED reg
    BY DEF ZonesChange, GCEChanges, Deliver, UpdateStarts, UpdateInstanceTypes,
           UpdateInstanceTypeOfferings, UpdateFails, regVars
  <2> HIDE DEF Step
  <2> QED
    BY <2>0, <2>2, <2>3, <2>4, <2>5, <2>6, <2>7 DEF Next
<1> QED
  BY <1>1, CatalogueConsistent, PTL DEF Spec, WithdrawnOnEvidence
=============================================================================
