------------------------- MODULE UnavailableOfferings -------------------------
(***************************************************************************)
(* The cache of unavailable offerings                                      *)
(* (pkg/providers/offerings/unavailableofferings/cache.go) together with   *)
(* the code that fills and reads it: zone selection and the handling of    *)
(* GCE's capacity errors (pkg/providers/instance/instance.go) and the      *)
(* preemption notices that Interruption, which uses this module, handles.  *)
(*                                                                         *)
(* An offering is a triple <<instance type, zone, capacity type>>, the     *)
(* parts of the cache key.  An entry is abstracted to the ticks it has     *)
(* left to live: IsUnavailable is "left > 0".  Several launches run at the *)
(* same time; each reads the cache when it selects a zone and writes it    *)
(* when GCE's verdict arrives, up to minutes later.                        *)
(*                                                                         *)
(* The physical removal of expired entries and the revision counter SeqNum *)
(* are left out: lookups treat an expired entry as missing, and nothing in *)
(* the repository reads the counter.                                       *)
(***************************************************************************)
EXTENDS Naturals, FiniteSets

CONSTANTS
    Launches,                        \* concurrent createInstanceWithPodRanges calls
    Types, Zones,                    \* instance types and the cluster's zones
    CapacityTypes,                   \* spot and on-demand
    Offered,                         \* offerings in the catalogue
    DefaultTTL,                      \* go-cache's default, and preemption's TTL
    ipSpaceInsufficientCapacityTTL,
    stockoutTTL,
    unsupportedConfigurationTTL,
    QuotaTTLs                        \* values of the option QuotaExceededTTL;
                                     \* 0 disables quota backoff

Offerings == Types \X Zones \X CapacityTypes

TTLs == {DefaultTTL, ipSpaceInsufficientCapacityTTL, stockoutTTL,
         unsupportedConfigurationTTL} \cup QuotaTTLs

VARIABLES
    left,      \* offering -> ticks until its entry expires; 0 when there is none
    launch,    \* launch -> the offering it waits for GCE on, or NoOffering
    verdicts,  \* history: offerings refused for another reason than quota, or
               \* preempted, while they are unavailable
    quotaExceededTTL    \* the option the controller runs with

vars == <<left, launch, verdicts, quotaExceededTTL>>

NoOffering == <<>>

Init ==
    /\ left = [o \in Offerings |-> 0]
    /\ launch = [l \in Launches |-> NoOffering]
    /\ verdicts = {}
    /\ quotaExceededTTL \in QuotaTTLs

IsUnavailable(o) == left[o] > 0

(* cache.Set replaces the entry.  A duration of 0 is go-cache's            *)
(* DefaultExpiration, the TTL the cache was made with.                     *)
Set(entries, ttl) ==
    left' = [o \in Offerings |->
                IF o \notin entries THEN left[o]
                ELSE IF ttl = 0 THEN DefaultTTL ELSE ttl]

MarkUnavailableWithTTL(entries, ttl) == Set(entries, ttl)

MarkUnavailable(o) == MarkUnavailableWithTTL({o}, DefaultTTL)

(* What GCE may answer a launch.  "error" is any failure that says nothing *)
(* about capacity.                                                         *)
Reasons == {"quota", "ip", "unsupported", "stockout", "error"}

insufficientCapacityBackoffTTL(reason) ==
    CASE reason = "quota"       -> quotaExceededTTL
      [] reason = "ip"          -> ipSpaceInsufficientCapacityTTL
      [] reason = "unsupported" -> unsupportedConfigurationTTL
      [] reason = "stockout"    -> stockoutTTL

(* A plausible slip: a quota backoff of 0 is passed on to the cache. *)
InsufficientIgnoringZero(reason) == reason # "error"

(* A quota failure is not treated as a lack of capacity when its backoff   *)
(* is disabled.                                                            *)
Insufficient(reason) ==
    /\ reason # "error"
    /\ ~(reason = "quota" /\ quotaExceededTTL = 0)

(* The offerings a failed launch marks: quota is regional, so it covers    *)
(* the zones the type is offered in besides the one that was tried.        *)
MarkedBy(o, reason) ==
    {o} \cup (IF reason = "quota"
              THEN {p \in Offered : p[1] = o[1] /\ p[3] = o[3]}
              ELSE {})

(* A plausible slip: zone selection does not consult the cache. *)
SelectZoneBlindly(l) ==
    /\ launch[l] = NoOffering
    /\ \E o \in Offerings : launch' = [launch EXCEPT ![l] = o]
    /\ UNCHANGED <<left, verdicts, quotaExceededTTL>>

(* selectZone: a zone with an unexpired entry is skipped. *)
SelectZone(l) ==
    /\ launch[l] = NoOffering
    /\ \E o \in Offerings :
        /\ ~IsUnavailable(o)
        /\ launch' = [launch EXCEPT ![l] = o]
    /\ UNCHANGED <<left, verdicts, quotaExceededTTL>>

(* The insert's operation is done. *)
Launched(l) ==
    /\ launch[l] # NoOffering
    /\ launch' = [launch EXCEPT ![l] = NoOffering]
    /\ UNCHANGED <<left, verdicts, quotaExceededTTL>>

(* The insert or its operation failed: markQuotaExceeded and               *)
(* markInsufficientCapacity write the cache, other errors do not.          *)
LaunchFailed(l, reason) ==
    LET o == launch[l] IN
    /\ o # NoOffering
    /\ IF Insufficient(reason)
       THEN MarkUnavailableWithTTL(MarkedBy(o, reason),
                                   insufficientCapacityBackoffTTL(reason))
       ELSE UNCHANGED left
    /\ verdicts' = IF reason \in {"quota", "error"} THEN verdicts
                                                    ELSE verdicts \cup {o}
    /\ launch' = [launch EXCEPT ![l] = NoOffering]
    /\ UNCHANGED quotaExceededTTL

(* The interruption controller handles a preemption notice. *)
Preempted(o) ==
    /\ MarkUnavailable(o)
    /\ verdicts' = verdicts \cup {o}
    /\ UNCHANGED <<launch, quotaExceededTTL>>

Tick ==
    /\ left' = [o \in Offerings |-> IF left[o] > 0 THEN left[o] - 1 ELSE 0]
    /\ verdicts' = {o \in verdicts : left[o] > 1}
    /\ UNCHANGED <<launch, quotaExceededTTL>>

(* The cache is only in memory: a restart of the controller empties it and *)
(* forgets the launches in flight.  It may bring another option.           *)
Restart ==
    /\ left' = [o \in Offerings |-> 0]
    /\ launch' = [l \in Launches |-> NoOffering]
    /\ verdicts' = {}
    /\ quotaExceededTTL' \in QuotaTTLs
=============================================================================
