------------------------------ MODULE MCCouncil ------------------------------
(***************************************************************************)
(* Small instances of the Council's control plane: the lease manager on    *)
(* its own with larger tables (part "leases"), and tracker, router and     *)
(* lease manager composed on one clock (part "plane").  A behaviour        *)
(* exercises one of the two and leaves the other in its initial state.     *)
(***************************************************************************)
EXTENDS Leases

CONSTANTS NoTentacle

VARIABLES
    part,
    plane_leases, plane_active, plane_generations, plane_now, tentacles

\* One incarnation, and one that Incarnation::validate refuses.
MCIncarnation == {[id |-> 1, generation |-> 1], [id |-> 2, generation |-> 0]}

MCTerm == {<<1, 2>>}

\* Also a term whose renewal deadline is its expiry (fine for `grant', not for
\* `renew').
MCRenewalTerm == {<<1, 2>>, <<2, 2>>}

\* A runtime, an impostor of its generation, and its restart.
PlaneIncarnation ==
    {[id |-> "a", generation |-> 1], [id |-> "b", generation |-> 1],
     [id |-> "c", generation |-> 2]}

Plane ==
    INSTANCE Council WITH
        LeaseId <- 1..2, SessionId <- {"s"}, TentacleId <- {"t"}, CthulhuId <- {"c"},
        Incarnation <- PlaneIncarnation, MAX_LEASES <- 2, MAX_SESSIONS <- 1,
        ReportedLifecycle <- {"Starting", "Ready", "Draining", "Unavailable", "Stopped"},
        ReportedHealth <- {"Healthy", "Unavailable"},
        suspect_after_seconds <- 1, unavailable_after_seconds <- 2,
        MAX_FUTURE_HEARTBEAT_SKEW_SECONDS <- 0,
        leases <- plane_leases, active_by_session <- plane_active,
        generations <- plane_generations, now <- plane_now

ASSUME PlaneAssumption == Plane!CouncilParameters

planeVars == <<plane_leases, plane_active, plane_generations, plane_now, tentacles>>

PartsInit == part \in {"leases", "plane"} /\ Init /\ Plane!CouncilInit

PartsNext ==
    /\ UNCHANGED part
    /\ \/ part = "leases" /\ Next /\ UNCHANGED planeVars
       \/ part = "plane" /\ Plane!CouncilNext /\ UNCHANGED vars

PartsSpec == PartsInit /\ [][PartsNext]_<<vars, planeVars, part>>
LeasesAlone == part = "leases" /\ PartsSpec

\* Which identifier a new lease, session or first assignee takes never matters:
\* they are taken in order, which stands for every other order.
InOrder(ids) == ids = 1..Cardinality(ids)

IdentifiersInOrder ==
    /\ InOrder(Stored)
    /\ InOrder(KnownSessions)
    /\ 1 \in Stored => leases[1].assigned_tentacle = 1
    /\ InOrder({id \in 1..2 : plane_leases[id] # NoLease})

-----------------------------------------------------------------------------
(* Properties *)

\* No lease is ahead of the tracker, the tracker's record of a Tentacle never
\* moves back behind a later incarnation or heartbeat, and a stopped incarnation
\* stays stopped: late announcements, heartbeats and sweeps revive nothing that
\* `request' could route to.
CouncilInOrder ==
    /\ [](part = "plane" => Plane!LeaseNotAhead)
    /\ Plane!RecordsMoveForward
    /\ Plane!StoppedForGood
=============================================================================
