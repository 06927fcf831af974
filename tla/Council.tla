------------------------------- MODULE Council -------------------------------
(***************************************************************************)
(* The control plane of a Council member: the liveness tracker, the router *)
(* and the lease manager behind LocalRendezvous (rendezvous.rs), driven as *)
(* simulator.rs drives them.  Offers are built from the tracker's records  *)
(* at the moment of the request (RouteCandidate::from_tentacle); which of  *)
(* several eligible Tentacles the scores select is module Routing's        *)
(* subject, and any of them may be selected here.                          *)
(***************************************************************************)
EXTENDS Leases

CONSTANTS
    CthulhuId, ReportedLifecycle, ReportedHealth, suspect_after_seconds,
    unavailable_after_seconds, MAX_FUTURE_HEARTBEAT_SKEW_SECONDS, NoTentacle

VARIABLE tentacles

Tracker == INSTANCE Liveness

CouncilParameters == Tracker!LivenessParameters

councilVars == <<leases, active_by_session, generations, now, tentacles>>

\* The one hard requirement of evaluate_candidate that depends on the tracker.
Eligible(t) ==
    /\ tentacles[t] # NoTentacle
    /\ tentacles[t].lifecycle = "Ready"
    /\ tentacles[t].health = "Healthy"

\* LocalRendezvous::request: route, then grant the session to the selection.
\* A lease expiring at its renewal deadline is refused here, not by `grant'.
Request(id, session, t, term, request_expires_at) ==
    /\ 0 < term[1]
    /\ term[1] < term[2]
    /\ Eligible(t)
    /\ Grant(id, session, t, tentacles[t].incarnation, term, request_expires_at)
    /\ UNCHANGED tentacles

\* Failover as the simulator does it: route the session's own request again
\* over the tracker's records and replace the lease.  The simulator does so
\* once an assessment finds the holder unavailable; LeaseManager::failover
\* does not ask why, and neither does this action.
FailoverTo(old, id, t, term) ==
    /\ Eligible(t)
    /\ Failover(old, id, t, tentacles[t].incarnation, term)
    /\ UNCHANGED tentacles

CouncilInit == Init /\ Tracker!Init

\* Calls of whoever holds, or once held, a lease: its claims are the ones in
\* the lease it was given.
HolderStep(id) ==
    /\ leases[id] # NoLease
    /\ LET l == leases[id]
           Held(Op(_, _, _, _)) ==
               Op(id, l.assigned_tentacle, l.tentacle_incarnation, l.generation)
       IN  \/ Held(Accept)
           \/ Held(Release)
           \/ \E term \in Term : Renew(id, l.assigned_tentacle,
                                       l.tentacle_incarnation, l.generation, term)
    /\ UNCHANGED tentacles

ManagerStep ==
    /\ Expire \/ \E id \in LeaseId : Revoke(id)
    /\ UNCHANGED tentacles

TrackerStep ==
    /\ \/ \E t \in TentacleId, u \in Tracker!Update : Tracker!Announce(t, u)
       \/ \E t \in TentacleId, u \in Tracker!Update : Tracker!Heartbeat(t, u)
       \/ Tracker!Assess
    /\ UNCHANGED <<leases, active_by_session, generations>>

\* Both components read one clock.
ClockStep(t) == SetClock(t) /\ UNCHANGED tentacles

CouncilNext ==
    \/ \E id \in LeaseId, s \in SessionId, t \in TentacleId, term \in Term,
          r \in RequestExpiry : Request(id, s, t, term, r)
    \/ \E old, id \in LeaseId, t \in TentacleId, term \in Term :
          FailoverTo(old, id, t, term)
    \/ \E id \in LeaseId : HolderStep(id)
    \/ ManagerStep
    \/ TrackerStep
    \/ \E t \in 0..MaxTime : ClockStep(t)

CouncilSpec == CouncilInit /\ [][CouncilNext]_councilVars

-----------------------------------------------------------------------------
(* Properties *)

\* No lease is ahead of the tracker: the incarnation a lease names is one the
\* tracker knew, and the tracker's present one is that or a later one, however
\* announcements, restarts and failovers are interleaved.
LeaseNotAhead ==
    \A id \in Stored :
        LET i == leases[id].tentacle_incarnation
            t == tentacles[leases[id].assigned_tentacle]
        IN  /\ t # NoTentacle
            /\ i.generation <= t.incarnation.generation
            /\ i.generation = t.incarnation.generation => i = t.incarnation

\* The tracker's fence, in the composition: an older incarnation's announcement
\* or heartbeat never replaces a newer one's record, one generation never
\* changes its identifier, and a delayed heartbeat never moves a record back in
\* time (Tentacle::apply_update).
RecordsMoveForward == [][Tracker!IncarnationKept /\ Tracker!HeartbeatKept]_councilVars

\* A stopped incarnation stays stopped through late heartbeats and sweeps, so
\* no request is ever routed to it again.
StoppedForGood == [][Tracker!StoppedKept]_councilVars
=============================================================================
