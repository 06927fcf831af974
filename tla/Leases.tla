------------------------------- MODULE Leases -------------------------------
(***************************************************************************)
(* The Council's lease manager (crates/cthuwu-council/src/lease.rs).       *)
(*                                                                         *)
(* A lease authorises one Tentacle incarnation to serve one session for a  *)
(* bounded time.  Every grant of a session carries the next generation, so *)
(* that a runtime still holding an earlier grant is fenced off.            *)
(*                                                                         *)
(* A call the code refuses with an Err leaves the manager as it was: it is *)
(* a stuttering step here, and only the calls that succeed are actions.    *)
(***************************************************************************)
EXTENDS Integers, FiniteSets

CONSTANTS
    LeaseId,
    SessionId,
    TentacleId,
    Incarnation,                \* records [id, generation], as in tentacle.rs
    RequestExpiry,              \* expiry times of the routing requests callers bring
    Term,                       \* pairs <<renewal, expiry>>, in seconds after now
    MAX_LEASES,
    MAX_SESSIONS,
    MAX_LEASE_LIFETIME_SECONDS,
    MaxTime,                    \* bound of the injected clock
    NoLease,                    \* "the map has no such key"
    NoLeaseId

LeaseStatus == {"Granted", "Active", "Released", "Revoked", "Expired"}

Live == {"Granted", "Active"}

Lease ==
    [session_id: SessionId, assigned_tentacle: TentacleId,
     tentacle_incarnation: Incarnation, generation: Nat \ {0},
     issued_at: Nat, expires_at: Nat, renewal_deadline: Nat,
     request_expires_at: Nat, status: LeaseStatus]

ASSUME LeasesAssumption ==
    /\ IsFiniteSet(LeaseId)
    /\ IsFiniteSet(SessionId)
    /\ \A i \in Incarnation : i.generation \in Nat
    /\ RequestExpiry \subseteq Nat
    /\ Term \subseteq (Nat \X Nat)
    /\ MAX_LEASES \in Nat
    /\ MAX_SESSIONS \in Nat
    /\ MAX_LEASE_LIFETIME_SECONDS \in Nat
    /\ MaxTime \in Nat
    /\ NoLease \notin Lease
    /\ NoLeaseId \notin LeaseId

VARIABLES
    leases,             \* LeaseId -> Lease or NoLease
    active_by_session,  \* SessionId -> LeaseId or NoLeaseId
    generations,        \* SessionId -> greatest generation granted (0: no entry)
    now                 \* the injected clock

vars == <<leases, active_by_session, generations, now>>

-----------------------------------------------------------------------------
Stored == {id \in LeaseId : leases[id] # NoLease}

KnownSessions == {s \in SessionId : generations[s] # 0}

\* Lease::validate and the bounds a granted or reloaded lease must satisfy.
LeaseBoundsOK(l) ==
    /\ l.tentacle_incarnation.generation # 0
    /\ l.generation # 0
    /\ l.issued_at < l.expires_at
    /\ l.expires_at - l.issued_at <= MAX_LEASE_LIFETIME_SECONDS
    /\ l.issued_at < l.renewal_deadline
    /\ l.renewal_deadline <= l.expires_at

\* Seeded fault: the generation is not compared.
VerifyAssigneeNoFence(l, tentacle, incarnation, generation, t) ==
    /\ l.assigned_tentacle = tentacle
    /\ l.tentacle_incarnation = incarnation
    /\ l.issued_at <= t
    /\ t < l.expires_at
    /\ t <= l.renewal_deadline
    /\ l.status \in Live

\* Seeded fault: an ended lease still passes.
VerifyAssigneeAnyStatus(l, tentacle, incarnation, generation, t) ==
    /\ generation = l.generation
    /\ l.assigned_tentacle = tentacle
    /\ l.tentacle_incarnation = incarnation
    /\ l.issued_at <= t
    /\ t < l.expires_at
    /\ t <= l.renewal_deadline

\* verify_assignee: the fence every call of the assigned Tentacle passes.
VerifyAssignee(l, tentacle, incarnation, generation, t) ==
    /\ generation = l.generation
    /\ l.assigned_tentacle = tentacle
    /\ l.tentacle_incarnation = incarnation
    /\ l.issued_at <= t
    /\ t < l.expires_at
    /\ t <= l.renewal_deadline
    /\ l.status \in Live

\* active_mut: the lease exists and the caller is its current assignee.
HeldBy(id, tentacle, incarnation, generation) ==
    /\ leases[id] # NoLease
    /\ VerifyAssignee(leases[id], tentacle, incarnation, generation, now)

\* authorize_work: may this caller serve the session at this moment?
AuthorizeWork(session, tentacle, incarnation, generation) ==
    LET id == active_by_session[session] IN
    /\ id # NoLeaseId
    /\ HeldBy(id, tentacle, incarnation, generation)
    /\ leases[id].status = "Active"

-----------------------------------------------------------------------------
(* Operations *)

Init ==
    /\ leases = [id \in LeaseId |-> NoLease]
    /\ active_by_session = [s \in SessionId |-> NoLeaseId]
    /\ generations = [s \in SessionId |-> 0]
    /\ now = 0

\* Seeded fault: the generation is counted from the live leases only.
NewLeaseReused(session, tentacle, incarnation, term, request_expires_at) ==
    [session_id |-> session, assigned_tentacle |-> tentacle,
     tentacle_incarnation |-> incarnation,
     generation |-> Cardinality({id \in Stored : /\ leases[id].session_id = session
                                                 /\ leases[id].status \in Live}) + 1,
     issued_at |-> now, renewal_deadline |-> now + term[1],
     expires_at |-> now + term[2],
     request_expires_at |-> request_expires_at, status |-> "Granted"]

\* Seeded fault: session and Tentacle are swapped.
NewLeaseSwapped(session, tentacle, incarnation, term, request_expires_at) ==
    [session_id |-> tentacle, assigned_tentacle |-> session,
     tentacle_incarnation |-> incarnation,
     generation |-> generations[session] + 1,
     issued_at |-> now, renewal_deadline |-> now + term[1],
     expires_at |-> now + term[2],
     request_expires_at |-> request_expires_at, status |-> "Granted"]

\* The lease `grant' builds.  Callers (rendezvous.rs, simulator.rs) always
\* pass the current time as issued_at.
NewLease(session, tentacle, incarnation, term, request_expires_at) ==
    [session_id |-> session, assigned_tentacle |-> tentacle,
     tentacle_incarnation |-> incarnation,
     generation |-> generations[session] + 1,
     issued_at |-> now, renewal_deadline |-> now + term[1],
     expires_at |-> now + term[2],
     request_expires_at |-> request_expires_at, status |-> "Granted"]

\* Seeded fault: a session's live lease does not stop another grant.
GrantAllowedTwice(id, session, lease, occupied) ==
    /\ Cardinality(Stored) < MAX_LEASES
    /\ now < lease.request_expires_at
    /\ leases[id] = NoLease
    /\ Cardinality(KnownSessions) < MAX_SESSIONS \/ session \in KnownSessions
    /\ LeaseBoundsOK(lease)

\* The checks of `grant', on a manager whose live lease of the session, if
\* any, is `occupied'.
GrantAllowed(id, session, lease, occupied) ==
    /\ Cardinality(Stored) < MAX_LEASES
    /\ now < lease.request_expires_at
    /\ ~occupied
    /\ leases[id] = NoLease
    /\ Cardinality(KnownSessions) < MAX_SESSIONS \/ session \in KnownSessions
    /\ LeaseBoundsOK(lease)

\* grant: index the session under the next generation.
Grant(id, session, tentacle, incarnation, term, request_expires_at) ==
    LET lease == NewLease(session, tentacle, incarnation, term, request_expires_at)
        current == active_by_session[session]
    IN  /\ GrantAllowed(id, session, lease,
               current # NoLeaseId /\ leases[current].status \in Live)
        /\ leases' = [leases EXCEPT ![id] = lease]
        /\ active_by_session' = [active_by_session EXCEPT ![session] = id]
        /\ generations' = [generations EXCEPT ![session] = lease.generation]
        /\ UNCHANGED now

\* accept: only the current assignee turns Granted into Active.
Accept(id, tentacle, incarnation, generation) ==
    /\ HeldBy(id, tentacle, incarnation, generation)
    /\ leases[id].status = "Granted"
    /\ leases' = [leases EXCEPT ![id].status = "Active"]
    /\ UNCHANGED <<active_by_session, generations, now>>

\* The renewal times `renew' lets through: it bounds the lifetime from now,
\* not from issued_at.
RenewalOK(renewal_deadline, expires_at) ==
    /\ now < renewal_deadline
    /\ renewal_deadline < expires_at
    /\ expires_at - now <= MAX_LEASE_LIFETIME_SECONDS

\* renew: a new term, counted from now, for the current assignee.
Renew(id, tentacle, incarnation, generation, term) ==
    /\ HeldBy(id, tentacle, incarnation, generation)
    /\ leases[id].status = "Active"
    /\ RenewalOK(now + term[1], now + term[2])
    /\ leases' = [leases EXCEPT ![id].renewal_deadline = now + term[1],
                                ![id].expires_at = now + term[2]]
    /\ UNCHANGED <<active_by_session, generations, now>>

\* release: a repeated release of a released lease is Ok and changes nothing.
Release(id, tentacle, incarnation, generation) ==
    /\ HeldBy(id, tentacle, incarnation, generation)
    /\ leases' = [leases EXCEPT ![id].status = "Released"]
    /\ active_by_session' =
           [active_by_session EXCEPT ![leases[id].session_id] = NoLeaseId]
    /\ UNCHANGED <<generations, now>>

\* Seeded fault: the session index keeps pointing at the revoked lease.
RevokeKeepsIndex(id) ==
    /\ leases[id] # NoLease
    /\ leases[id].status \in Live
    /\ leases' = [leases EXCEPT ![id].status = "Revoked"]
    /\ UNCHANGED <<active_by_session, generations, now>>

\* revoke: the issuer's decision, at any time while the lease is live.
Revoke(id) ==
    /\ leases[id] # NoLease
    /\ leases[id].status \in Live
    /\ leases' = [leases EXCEPT ![id].status = "Revoked"]
    /\ active_by_session' =
           [active_by_session EXCEPT ![leases[id].session_id] = NoLeaseId]
    /\ UNCHANGED <<generations, now>>

\* The live leases `expire' sweeps at time t.
Overdue(t) ==
    {id \in Stored : /\ leases[id].status \in Live
                     /\ \/ leases[id].expires_at <= t
                        \/ leases[id].renewal_deadline < t}

\* expire: one sweep ends every overdue lease and drops its session index.
Expire ==
    /\ Overdue(now) # {}
    /\ leases' = [id \in LeaseId |->
           IF id \in Overdue(now) THEN [leases[id] EXCEPT !.status = "Expired"]
                                  ELSE leases[id]]
    /\ active_by_session' = [s \in SessionId |->
           IF \E id \in Overdue(now) : leases[id].session_id = s
           THEN NoLeaseId ELSE active_by_session[s]]
    /\ UNCHANGED <<generations, now>>

\* failover: on a staged copy, revoke the old lease and grant its request to
\* another assignee; the copy replaces the manager only if both succeed.
Failover(old, id, tentacle, incarnation, term) ==
    LET session == leases[old].session_id
        lease == NewLease(session, tentacle, incarnation, term,
                          leases[old].request_expires_at)
    IN  /\ leases[old] # NoLease
        /\ leases[old].status \in Live
        /\ GrantAllowed(id, session, lease, FALSE)
        /\ leases' = [leases EXCEPT ![old].status = "Revoked", ![id] = lease]
        /\ active_by_session' = [active_by_session EXCEPT ![session] = id]
        /\ generations' = [generations EXCEPT ![session] = lease.generation]
        /\ UNCHANGED now

\* ManualClock::set and the system clock behind Clock: time may also step back.
SetClock(t) ==
    /\ t # now
    /\ now' = t
    /\ UNCHANGED <<leases, active_by_session, generations>>

Next ==
    \/ \E id \in LeaseId, s \in SessionId, t \in TentacleId, i \in Incarnation,
          term \in Term, r \in RequestExpiry : Grant(id, s, t, i, term, r)
    \/ \E id \in LeaseId, t \in TentacleId, i \in Incarnation,
          g \in 1..MAX_LEASES : Accept(id, t, i, g)
    \/ \E id \in LeaseId, t \in TentacleId, i \in Incarnation,
          g \in 1..MAX_LEASES, term \in Term : Renew(id, t, i, g, term)
    \/ \E id \in LeaseId, t \in TentacleId, i \in Incarnation,
          g \in 1..MAX_LEASES : Release(id, t, i, g)
    \/ \E id \in LeaseId : Revoke(id)
    \/ Expire
    \/ \E old, id \in LeaseId, t \in TentacleId, i \in Incarnation,
          term \in Term : Failover(old, id, t, i, term)
    \/ \E t \in 0..MaxTime : SetClock(t)

Spec == Init /\ [][Next]_vars

-----------------------------------------------------------------------------
(* Properties *)

\* The manager's three maps are well formed.
TypeOK ==
    /\ leases \in [LeaseId -> Lease \cup {NoLease}]
    /\ active_by_session \in [SessionId -> LeaseId \cup {NoLeaseId}]
    /\ generations \in [SessionId -> Nat]
    /\ now \in Nat

LeasesOf(s) == {id \in Stored : leases[id].session_id = s}

\* Fencing.  Whoever authorize_work lets serve a session holds the newest
\* generation ever granted for it, and is the assignee of that generation: no
\* sequence of failovers, releases, sweeps, clock steps and late calls lets a
\* superseded Tentacle work.
Fencing ==
    \A s \in SessionId, t \in TentacleId, i \in Incarnation, g \in 1..MAX_LEASES :
        AuthorizeWork(s, t, i, g) =>
            \A id \in LeasesOf(s) :
                /\ leases[id].generation <= g
                /\ leases[id].generation = g =>
                       /\ leases[id].assigned_tentacle = t
                       /\ leases[id].tentacle_incarnation = i

\* A session never has two Granted or Active leases, whatever `grant' and
\* `failover' calls are interleaved with revocations and sweeps.
OneLiveLease ==
    \A a, b \in Stored :
        /\ leases[a].status \in Live
        /\ leases[b].status \in Live
        /\ leases[a].session_id = leases[b].session_id
        => a = b

\* What validate_loaded_state demands of the session index: exactly the live
\* leases are indexed, each under its own session.  Every operation keeps it.
IndexReloads ==
    /\ \A id \in Stored :
           (active_by_session[leases[id].session_id] = id) <=> (leases[id].status \in Live)
    /\ \A s \in SessionId :
           active_by_session[s] # NoLeaseId => active_by_session[s] \in LeasesOf(s)

\* What validate_loaded_state demands of the generation history: a session's
\* leases carry the generations 1..n with no gap, n being the recorded one,
\* and (which the code relies on and does not check) none of them twice.
HistoryReloads ==
    /\ \A s \in SessionId :
           {leases[id].generation : id \in LeasesOf(s)} = 1..generations[s]
    /\ \A a, b \in Stored :
           /\ leases[a].session_id = leases[b].session_id
           /\ leases[a].generation = leases[b].generation
           => a = b

\* The manager's maps agree in every way that the code relies on: one live
\* lease a session, an index of exactly the live ones, a history without gap.
TablesSound == OneLiveLease /\ IndexReloads /\ HistoryReloads

\* validate_loaded_state: what a restart demands of the persisted manager.
ValidateLoadedState ==
    /\ \A id \in Stored : /\ LeaseBoundsOK(leases[id])
                           /\ leases[id].issued_at < leases[id].request_expires_at
    /\ IndexReloads
    /\ HistoryReloads

\* An ended lease never comes back: late accepts, renewals and releases of a
\* Released, Revoked or Expired lease change nothing, even if the clock steps
\* back into its term.
EndedForGood ==
    [][\A id \in Stored : leases[id].status \notin Live => leases'[id] = leases[id]]_vars
=============================================================================
