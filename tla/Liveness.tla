------------------------------ MODULE Liveness ------------------------------
(***************************************************************************)
(* The Council's view of its Tentacles: LivenessTracker (liveness.rs) and  *)
(* the lifecycle rules of a Tentacle record (cthuwu-protocol/tentacle.rs). *)
(*                                                                         *)
(* Announcements and heartbeats are authenticated, and still arrive late,  *)
(* twice or out of order: an update is any value of Update, at any time.   *)
(* Capabilities, capacity and load follow the same path as health and are  *)
(* left out; `health' stands for the whole payload an update overwrites.   *)
(***************************************************************************)
EXTENDS Integers

CONSTANTS
    TentacleId,
    CthulhuId,                          \* principals that may claim a Tentacle
    Incarnation,                        \* records [id, generation]
    ReportedLifecycle,                  \* what a Tentacle says of itself
    ReportedHealth,
    suspect_after_seconds,
    unavailable_after_seconds,
    MAX_FUTURE_HEARTBEAT_SKEW_SECONDS,
    MaxTime,                            \* bound of the injected clock
    NoTentacle                          \* "the tracker does not know this id"

TentacleLifecycle == {"Starting", "Ready", "Draining", "Unavailable", "Stopped"}

HealthStatus == {"Healthy", "Suspect", "Unavailable"}

Tentacle ==
    [owner: CthulhuId, incarnation: Incarnation, lifecycle: TentacleLifecycle,
     health: HealthStatus, last_heartbeat: Nat]

\* What an announcement or a heartbeat may carry: timestamps up to one second
\* beyond what the skew lets through.
Update ==
    [owner: CthulhuId, incarnation: Incarnation, lifecycle: ReportedLifecycle,
     health: ReportedHealth,
     last_heartbeat: 0..(MaxTime + MAX_FUTURE_HEARTBEAT_SKEW_SECONDS + 1)]

\* What the tracker asks of its parameters; the module that composes it assumes it.
LivenessParameters ==
    /\ \A i \in Incarnation : i.generation \in Nat
    /\ \A i, j \in Incarnation :
           i.id = j.id /\ i.generation = j.generation => i = j
    /\ ReportedLifecycle \subseteq TentacleLifecycle
    /\ ReportedHealth \subseteq HealthStatus
    /\ suspect_after_seconds \in Nat \ {0}
    /\ unavailable_after_seconds \in Nat
    /\ unavailable_after_seconds > suspect_after_seconds    \* LivenessTracker::new
    /\ MAX_FUTURE_HEARTBEAT_SKEW_SECONDS \in Nat
    /\ MaxTime \in Nat
    /\ NoTentacle \notin Tentacle

VARIABLES
    tentacles,  \* TentacleId -> Tentacle or NoTentacle
    now         \* the injected clock

vars == <<tentacles, now>>

Known == {id \in TentacleId : tentacles[id] # NoTentacle}

-----------------------------------------------------------------------------
CanTransitionTo(from, to) ==
    <<from, to>> \in
        ({"Starting"} \X {"Ready", "Unavailable", "Stopped"})
        \cup ({"Ready"} \X {"Draining", "Unavailable", "Stopped"})
        \cup ({"Draining"} \X {"Unavailable", "Stopped"})
        \cup ({"Unavailable"} \X {"Ready", "Stopped"})

\* validate_heartbeat_time: only the future is refused.
HeartbeatTimeOK(u) == u.last_heartbeat <= now + MAX_FUTURE_HEARTBEAT_SKEW_SECONDS

\* Seeded fault: an update of an older incarnation is let through.
NotStaleAnyGeneration(t, u) ==
    /\ u.incarnation.generation = t.incarnation.generation =>
           u.incarnation.id = t.incarnation.id
    /\ u.last_heartbeat >= t.last_heartbeat

\* Seeded fault: heartbeats are not ordered.
NotStaleAnyTime(t, u) ==
    /\ u.incarnation.generation >= t.incarnation.generation
    /\ u.incarnation.generation = t.incarnation.generation =>
           u.incarnation.id = t.incarnation.id

\* The staleness rule of apply_update.
NotStale(t, u) ==
    /\ u.incarnation.generation >= t.incarnation.generation
    /\ u.incarnation.generation = t.incarnation.generation =>
           u.incarnation.id = t.incarnation.id
    /\ u.last_heartbeat >= t.last_heartbeat

\* A newer incarnation begins at Starting; the same one follows the diagram.
LifecycleOK(t, u) ==
    IF u.incarnation.generation > t.incarnation.generation
    THEN u.lifecycle = "Starting"
    ELSE u.lifecycle = t.lifecycle \/ CanTransitionTo(t.lifecycle, u.lifecycle)

\* The guards of Tentacle::apply_update; what passes replaces the record's
\* incarnation, lifecycle, health, load and heartbeat.
ApplyUpdate(t, u) ==
    /\ u.incarnation.generation # 0
    /\ u.owner = t.owner
    /\ NotStale(t, u)
    /\ LifecycleOK(t, u)

-----------------------------------------------------------------------------
Init ==
    /\ tentacles = [id \in TentacleId |-> NoTentacle]
    /\ now = 0

\* announce: an unknown Tentacle is inserted as it presents itself, a known
\* one goes through apply_update.
Announce(id, u) ==
    /\ u.incarnation.generation # 0
    /\ HeartbeatTimeOK(u)
    /\ tentacles[id] # NoTentacle => ApplyUpdate(tentacles[id], u)
    /\ tentacles' = [tentacles EXCEPT ![id] = u]
    /\ UNCHANGED now

\* heartbeat: an unknown Tentacle is refused.
Heartbeat(id, u) ==
    /\ HeartbeatTimeOK(u)
    /\ tentacles[id] # NoTentacle
    /\ ApplyUpdate(tentacles[id], u)
    /\ tentacles' = [tentacles EXCEPT ![id] = u]
    /\ UNCHANGED now

\* Seeded fault: a stopped Tentacle is aged like the others.
AssessedStoppedToo(t) ==
    LET age == now - t.last_heartbeat IN
    CASE age >= unavailable_after_seconds ->
            [t EXCEPT !.health = "Unavailable", !.lifecycle = "Unavailable"]
      [] /\ age >= suspect_after_seconds
         /\ age < unavailable_after_seconds -> [t EXCEPT !.health = "Suspect"]
      [] OTHER -> t

\* One record after assess: its age turns it Suspect, then Unavailable; a
\* record with a heartbeat from the future has age 0.
Assessed(t) ==
    LET age == now - t.last_heartbeat IN
    CASE t.lifecycle = "Stopped" -> [t EXCEPT !.health = "Unavailable"]
      [] /\ t.lifecycle # "Stopped"
         /\ age >= unavailable_after_seconds ->
            [t EXCEPT !.health = "Unavailable",
                      !.lifecycle = IF CanTransitionTo(t.lifecycle, "Unavailable")
                                    THEN "Unavailable" ELSE t.lifecycle]
      [] /\ t.lifecycle # "Stopped"
         /\ age >= suspect_after_seconds
         /\ age < unavailable_after_seconds -> [t EXCEPT !.health = "Suspect"]
      [] OTHER -> t

\* assess: one pass over every known Tentacle.
Assess ==
    /\ tentacles' = [id \in TentacleId |->
           IF id \in Known THEN Assessed(tentacles[id]) ELSE tentacles[id]]
    /\ UNCHANGED now

\* ManualClock::set and the system clock: time may also step back.
SetClock(t) ==
    /\ t # now
    /\ now' = t
    /\ UNCHANGED tentacles

Next ==
    \/ \E id \in TentacleId, u \in Update : Announce(id, u)
    \/ \E id \in TentacleId, u \in Update : Heartbeat(id, u)
    \/ Assess
    \/ \E t \in 0..MaxTime : SetClock(t)

Spec == Init /\ [][Next]_vars

-----------------------------------------------------------------------------
(* Properties *)

\* Every known Tentacle has a well-formed record.
TypeOK ==
    /\ tentacles \in [TentacleId -> Tentacle \cup {NoTentacle}]
    /\ now \in Nat

\* "Messages naming an older incarnation cannot change lifecycle, capability,
\* load, or health": a record's incarnation generation never goes back, and one
\* generation never changes its identifier, however updates are reordered.
IncarnationKept ==
    \A id \in Known :
        LET t == tentacles[id]
            u == tentacles'[id]
        IN  /\ u.incarnation.generation >= t.incarnation.generation
            /\ u.incarnation.generation = t.incarnation.generation =>
                   u.incarnation = t.incarnation

\* "Stopped: terminal for this incarnation": no late heartbeat and no
\* assessment brings a stopped incarnation back, and its successor starts over.
StoppedKept ==
    \A id \in Known : tentacles[id].lifecycle = "Stopped" =>
        \/ tentacles'[id].lifecycle = "Stopped"
        \/ /\ tentacles'[id].lifecycle = "Starting"
           /\ tentacles'[id].incarnation.generation
                  > tentacles[id].incarnation.generation

\* A Tentacle's last heartbeat never goes back: a delayed heartbeat cannot make
\* the tracker believe in an older observation than the one it has.
HeartbeatKept ==
    \A id \in Known :
        tentacles'[id].last_heartbeat >= tentacles[id].last_heartbeat
=============================================================================
