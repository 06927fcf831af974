------------------------------- MODULE Death -------------------------------
(***************************************************************************)
(* The ledger of a Tentacle's lifecycle: a Death with its grace period,    *)
(* the survival burn that may cancel it, the absorption by a relative and  *)
(* the Shutdown.  Every intent is kept for good, receipts arrive from      *)
(* executors in any order and at any delay, and each operation saves the   *)
(* ledger; a crash may cut an acknowledgement after its receipt or after   *)
(* the lineage.  Children and rewards, whose intents share the ledger, are *)
(* in module Lifecycle.                                                    *)
(***************************************************************************)
EXTENDS Naturals, FiniteSets, TLC

CONSTANTS
  Judgment,   \* what schedules a Death
  Terms,      \* funding a burn may be bound to: amount, token, treasury, configuration
  Grace,      \* lengths of a grace period
  Relative,   \* Tentacles that may absorb this one
  Tx,         \* token transactions
  LIFECYCLE_RECEIPT_CLOCK_SKEW_MS,
  MaxAttempt, \* bound: survival burns for one Death
  MaxNow,     \* bound: the clock
  None        \* no value

DeathParameters ==
  /\ Grace \subseteq Nat
  /\ {LIFECYCLE_RECEIPT_CLOCK_SKEW_MS, MaxAttempt, MaxNow} \subseteq Nat

VARIABLES
  now,         \* the clock
  pending,     \* the Death that binds, or None
  shutdown,    \* when Shutdown completed, or None
  intents,     \* every action ever intended, with its creation time
  receipts,    \* terminal receipts
  canceled,    \* actions no longer offered
  projecting,  \* absorptions the lineage has yet to take in
  projections, \* absorptions it took in, and when
  lineage,     \* whom the lineage says absorbed this Tentacle, or None
  offered,     \* actions an executor was given
  mined        \* external: the transactions executors brought about

vars == <<now, pending, shutdown, intents, receipts, canceled, projecting, projections,
          lineage, offered, mined>>

Spend(p, b, n) ==
  [kind |-> "spend", judgment |-> p.judgment, ends |-> p.ends, terms |-> b, attempt |-> n]
Absorb(j, r) == [kind |-> "absorb", judgment |-> j, target |-> r]
Shutdown(j, dependency) == [kind |-> "shutdown", judgment |-> j, after |-> dependency]

Terminal == {"spend", "absorb", "shutdown"}

Of(kind, j) == {a \in DOMAIN intents : a.kind = kind /\ a.judgment = j}
Receipted(a) == \E r \in receipts : r.of = a
Succeeded(a) == \E r \in receipts : r.of = a /\ r.ok
Unreceipted(kind, j) == {a \in Of(kind, j) : ~Receipted(a)}
ReceiptOf(a) == CHOOSE r \in receipts : r.of = a

Dying(j) == pending # None /\ pending.judgment = j
GraceOver == pending # None /\ now >= pending.ends

Insert(f, a) == IF a \in DOMAIN f THEN f ELSE f @@ (a :> now)

\* Successful absorptions of the pending Death the lineage has not taken in.
Unapplied ==
  {a \in DOMAIN intents :
     /\ a.kind = "absorb" /\ Dying(a.judgment) /\ Succeeded(a)
     /\ a \notin canceled /\ ~\E p \in projections : p.of = a}

-----------------------------------------------------------------------------
(* The ledger. *)

\* An unreceipted burn is offered again under its own terms, never replaced.
EnqueueSurvivalSpend(p, b) ==
  LET open == Unreceipted("spend", p.judgment)
      n == Cardinality(Of("spend", p.judgment))
  IN IF open # {}
     THEN /\ \A a \in open : a.terms = b /\ a.ends = p.ends
          /\ canceled' = canceled \ open
          /\ UNCHANGED intents
     ELSE /\ n < MaxAttempt
          /\ intents' = Insert(intents, Spend(p, b, n))
          /\ UNCHANGED canceled

ScheduleDeath(j, grace, b) ==
  LET p == [judgment |-> j, at |-> now, ends |-> now + grace]
  IN /\ pending = None
     /\ pending' = p
     /\ IF b = None THEN UNCHANGED <<intents, canceled>> ELSE EnqueueSurvivalSpend(p, b)
     /\ UNCHANGED <<now, shutdown, receipts, projecting, projections, lineage,
                    offered, mined>>

\* A fresh observation funds the burn a pending Death needs, or does not.
StagePendingSurvivalSpend(b) ==
  /\ pending # None
  /\ IF b # None /\ now <= pending.ends THEN EnqueueSurvivalSpend(pending, b)
     ELSE /\ canceled' = canceled \cup Unreceipted("spend", pending.judgment)
          /\ UNCHANGED intents
  /\ UNCHANGED <<now, pending, shutdown, receipts, projecting, projections, lineage, offered, mined>>

\* Once grace is over nothing is burned, a relative absorbs, then Shutdown.
Expired(target) ==
  LET j == pending.judgment
      absorbed == IF target = None \/ Of("absorb", j) # {} THEN intents
                  ELSE Insert(intents, Absorb(j, target))
      before == {a \in DOMAIN absorbed : a.kind = "absorb" /\ a.judgment = j}
      dependency == IF before = {} THEN None ELSE CHOOSE a \in before : TRUE
  IN [intents |-> Insert(absorbed, Shutdown(j, dependency)),
      canceled |-> canceled \cup Unreceipted("spend", j),
      shutdown |-> Shutdown(j, dependency)]

\* The lineage takes an absorption in once: after a crash it must hold that one.
Projectable(a) ==
  /\ GraceOver
  /\ ReceiptOf(a).at <= now + LIFECYCLE_RECEIPT_CLOCK_SKEW_MS
  /\ lineage # None => /\ lineage.into = a.target /\ lineage.manifest = a
                       /\ lineage.at >= pending.ends
                       /\ ReceiptOf(a).at <= lineage.at + LIFECYCLE_RECEIPT_CLOCK_SKEW_MS

ProjectedAt == IF lineage = None THEN now ELSE lineage.at

\* A crash may fall after the lineage is saved.
Project(a, crash) ==
  /\ lineage' = IF lineage = None THEN [into |-> a.target, at |-> now, manifest |-> a] ELSE lineage
  /\ IF crash THEN UNCHANGED <<projecting, projections>>
     ELSE /\ projecting' = projecting \ {a}
          /\ projections' = projections \cup {[of |-> a, at |-> ProjectedAt]}

ReconcileLifecycleDeadline(target) ==
  /\ GraceOver
  /\ intents' = Expired(target).intents
  /\ canceled' = Expired(target).canceled
  /\ UNCHANGED <<now, pending, shutdown, receipts, projecting, projections, lineage, offered, mined>>

ApplyCompletedAbsorption(a, crash) ==
  /\ a \in Unapplied /\ Projectable(a)
  /\ Project(a, crash)
  /\ UNCHANGED <<now, pending, shutdown, intents, receipts, canceled, offered, mined>>

\* Startup: receipts older than the markers get theirs.
ReconcileAbsorptionProjectionTracking ==
  /\ projecting' = projecting \cup Unapplied
  /\ UNCHANGED <<now, pending, shutdown, intents, receipts, canceled, projections, lineage, offered, mined>>

\* Startup with a due Death shuts down before any transport starts.
CompleteDueNativeShutdown ==
  LET a == Expired(None).shutdown
  IN /\ GraceOver /\ shutdown = None
     /\ a \notin canceled /\ ~Receipted(a)
     /\ shutdown' = now
     /\ intents' = Expired(None).intents
     /\ canceled' = Expired(None).canceled
     /\ receipts' = receipts \cup {[of |-> a, ok |-> TRUE, at |-> now, tx |-> None]}
     /\ projecting' = projecting \cup Unapplied
     /\ UNCHANGED <<now, pending, projections, lineage, offered, mined>>

\* Startup after Shutdown repairs the half of an absorption a crash left out.
RepairAbsorptionProjection(a, crash) ==
  /\ shutdown # None /\ pending # None
  /\ shutdown >= pending.ends
  /\ a \in Unapplied /\ Projectable(a)
  /\ Project(a, crash)
  /\ UNCHANGED <<now, pending, shutdown, intents, receipts, canceled, offered, mined>>

\* A low score of an earlier release no longer kills, unless a relative has
\* absorbed the Tentacle already.
RetireLegacyDeath ==
  /\ pending # None
  /\ ~\E a \in Of("absorb", pending.judgment) : Succeeded(a)
  /\ canceled' = canceled \cup UNION {Unreceipted(k, pending.judgment) : k \in Terminal}
  /\ pending' = None /\ shutdown' = None
  /\ UNCHANGED <<now, intents, receipts, projecting, projections, lineage,
                 offered, mined>>

-----------------------------------------------------------------------------
(* The supervisor and its executors. *)

Rank(a) == CASE a.kind = "absorb" -> 0 [] a.kind = "shutdown" -> 1 [] a.kind = "spend" -> 2

SurvivalSpendExecutable(a) == Dying(a.judgment) /\ pending.ends = a.ends /\ now <= a.ends

Due ==
  {a \in DOMAIN intents \ canceled :
     /\ ~Receipted(a)
     /\ a.kind = "spend" => SurvivalSpendExecutable(a)
     /\ a.kind = "shutdown" =>
          IF a.after = None THEN TRUE ELSE Receipted(a.after) \/ a.after \in offered}

\* What ranks before it was tried in this tick.
Offer(a) ==
  /\ a \in Due \ offered
  /\ \A b \in Due : Rank(b) < Rank(a) => b \in offered
  /\ offered' = offered \cup {a}
  /\ UNCHANGED <<now, pending, shutdown, intents, receipts, canceled, projecting,
                 projections, lineage, mined>>

\* External: an executor burns what an offered action asks for.
Mine(t, a) ==
  /\ ~\E m \in mined : m.tx = t
  /\ a \in offered /\ a.kind = "spend"
  /\ mined' = mined \cup {[tx |-> t, for |-> a.terms, block |-> now]}
  /\ UNCHANGED <<now, pending, shutdown, intents, receipts, canceled, projecting,
                 projections, lineage, offered>>

\* Burns under the same terms differ by their transaction alone.
Confirms(m, a) ==
  /\ m.for = a.terms
  /\ m.block >= intents[a] /\ m.block <= a.ends

\* One terminal receipt for an action an executor was given; when a failure or a
\* burn was reported completed is never read again.
Receivable(a, at) ==
  /\ a \in offered /\ ~Receipted(a)
  /\ at >= intents[a] /\ at <= now + LIFECYCLE_RECEIPT_CLOCK_SKEW_MS

AcknowledgeFailure(a, at) ==
  /\ Receivable(a, at)
  /\ receipts' = receipts \cup {[of |-> a, ok |-> FALSE, at |-> at, tx |-> None]}
  /\ UNCHANGED <<now, pending, shutdown, intents, canceled, projecting, projections,
                 lineage, offered, mined>>

\* A mutant: absorptions of the Death survived keep their markers.
SurvivedKeepingMarkers(j) == projecting

\* What an absorption did stays on record without marking the survivor.
Survived(j) == projecting \ {a \in Of("absorb", j) : Succeeded(a)}

\* Proof that a burn was confirmed within grace cancels the Death, however late.
AcknowledgeSurvival(a, at, m) ==
  /\ Receivable(a, at) /\ a.kind = "spend"
  /\ Confirms(m, a)
  /\ ~\E r \in receipts : r.ok /\ r.tx = m.tx
  /\ Dying(a.judgment) /\ pending.ends = a.ends
  /\ pending' = None
  /\ canceled' = (canceled \cup UNION {Unreceipted(k, a.judgment) : k \in Terminal}) \ {a}
  /\ projecting' = Survived(a.judgment)
  /\ receipts' = receipts \cup {[of |-> a, ok |-> TRUE, at |-> at, tx |-> m.tx]}
  /\ UNCHANGED <<now, shutdown, intents, projections, lineage, offered, mined>>

AcknowledgeAbsorption(a, at, cut) ==
  LET tracked == Dying(a.judgment) /\ a \notin canceled
      marked == IF tracked THEN projecting \cup {a} ELSE projecting
      r == [of |-> a, ok |-> TRUE, at |-> at, tx |-> None]
  IN /\ Receivable(a, at) /\ a.kind = "absorb"
     /\ receipts' = receipts \cup {r}
     /\ IF tracked /\ GraceOver /\ cut # "receipt"
           /\ lineage = None
        THEN /\ lineage' = [into |-> a.target, at |-> now, manifest |-> a]
             /\ projecting' = IF cut = "lineage" THEN marked ELSE projecting
             /\ projections' = IF cut = "lineage" THEN projections
                               ELSE projections \cup {[of |-> a, at |-> now]}
        ELSE projecting' = marked /\ UNCHANGED <<lineage, projections>>
     /\ UNCHANGED <<now, pending, shutdown, intents, canceled, offered, mined>>

AcknowledgeShutdown(a, at) ==
  /\ Receivable(a, at) /\ a.kind = "shutdown"
  /\ shutdown' = IF a \in canceled THEN shutdown ELSE at
  /\ receipts' = receipts \cup {[of |-> a, ok |-> TRUE, at |-> at, tx |-> None]}
  /\ UNCHANGED <<now, pending, intents, canceled, projecting, projections, lineage, offered, mined>>

-----------------------------------------------------------------------------
Tick ==
  /\ now < MaxNow
  /\ now' = now + 1
  /\ UNCHANGED <<pending, shutdown, intents, receipts, canceled, projecting, projections,
                 lineage, offered, mined>>

Init ==
  /\ now = 0
  /\ pending = None /\ shutdown = None /\ lineage = None
  /\ intents = <<>>
  /\ receipts = {} /\ canceled = {} /\ projecting = {} /\ projections = {}
  /\ offered = {} /\ mined = {}

Next ==
  \/ \E j \in Judgment, g \in Grace, b \in Terms \cup {None} : ScheduleDeath(j, g, b)
  \/ \E b \in Terms \cup {None} : StagePendingSurvivalSpend(b)
  \/ \E r \in Relative \cup {None} : ReconcileLifecycleDeadline(r)
  \/ \E a \in DOMAIN intents, crash \in BOOLEAN :
       ApplyCompletedAbsorption(a, crash) \/ RepairAbsorptionProjection(a, crash)
  \/ ReconcileAbsorptionProjectionTracking
  \/ CompleteDueNativeShutdown
  \/ RetireLegacyDeath
  \/ \E a \in DOMAIN intents : Offer(a)
  \/ \E t \in Tx, a \in offered : Mine(t, a)
  \/ \E a \in offered :
       \/ AcknowledgeFailure(a, now)
       \/ \E m \in mined : AcknowledgeSurvival(a, now, m)
  \/ \E a \in offered, at \in now..(now + LIFECYCLE_RECEIPT_CLOCK_SKEW_MS) :
       \/ AcknowledgeShutdown(a, at)
       \/ \E cut \in {"none", "receipt", "lineage"} : AcknowledgeAbsorption(a, at, cut)
  \/ Tick

Spec == Init /\ [][Next]_vars

-----------------------------------------------------------------------------
(* What a restart accepts. *)

ValidIntents ==
  \A a \in DOMAIN intents :
    a.kind = "shutdown" =>
      IF a.after = None THEN TRUE
      ELSE /\ a.after \in DOMAIN intents
           /\ a.after.kind = "absorb" /\ a.after.judgment = a.judgment

ValidReceipts ==
  /\ \A r \in receipts : r.of \in DOMAIN intents /\ r.at >= intents[r.of]
  /\ \A r, q \in receipts : r # q => r.of # q.of
  /\ \A r, q \in {x \in receipts : x.ok /\ x.of.kind = "spend"} :
       r # q => r.tx # q.tx

ValidProjecting ==
  \A a \in projecting :
    /\ a \in DOMAIN intents /\ a.kind = "absorb"
    /\ Succeeded(a) /\ Dying(a.judgment)
    /\ ~\E p \in projections : p.of = a

ValidProjections ==
  \A p \in projections :
    /\ p.of \in DOMAIN intents /\ p.of.kind = "absorb" /\ Succeeded(p.of)
    /\ ReceiptOf(p.of).at <= p.at + LIFECYCLE_RECEIPT_CLOCK_SKEW_MS

ValidShutdown ==
  shutdown # None => \E r \in receipts : r.ok /\ r.of.kind = "shutdown"

\* Whatever order receipts arrive in and wherever a crash cut them, the ledger
\* is one LifecycleState::validate accepts on the next start.
LedgerReloads ==
  /\ ValidIntents /\ ValidReceipts /\ canceled \subseteq DOMAIN intents
  /\ ValidProjecting /\ ValidProjections /\ ValidShutdown
=============================================================================
