----------------------------- MODULE Awakening -----------------------------
(***************************************************************************)
(* The awakening ritual of a Tentacle and its signed log.  A ritual action *)
(* is appended to the log first and only then does the Nature file follow, *)
(* so a crash or a failed save may leave the Nature one entry behind; the  *)
(* next open replays the log.  An error while the runtime is open leaves   *)
(* it fail-closed, which ends the process of this module: only a new open  *)
(* leaves that state.                                                      *)
(***************************************************************************)
EXTENDS Integers, Sequences, FiniteSets

CONSTANTS
  Message,         \* message ids of the operator's commands
  Pid,             \* process ids
  Top,             \* the largest value of a trait (100 in the code)
  MAX_LOG_ENTRIES, \* entries that fit MAX_AWAKENING_LOG_BYTES
  MaxNow,          \* bound: the clock, in seconds
  MaxFaults,       \* bound: crashes and failed saves
  None

VARIABLES
  log,     \* the entries of awakening_log.md
  nature,  \* the signed Nature file
  bound,   \* the Death of a killed awakening is in the lifecycle store
  mem,     \* the open runtime: its ritual, what startup has left to do, and
           \* whether the Nature file is behind the ritual
  now,     \* the clock, which may be set back
  faults

vars == <<log, nature, bound, mem, now, faults>>

Pending == [is |-> "pending"]
Decided(kind, at) == [is |-> kind, at |-> at]
Accepting == {"confirmed", "skipped", "accepted"}

NewRitual(n, at) ==
  [nature |-> n, phase |-> Pending, epoch |-> 1, last |-> at, adjusts |-> 0, rerolls |-> 0]

Ends == [yes |-> "confirmed", kill |-> "killed", skip |-> "skipped", default |-> "accepted"]
Decisive == DOMAIN Ends
LocalOnly == {"skip", "default", "epoch"}
Rerolls == {"reroll", "epoch"}
Adjusts == {"adjust", "post"}

-----------------------------------------------------------------------------
(* The log. *)

\* The phase an action leaves, or "invalid".
TransitionPhase(phase, e, begins) ==
  LET k == e.action.kind
  IN CASE begins -> IF phase # "pending" /\ k = "epoch" /\ e.event.source = "cli"
                    THEN "pending" ELSE "invalid"
       [] ~begins /\ phase = "pending" /\ k \in Decisive ->
            IF k \in LocalOnly => e.event.source = "cli" THEN Ends[k] ELSE "invalid"
       [] ~begins /\ phase = "pending" /\ k \in {"adjust", "reroll"} -> "pending"
       [] ~begins /\ phase \in Accepting /\ k = "post" -> phase
       [] OTHER -> "invalid"

ValidNatureTransition(e) ==
  LET k == e.action.kind
  IN CASE k \in Rerolls -> e.nature.id # e.prev.id
       [] k = "adjust" -> e.nature = [e.prev EXCEPT !.value = @ + e.action.by]
       [] k = "post" -> e.nature = [e.prev EXCEPT !.value = e.action.by] /\ e.nature # e.prev
       [] OTHER -> e.nature = e.prev

\* Every entry follows from the one before it.
Verified(entries) ==
  \A i \in 1..Len(entries) :
    LET e == entries[i]
        begins == i > 1 /\ e.epoch = entries[i - 1].epoch + 1
    IN /\ i = 1 => e.epoch = 1
       /\ i > 1 => /\ e.at >= entries[i - 1].at
                   /\ e.prev = entries[i - 1].nature
                   /\ begins \/ e.epoch = entries[i - 1].epoch
       /\ \A j \in 1..(i - 1) : e.event # entries[j].event
       /\ e.phase = TransitionPhase(IF i = 1 THEN "pending" ELSE entries[i - 1].phase, e, begins)
       /\ ValidNatureTransition(e)
       /\ e.action.kind \in Rerolls =>
            e.nature.id \notin {entries[j].nature.id : j \in 1..(i - 1)} \cup {entries[1].prev.id}

-----------------------------------------------------------------------------
(* Recovery. *)

Count(entries, kinds) == Cardinality({i \in DOMAIN entries : entries[i].action.kind \in kinds})

\* The ritual that the last epoch of a verified log amounts to.
FromVerifiedEntries(entries) ==
  LET last == entries[Len(entries)]
      epoch == SelectSeq(entries, LAMBDA e : e.epoch = last.epoch)
      ends == SelectSeq(epoch, LAMBDA e : e.action.kind \in Decisive)
  IN [nature |-> last.nature, epoch |-> last.epoch, last |-> last.at,
      adjusts |-> Count(epoch, Adjusts), rerolls |-> Count(epoch, Rerolls),
      phase |-> IF ends = <<>> THEN Pending
                ELSE LET e == ends[Len(ends)] IN Decided(Ends[e.action.kind], e.at)]

\* The Nature file may be missing, or one signed entry behind the log.
Resumable(n, entries) ==
  IF entries = <<>> THEN n # None
  ELSE /\ Verified(entries)
       /\ LET last == entries[Len(entries)]
          IN /\ n \in {None, last.nature, last.prev}
             /\ FromVerifiedEntries(entries).phase.is = last.phase

ResumeOrRecover(n, entries, at) ==
  IF entries = <<>> THEN NewRitual(n, at) ELSE FromVerifiedEntries(entries)

-----------------------------------------------------------------------------
(* One logged transition: append, then the ritual in memory, then Nature.  *)

Entry(r, r2, action, event) ==
  [epoch |-> r2.epoch, at |-> now, event |-> event, action |-> action,
   prev |-> r.nature, nature |-> r2.nature, phase |-> r2.phase.is]

\* The append commits, or it fails, before or after the file was replaced.
Record(r2, action, event, todo) ==
  LET grown == Append(log, Entry(mem.ritual, r2, action, event))
  IN IF now >= mem.ritual.last /\ Verified(grown) /\ Len(grown) <= MAX_LOG_ENTRIES
     THEN \/ /\ log' = grown
             /\ mem' = [ritual |-> r2, dirty |-> TRUE, todo |-> todo]
             /\ UNCHANGED <<nature, bound, now, faults>>
          \/ /\ faults < MaxFaults
             /\ log' \in {log, grown}
             /\ mem' = None
             /\ faults' = faults + 1
             /\ UNCHANGED <<nature, bound, now>>
     ELSE mem' = None /\ UNCHANGED <<log, nature, bound, now, faults>>

Decide(r, kind) == [r EXCEPT !.phase = Decided(Ends[kind], now), !.last = now]

\* A random Nature: nobody has had its identifier.
Candidates == [id: {1 + Count(log, Rerolls)}, value: 0..Top]

Reroll(r, n) == [r EXCEPT !.nature = n, !.rerolls = @ + 1, !.last = now]

ForceRerollEpoch(r, n) ==
  [r EXCEPT !.nature = n, !.phase = Pending, !.epoch = @ + 1, !.last = now,
            !.adjusts = 0, !.rerolls = 1]

Adjust(r, v) == [r EXCEPT !.nature.value = v, !.adjusts = @ + 1, !.last = now]

\* A mutant: startup saves the Nature once, after its last transition.
SettledAtTheEnd == mem # None /\ (mem.todo = <<>> => ~mem.dirty)

\* A transition waits until the Nature of the one before it is saved.
Settled == mem # None /\ ~mem.dirty

-----------------------------------------------------------------------------
(* Opening. *)

Init ==
  /\ log = <<>> /\ nature = None /\ bound = FALSE
  /\ mem = None /\ now = 0 /\ faults = 0

\* The first open generates a Nature.
Generate ==
  /\ mem = None /\ nature = None /\ log = <<>>
  /\ nature' \in [id: {0}, value: 0..Top]
  /\ UNCHANGED <<log, bound, mem, now, faults>>

\* The ritual steps asked of a start; while a Death binds there are none.
Plans == {<<>>, <<"accept">>, <<"skip">>, <<"reroll">>, <<"reroll", "accept">>, <<"reroll", "skip">>}

Open(plan) ==
  /\ mem = None /\ nature # None
  /\ bound => plan = <<>>
  /\ Resumable(nature, log)
  /\ LET r == ResumeOrRecover(nature, log, now)
     IN mem' = [ritual |-> r, dirty |-> nature # r.nature, todo |-> plan]
  /\ UNCHANGED <<log, nature, bound, now, faults>>

SaveNature ==
  /\ mem # None /\ mem.dirty
  /\ \/ /\ nature' = mem.ritual.nature
        /\ mem' = [mem EXCEPT !.dirty = FALSE]
        /\ UNCHANGED faults
     \/ /\ faults < MaxFaults
        /\ nature' \in {nature, mem.ritual.nature}
        /\ mem' = None
        /\ faults' = faults + 1
  /\ UNCHANGED <<log, bound, now>>

\* --reroll-nature --force, --skip-awakening, or the safe default; a killed
\* awakening cannot be skipped, and a decided one is accepted already.
Startup(pid) ==
  /\ Settled /\ mem.todo # <<>>
  /\ LET r == mem.ritual
         step == Head(mem.todo)
         event == [source |-> "cli", id |-> <<step, now, pid>>]
     IN CASE step = "reroll" ->
               \E n \in Candidates :
                 IF r.phase = Pending
                 THEN Record(Reroll(r, n), [kind |-> "reroll"], event, Tail(mem.todo))
                 ELSE Record(ForceRerollEpoch(r, n), [kind |-> "epoch"], event, Tail(mem.todo))
          [] step # "reroll" /\ r.phase = Pending ->
               LET kind == IF step = "skip" THEN "skip" ELSE "default"
               IN Record(Decide(r, kind), [kind |-> kind], event, Tail(mem.todo))
          [] OTHER ->
               /\ mem' = IF step = "skip" /\ r.phase.is = "killed" THEN None
                         ELSE [mem EXCEPT !.todo = Tail(@)]
               /\ UNCHANGED <<log, nature, bound, now, faults>>

Ready == Settled /\ mem.todo = <<>>

\* A killed awakening binds to Death, at the kill or at the next open.
BindDeath ==
  /\ Ready /\ mem.ritual.phase.is = "killed" /\ ~bound
  /\ bound' = TRUE
  /\ UNCHANGED <<log, nature, mem, now, faults>>

-----------------------------------------------------------------------------
(* The operator's commands. *)

FromOperator(m) == [source |-> "xmtp", id |-> m]

Respond(m) ==
  /\ Ready /\ mem.ritual.phase = Pending /\ ~bound
  /\ LET r == mem.ritual
     IN \/ \E kind \in {"yes", "kill"} :
             Record(Decide(r, kind), [kind |-> kind], FromOperator(m), <<>>)
        \/ \E n \in Candidates :
             Record(Reroll(r, n), [kind |-> "reroll"], FromOperator(m), <<>>)
        \/ \E delta \in (-Top..Top) \ {0} :
             /\ r.nature.value + delta \in 0..Top
             /\ Record(Adjust(r, r.nature.value + delta), [kind |-> "adjust", by |-> delta],
                       FromOperator(m), <<>>)

AdjustAfterConfirmation(m, v) ==
  /\ Ready /\ mem.ritual.phase.is \in Accepting
  /\ v # mem.ritual.nature.value
  /\ Record(Adjust(mem.ritual, v), [kind |-> "post", by |-> v], FromOperator(m), <<>>)

Crash ==
  /\ mem # None /\ faults < MaxFaults
  /\ mem' = None
  /\ faults' = faults + 1
  /\ UNCHANGED <<log, nature, bound, now>>

\* The operator restarts the process.
Stop ==
  /\ Ready
  /\ mem' = None
  /\ UNCHANGED <<log, nature, bound, now, faults>>

\* Startup reads the clock once.
Clock ==
  /\ mem = None \/ Ready
  /\ now' \in (0..MaxNow) \ {now}
  /\ UNCHANGED <<log, nature, bound, mem, faults>>

Next ==
  \/ Generate \/ SaveNature \/ BindDeath \/ Crash \/ Stop \/ Clock
  \/ \E plan \in Plans : Open(plan)
  \/ \E pid \in Pid : Startup(pid)
  \/ \E m \in Message : Respond(m) \/ \E v \in 0..Top : AdjustAfterConfirmation(m, v)

Spec == Init /\ [][Next]_vars

-----------------------------------------------------------------------------
\* Wherever a crash or a failed save strikes, the next open is possible, and
\* an open runtime's ritual (its Nature, epoch, decision and counts) is what
\* that open reconstructs from the log and the Nature file.
Recoverable ==
  nature # None =>
    /\ Resumable(nature, log)
    /\ mem # None =>
         ResumeOrRecover(nature, log, mem.ritual.last) = mem.ritual
=============================================================================
