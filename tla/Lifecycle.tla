----------------------------- MODULE Lifecycle -----------------------------
(***************************************************************************)
(* The Evolution runtime of a Tentacle: its awakening log, the metrics of  *)
(* the open day, the final judgments, the lineage and the lifecycle outbox,*)
(* each in a file of its own.  A handler computes its effect in memory and *)
(* saves the files one after the other, so a crash may fall between any    *)
(* two of them; opening the runtime again reconciles what it finds.  The   *)
(* supervisor offers one outbox action at a time to an external executor   *)
(* and projects its receipt into lineage and growth metrics.               *)
(* A save that fails leaves the runtime fail-closed until it restarts,     *)
(* which is a crash at that save.                                          *)
(***************************************************************************)
EXTENDS Naturals, SequencesExt

CONSTANTS
  Child,      \* names an operator may spawn a child under
  Event,      \* contributions that earn an acolyte a reward
  Turn,       \* public turns that may run at the same time
  AutoSpawn,  \* automatic spawning is on and the Nature's growth above 70
  HasParent,  \* the Tentacle was itself provisioned by a parent
  MaxDay,     \* bound: the last day
  MaxEpoch,   \* bound: the last awakening epoch
  MaxCrashes, \* bound: crashes
  None        \* no value

VARIABLES
  day,        \* the clock, in daily periods
  disk,       \* the files
  mem,        \* the runtime in memory, or None when it is not running
  done,       \* the actions whose effect an executor brought about
  crashes

lifecycleVars == <<day, disk, mem, done, crashes>>

LifecycleParameters ==
  /\ {AutoSpawn, HasParent} \subseteq BOOLEAN
  /\ {MaxDay, MaxEpoch, MaxCrashes} \subseteq Nat

Days == 0..MaxDay
\* Survival, a warning and dormancy authorize nothing.
Outcomes == {"rights", "survival"}
Stores == {"log", "metrics", "history", "lineage", "life"}

\* A Nature is told apart by its epoch and the adjustments since.
Bind(log) == <<log.epoch, log.version>>

Fresh(d, b) ==
  [period |-> d, bind |-> b, talked |-> FALSE, kids |-> 0, stress |-> 0, econ |-> FALSE]

Busy(m) == m.talked \/ m.kids > 0 \/ m.econ

Spawn(c, rec) == [kind |-> "spawn", child |-> c, grant |-> rec.period, bind |-> rec.bind]
Reward(e) == [kind |-> "reward", event |-> e]
Absorb == [kind |-> "absorb"]
Shutdown == [kind |-> "shutdown"]

Autos == {<<"auto", d>> : d \in Days}
Actions ==
  [kind: {"spawn"}, child: Child \cup Autos, grant: Days, bind: (1..MaxEpoch) \X Nat]
    \cup {Reward(e) : e \in Event} \cup {Absorb, Shutdown}

-----------------------------------------------------------------------------
(* The lifecycle outbox. *)

Receipted(l, a) == \E r \in l.receipts : r.of = a
Succeeded(l, a) == \E r \in l.receipts : r.of = a /\ r.status = "Succeeded"
Open(l) == {a \in l.intents \ l.canceled : ~Receipted(l, a)}
Projected(l) == {p.child : p \in l.projections}
Credits(l, d) == Cardinality({p \in l.projections : p.period = d})

\* An earlier release scheduled Death on a low score: it becomes dormancy.
Retired(l) ==
  [l EXCEPT !.death = None, !.shutdown = FALSE,
            !.canceled = @ \cup (Open(l) \cap {Absorb, Shutdown})]

WithReceipt(l, a, status) ==
  [l EXCEPT !.receipts = @ \cup {[of |-> a, status |-> status]},
            !.shutdown = @ \/ (a = Shutdown /\ status = "Succeeded" /\ a \notin l.canceled)]

Rank(a) == CASE a.kind = "absorb" -> 0 [] a.kind = "shutdown" -> 1
             [] a.kind = "reward" -> 3 [] a.kind = "spawn" -> 4

-----------------------------------------------------------------------------
(* A handler is a chain of steps on the runtime in memory: each puts one   *)
(* file, or fails and ends the chain.                                      *)

Put(s, store, v) ==
  IF ~s.ok \/ s[store] = v THEN s
  ELSE [s EXCEPT ![store] = v, !.writes = Append(@, <<store, v>>)]

Ensure(s, cond) == [s EXCEPT !.ok = @ /\ cond]

Current(s) == s.econ /\ s.metrics.econ

LastFinal(s) == CHOOSE r \in s.history : \A q \in s.history : q.period <= r.period

Judge(s, outcome) ==
  [period |-> s.metrics.period, bind |-> s.metrics.bind, metrics |-> s.metrics,
   outcome |-> IF outcome = "rights" /\ ~s.metrics.talked THEN "survival" ELSE outcome]

\* A grant spawns under the Nature that earned it.
Authorized(s, rec) == rec.outcome = "rights" /\ rec.bind = Bind(s.log)

Executable(s, rec) ==
  Authorized(s, rec) /\ Current(s) /\ s.metrics.bind = Bind(s.log)

Named(s, c) ==
  c \in s.lineage.kids \/ \E a \in s.life.intents : a.kind = "spawn" /\ a.child = c

Enqueue(s, a) == Put(s, "life", [s.life EXCEPT !.intents = @ \cup {a}])

ApplyFinalJudgment(s, rec) ==
  IF AutoSpawn /\ Authorized(s, rec) /\ ~Named(s, <<"auto", rec.period>>)
  THEN Enqueue(s, Spawn(<<"auto", rec.period>>, rec))
  ELSE s

\* A mutant: the day ends whoever is talking.
ClosesUnderTurns(s, d) == d > s.metrics.period

\* The open period ends with its day, once no public turn is bound to it.
Closes(s, d) == d > s.metrics.period /\ s.turns = {}

RollPeriodIfClosed(s, d, outcome) ==
  CASE ~s.ok \/ s.life.death # None -> s
    [] s.log.killed ->
         IF Busy(s.metrics) THEN Ensure(s, FALSE)
         ELSE IF d > s.metrics.period THEN Put(s, "metrics", Fresh(d, Bind(s.log))) ELSE s
    [] ~s.log.killed /\ ~Current(s) -> [s EXCEPT !.econ = FALSE]
    [] ~s.log.killed /\ Current(s) /\ ~Closes(s, d) -> Ensure(s, s.metrics.bind = Bind(s.log))
    [] OTHER ->
         LET rec == Judge(s, outcome)
             h == Put(Ensure(s, s.metrics.bind = Bind(s.log)), "history", s.history \cup {rec})
         IN ApplyFinalJudgment(Put(h, "metrics", Fresh(d, Bind(s.log))), rec)

\* A mutant: every receipt applied adds one child.
ReconcileGrowthByOne(s) == Put(s, "metrics", [s.metrics EXCEPT !.kids = @ + 1])

\* Children whose provisioning is marked in the open period are its growth.
ReconcileGrowth(s) ==
  Put(s, "metrics", [s.metrics EXCEPT !.kids = Credits(s.life, s.metrics.period)])

RecordSpawn(s, a) ==
  LET mark == [child |-> a.child, period |-> s.metrics.period]
  IN IF a.child \in Projected(s.life)
     THEN Ensure(s, mark \in s.life.projections)
     ELSE Put(s, "life", [s.life EXCEPT !.projections = @ \cup {mark}])

\* A successful provisioning enters the lineage, is marked with the open
\* period, and counts as growth.
ApplySpawn(s, a) ==
  LET born == IF a.child \in s.lineage.kids THEN s
              ELSE Put(Ensure(s, a.bind[1] = s.lineage.bind[1]), "lineage",
                       [s.lineage EXCEPT !.kids = @ \cup {a.child}])
  IN ReconcileGrowth(RecordSpawn(born, a))

Replay(s) ==
  FoldSet(LAMBDA a, t : ApplySpawn(t, a), s,
          {a \in s.life.intents : a.kind = "spawn" /\ Succeeded(s.life, a)})

\* An awakening killed before confirmation binds to Death, and after the
\* absorption by a relative, to Shutdown.
ReconcileKilled(s) ==
  IF ~s.log.killed \/ s.life.death # None \/ Shutdown \in s.life.intents THEN s
  ELSE Put(s, "life",
         [s.life EXCEPT !.death = "killed",
            !.intents = @ \cup {Shutdown} \cup
               (IF HasParent \/ s.lineage.kids # {} THEN {Absorb} ELSE {})])

-----------------------------------------------------------------------------
(* Opening the runtime. *)

Rebind(m, log) ==
  CASE m.bind = Bind(log) -> m
    [] m.bind # Bind(log) /\ m.bind[1] = log.epoch -> [m EXCEPT !.bind = Bind(log)]
    [] OTHER -> Fresh(m.period, Bind(log))

\* A history that is ahead of the metrics by exactly their judgment is a crash
\* between the two saves.
PastHistory(s, d) ==
  IF s.history = {} \/ s.metrics.period > LastFinal(s).period THEN s
  ELSE Ensure([s EXCEPT !.metrics = Fresh(d, Bind(s.log))],
              /\ s.metrics = LastFinal(s).metrics /\ d > s.metrics.period
              /\ LastFinal(s).bind = Bind(s.log))

ReconcileMetrics(s, loaded) ==
  LET emptied == IF s.log.killed /\ s.metrics.econ
                 THEN Fresh(s.metrics.period, Bind(s.log)) ELSE s.metrics
      t == Ensure(s, /\ ~(s.log.killed /\ (s.metrics.talked \/ s.metrics.kids > 0))
                     /\ emptied.bind = Bind(s.log) \/ ~Busy(emptied))
      m == [Rebind(emptied, s.log)
              EXCEPT !.stress = s.log.adjusted[emptied.period], !.econ = TRUE]
  IN Put([t EXCEPT !.metrics = loaded], "metrics", m)

\* --reroll-nature --force begins a new epoch under a new Nature.
ForceReroll(s, d, outcome) ==
  LET closed == IF d > s.metrics.period
                THEN LET h == Put(s, "history", s.history \cup {Judge(s, outcome)})
                     IN Put(h, "metrics", Fresh(d, Bind(s.log)))
                ELSE s
      logged == Put(Ensure(closed, ~Busy(closed.metrics)), "log",
                    [killed |-> FALSE, epoch |-> s.log.epoch + 1, version |-> 0,
                     adjusted |-> [x \in Days |-> 0]])
  IN Put(logged, "metrics", Rebind(logged.metrics, logged.log))

ValidPending(s) ==
  \A a \in Open(s.life) :
    CASE a.kind = "spawn" -> a.bind = Bind(s.log)
      [] a.kind = "reward" -> s.metrics.econ
      [] OTHER -> s.life.death # None

Loaded ==
  [log |-> disk.log, metrics |-> disk.metrics, history |-> disk.history,
   lineage |-> disk.lineage, life |-> disk.life,
   ok |-> TRUE, econ |-> TRUE, turns |-> {}, tried |-> {}, running |-> None,
   writes |-> <<>>]

Opening(reroll, outcome) ==
  LET a == ReconcileMetrics(PastHistory(Loaded, day), disk.metrics)
      b == IF reroll THEN ForceReroll(Ensure(a, ~a.log.killed), day, outcome) ELSE a
      c == Put(b, "lineage", [b.lineage EXCEPT !.bind = Bind(b.log)])
      e == IF c.ok /\ ValidPending(c) THEN Replay(c) ELSE Ensure(c, FALSE)
      f == RollPeriodIfClosed(ReconcileKilled(e), day, outcome)
  IN IF f.ok /\ f.life.death = None /\ f.history # {}
     THEN ApplyFinalJudgment(f, LastFinal(f)) ELSE Ensure(f, f.life.death = None)

\* No Death binds, and no Shutdown completed.
Startable == mem = None /\ disk.life.death = None /\ ~disk.life.shutdown

OpenRuntime(reroll, outcome) ==
  /\ Startable
  /\ reroll => /\ disk.log.epoch < MaxEpoch
               /\ \A a \in Open(disk.life) : a.kind # "spawn"
  /\ mem' = Opening(reroll, outcome)
  /\ UNCHANGED <<day, disk, done, crashes>>

\* Startup retires a Death that only a low score scheduled, unless a relative
\* has absorbed the Tentacle already.
RetireLegacyDeath ==
  /\ mem = None
  /\ disk.life.death = "scored"
  /\ ~Succeeded(disk.life, Absorb)
  /\ disk' = [disk EXCEPT !.life = Retired(@)]
  /\ UNCHANGED <<day, mem, done, crashes>>

\* Startup completes a due Shutdown before anything else is constructed.
StartupShutdown ==
  /\ mem = None
  /\ disk.life.death = "killed"
  /\ ~disk.life.shutdown
  /\ disk' = [disk EXCEPT !.life = WithReceipt(@, Shutdown, "Succeeded")]
  /\ UNCHANGED <<day, mem, done, crashes>>

-----------------------------------------------------------------------------
(* The running process. *)

Idle == mem # None /\ mem.ok /\ mem.writes = <<>>

PermitsNormalOperation(s) ==
  ~s.log.killed /\ s.ok /\ s.life.death = None /\ ~s.life.shutdown

Become(s) == mem' = s /\ UNCHANGED <<day, disk, done, crashes>>

\* The next file is saved.
Flush ==
  /\ mem # None /\ mem.writes # <<>>
  /\ disk' = [disk EXCEPT ![Head(mem.writes)[1]] = Head(mem.writes)[2]]
  /\ mem' = [mem EXCEPT !.writes = Tail(@)]
  /\ UNCHANGED <<day, done, crashes>>

\* A failed open, a fail-closed runtime and a completed Shutdown end the process.
Exit ==
  /\ mem # None /\ mem.writes = <<>>
  /\ ~mem.ok \/ mem.life.shutdown
  /\ mem' = None
  /\ UNCHANGED <<day, disk, done, crashes>>

Crash ==
  /\ mem # None /\ crashes < MaxCrashes
  /\ mem' = None
  /\ crashes' = crashes + 1
  /\ UNCHANGED <<day, disk, done>>

NextDay ==
  /\ day < MaxDay
  /\ mem # None => mem.writes = <<>>
  /\ day' = day + 1
  /\ UNCHANGED <<disk, mem, done, crashes>>

Observe ==
  /\ Idle /\ ~mem.log.killed /\ mem.turns = {}
  /\ Become([Put(mem, "metrics", [mem.metrics EXCEPT !.econ = TRUE]) EXCEPT !.econ = TRUE])

\* The last observation is stale, or the next one failed.
LoseEconomics == Idle /\ mem.econ /\ Become([mem EXCEPT !.econ = FALSE])

BeginTurn(t, outcome) ==
  /\ Idle /\ PermitsNormalOperation(mem) /\ Current(mem)
  /\ t \notin {u.id : u \in mem.turns}
  /\ ~(day > mem.metrics.period /\ mem.turns # {})
  /\ LET s == RollPeriodIfClosed(mem, day, outcome)
     IN Become(IF s.ok /\ Current(s) /\ PermitsNormalOperation(s)
               THEN [s EXCEPT !.turns = @ \cup
                       {[id |-> t, bind |-> s.metrics.bind, period |-> s.metrics.period]}]
               ELSE [s EXCEPT !.econ = Current(s)])

Bound(s, u) ==
  u.bind = Bind(s.log) /\ u.bind = s.metrics.bind /\ u.period = s.metrics.period

FinishTurn(u, observed) ==
  /\ Idle /\ u \in mem.turns
  /\ LET s == [mem EXCEPT !.turns = @ \ {u}]
     IN Become(IF ~observed THEN s
               ELSE Put(Ensure(s, PermitsNormalOperation(s) /\ Bound(s, u)), "metrics",
                        [s.metrics EXCEPT !.talked = TRUE]))

\* /adjust: logged first, then metrics, lineage and the rest follow the log.
AdjustNature(outcome) ==
  /\ Idle /\ PermitsNormalOperation(mem) /\ Current(mem) /\ mem.turns = {}
  /\ LET s == RollPeriodIfClosed(mem, day, outcome)
         log == [s.log EXCEPT !.version = @ + 1, !.adjusted[day] = @ + 1]
         m == Put(Put(s, "log", log), "metrics",
                  [Rebind(s.metrics, log) EXCEPT !.stress = log.adjusted[s.metrics.period]])
     IN IF s.ok /\ ~Busy(s.metrics) /\ \A a \in Open(s.life) : a.kind # "spawn"
        THEN Become(Put(m, "lineage", [m.lineage EXCEPT !.bind = Bind(log)]))
        ELSE Become(s)

\* /spawn under the last final judgment.
SpawnChild(c, outcome) ==
  /\ Idle /\ PermitsNormalOperation(mem) /\ Current(mem) /\ mem.turns = {}
  /\ LET s == RollPeriodIfClosed(mem, day, outcome)
     IN IF s.ok /\ s.history # {} /\ Executable(s, LastFinal(s)) /\ ~Named(s, c)
        THEN Become(Enqueue(s, Spawn(c, LastFinal(s)))) ELSE Become(s)

EnqueueReward(e) ==
  /\ Idle /\ Current(mem)
  /\ Become(Enqueue(mem, Reward(e)))

\* What the supervisor may offer: nothing it tried in this tick.
Excluded(s, a) ==
  \/ a \in s.tried
  \/ a.kind = "spawn" /\ ~\E rec \in s.history : rec.period = a.grant /\ Executable(s, rec)
  \/ a.kind = "reward" /\ ~Current(s)

Due(s) ==
  LET eligible == {a \in Open(s.life) :
        /\ ~Excluded(s, a)
        /\ a.kind \in {"spawn", "reward"} => s.life.death = None
        /\ a = Shutdown => \/ Absorb \notin s.life.intents \/ Receipted(s.life, Absorb)
                           \/ Absorb \in s.tried}
  IN {a \in eligible : \A b \in eligible : Rank(a) <= Rank(b)}

\* One turn of the supervisor: a Death whose grace is over preempts the
\* absorption it offers first, and Shutdown follows natively.
Supervise(outcome) ==
  /\ Idle /\ mem.running = None
  /\ LET s == RollPeriodIfClosed(mem, day, outcome)
     IN IF Due(s) = {} THEN Become([s EXCEPT !.tried = {}])
        ELSE \E a \in Due(s) :
          LET t == [s EXCEPT !.tried = @ \cup {a}]
          IN CASE a = Shutdown -> Become(Put(s, "life", WithReceipt(s.life, a, "Succeeded")))
               [] a = Absorb -> Become(t)
               [] OTHER -> Become([t EXCEPT !.running = a])

\* External: the executor brings the action about, at most once per action.
Execute ==
  /\ mem # None /\ mem.running # None
  /\ done' = done \cup {mem.running}
  /\ UNCHANGED <<day, disk, mem, crashes>>

Acknowledge(status) ==
  /\ Idle /\ mem.running # None
  /\ status = "Succeeded" <=> mem.running \in done
  /\ LET a == mem.running
         s == Put([mem EXCEPT !.running = None], "life", WithReceipt(mem.life, a, status))
     IN Become(CASE status # "Succeeded" -> s
                 [] status = "Succeeded" /\ a.kind = "reward" -> [s EXCEPT !.econ = FALSE]
                 [] OTHER -> ApplySpawn(s, a))

\* The executor timed out: the action stays in the outbox.
NoReceipt ==
  /\ Idle /\ mem.running # None
  /\ Become([mem EXCEPT !.running = None])

-----------------------------------------------------------------------------
NoLife == [intents |-> {}, receipts |-> {}, canceled |-> {}, death |-> None,
           projections |-> {}, shutdown |-> FALSE]

\* What earlier releases left: an awakening killed before confirmation, or a
\* Death that a low score scheduled, in its grace, shut down or absorbed.
LegacyLives ==
  {NoLife} \cup
  {[l EXCEPT !.death = "scored"] :
     l \in {NoLife, WithReceipt([NoLife EXCEPT !.intents = {Shutdown}], Shutdown, "Succeeded"),
            WithReceipt([NoLife EXCEPT !.intents = {Absorb, Shutdown}], Absorb, "Succeeded")}}

\* The first start, or one after the day whose judgment scheduled that Death.
LifecycleInit ==
  /\ \E l \in LegacyLives, killed \in BOOLEAN :
       LET judged == IF l.death = None THEN {}
                     ELSE {[period |-> 0, bind |-> <<1, 0>>, metrics |-> Fresh(0, <<1, 0>>),
                            outcome |-> "survival"]}
       IN /\ killed => l = NoLife
          /\ day = Cardinality(judged)
          /\ disk = [log |-> [killed |-> killed, epoch |-> 1, version |-> 0,
                              adjusted |-> [x \in Days |-> 0]],
                     metrics |-> Fresh(Cardinality(judged), <<1, 0>>), history |-> judged,
                     lineage |-> [bind |-> <<1, 0>>, kids |-> {}], life |-> l]
  /\ mem = None /\ done = {} /\ crashes = 0

LifecycleNext ==
  \/ \E o \in Outcomes :
       \/ \E reroll \in BOOLEAN : OpenRuntime(reroll, o)
       \/ \E t \in Turn : BeginTurn(t, o)
       \/ AdjustNature(o)
       \/ \E c \in Child : SpawnChild(c, o)
       \/ Supervise(o)
  \/ RetireLegacyDeath \/ StartupShutdown
  \/ Flush \/ Exit \/ Crash \/ NextDay \/ Observe \/ LoseEconomics
  \/ mem # None /\ \E u \in mem.turns, observed \in BOOLEAN : FinishTurn(u, observed)
  \/ \E e \in Event : EnqueueReward(e)
  \/ Execute \/ NoReceipt \/ \E r \in {"Succeeded", "Failed"} : Acknowledge(r)

LifecycleSpec == LifecycleInit /\ [][LifecycleNext]_lifecycleVars

-----------------------------------------------------------------------------
(* Properties. *)

\* A provisioned child is in the lineage, marked with one period and counted in
\* the metrics or the judgment of that period alone, and every adjustment in the
\* period it was logged in, whatever crash fell between the saves
\* (apply_completed_lifecycle_action, reconcile_spawn_growth_credits,
\* reconcile_adjustment_stress).
PeriodsAddUp ==
  Idle =>
    /\ mem.lineage.kids = Projected(mem.life)
    /\ \A a \in mem.life.intents :
         a.kind = "spawn" => (Succeeded(mem.life, a) <=> a.child \in mem.lineage.kids)
    /\ \A m \in {mem.metrics} \cup {rec.metrics : rec \in mem.history} :
         /\ m.kids = Credits(mem.life, m.period)
         /\ m.bind[1] = mem.log.epoch => m.stress = mem.log.adjusted[m.period]

\* A public turn ends under the Nature and the metrics period it began with, so
\* its observation is never refused (begin_public_turn, finish_public_turn).
TurnsKeepTheirPeriod ==
  mem # None /\ mem.ok => \A u \in mem.turns : Bound(mem, u)

\* docs/evolution.md: restart recovery treats locally accepted successful
\* receipts idempotently, so the files a crash leaves always open again.
RestartRecovers ==
  Startable /\ ~disk.log.killed => \E o \in Outcomes : Opening(FALSE, o).ok
=============================================================================
