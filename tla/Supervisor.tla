----------------------------- MODULE Supervisor -----------------------------
(***************************************************************************)
(* One process of the Tentacle (main.rs, autonomy.rs and the transport of  *)
(* sidecar.rs): the gates of startup, the drain of a binding Death before  *)
(* the transport exists, the autonomy supervisor that hands lifecycle      *)
(* intents to an executor and refreshes the economics, the end of the      *)
(* process, and the registration notices that travel to the operators.     *)
(*                                                                         *)
(* The lifecycle ledger keeps only what the supervisor asks of it: modules *)
(* Death and Lifecycle have the rest.  Seconds are left out: a deadline, a *)
(* refresh or a time limit may fall due at any step.                       *)
(***************************************************************************)
EXTENDS Naturals, FiniteSets

CONSTANTS
  Deadlines,   \* what a Death finds of its grace period: subset of {"grace", "expired"}
  Proposals,   \* what closed days promise: subset of {"reward", "spawn"}
  HasRelative, \* whether the family has somebody to absorb this Tentacle
  HasExecutor, \* whether a lifecycle executor is configured
  Kind,        \* kinds of registration notice
  Inbox,
  MaxCrashes, MaxTransfers,
  None

ASSUME SupervisorAssumption == Deadlines \subseteq {"grace", "expired"}

VARIABLES
  \* on disk
  death,      \* "none", "grace" or "expired"
  intents,    \* for each action "none", "open" or "done"
  done,       \* whether native Shutdown is receipted
  marked,     \* kinds the journal holds for delivered
  needs,      \* kinds the registration has reason to send
  operators, generation,
  \* in the process
  proc,       \* "off", "open", "drain" or "up"
  economics,  \* whether a current observation is bound
  due,        \* whether an economics refresh is due
  turn,       \* whether a public turn is bound to the economics
  step,       \* where the drain or the autonomy supervisor is
  executing,  \* the action an executor has, or None
  attempted,  \* actions tried in this tick
  dying,      \* whether a Death was pending when the observation began
  watch,      \* the lifecycle_shutdown channel
  transport,  \* "off", "up", "down" (stopped in order) or "failed"
  helpers,    \* whether the other supervisors still run
  batch, waiting, acked,   \* the notices being sent, those without an answer, any positive answer
  queue,      \* notices the transport has
  reflecting, \* the operator a reflection is for, or None
  \* ghosts and bounds
  executed,   \* actions an executor was started with
  delivered,  \* notices the client put into a conversation
  crashes

lifecycle == <<death, intents, done>>
task == <<economics, due, step, executing, attempted, dying, watch>>
notices == <<marked, needs, batch, waiting, acked, queue, delivered>>
people == <<operators, generation, reflecting>>
vars == <<death, intents, done, marked, needs, operators, generation, proc, economics, due, turn,
          step, executing, attempted, dying, watch, transport, helpers, batch, waiting, acked,
          queue, reflecting, executed, delivered, crashes>>

Action == {"absorb", "shutdown", "spend", "reward", "spawn"}
Economic == {"spend", "reward", "spawn"}
Open == {a \in Action : intents[a] = "open"}
Pending == death # "none"

Init ==
  /\ death = "none" /\ done = FALSE /\ intents = [a \in Action |-> "none"]
  /\ marked = {} /\ needs = {} /\ operators \in {S \in SUBSET Inbox : Cardinality(S) <= 1} /\ generation = 1
  /\ proc = "off" /\ economics = FALSE /\ due = TRUE /\ turn = FALSE
  /\ step = "tick" /\ executing = None /\ attempted = {} /\ dying = FALSE /\ watch = FALSE
  /\ transport = "off" /\ helpers = FALSE
  /\ batch = {} /\ waiting = {} /\ acked = FALSE /\ queue = {} /\ reflecting = None
  /\ executed = {} /\ delivered = {} /\ crashes = 0

(* ---- what the ledger answers ---- *)

\* reconcile_expired_death: burns are dropped, the absorption and Shutdown are intended
Reconciled ==
  IF death # "expired" THEN intents
  ELSE [a \in Action |->
          CASE a = "spend" /\ intents[a] = "open" -> "none"
            [] a = "absorb" /\ intents[a] = "none" /\ HasRelative -> "open"
            [] a = "shutdown" /\ intents[a] = "none" -> "open"
            [] OTHER -> intents[a]]

\* next_due_lifecycle_action_excluding: Shutdown waits for an absorption not yet tried
Offerable(a) ==
  /\ Reconciled[a] = "open" /\ a \notin attempted
  /\ a \in {"spawn", "reward"} => ~Pending
  /\ a \in Economic => economics
EligibleOnceAbsorbed(a) ==
  Offerable(a) /\ (a = "shutdown" => Reconciled["absorb"] \in {"none", "done"})
Eligible(a) ==
  Offerable(a) /\ (a = "shutdown" => Reconciled["absorb"] # "open" \/ "absorb" \in attempted)

Rank == [absorb |-> 0, shutdown |-> 1, spend |-> 2, reward |-> 3, spawn |-> 4]
IsNext(a) == Eligible(a) /\ \A b \in Action : Eligible(b) => Rank[a] <= Rank[b]

\* what main lets go when it returns, fails or is killed
Stop ==
  /\ proc' = "off" /\ economics' = FALSE /\ due' = TRUE /\ turn' = FALSE
  /\ step' = "tick" /\ executing' = None /\ attempted' = {} /\ dying' = FALSE /\ watch' = FALSE
  /\ transport' = "off" /\ helpers' = FALSE
  /\ batch' = {} /\ waiting' = {} /\ acked' = FALSE /\ queue' = {} /\ reflecting' = None

(* ---- startup ---- *)

\* a Shutdown already due is completed before any dependency is built
CompleteBeforeStart ==
  /\ proc = "off" /\ death = "expired" /\ ~done
  /\ done' = TRUE /\ intents' = [Reconciled EXCEPT !["shutdown"] = "done"]
  /\ UNCHANGED <<death, proc, task, turn, transport, helpers, notices, people, executed, crashes>>

\* the economics preflight: required, but not to carry out a Death
Preflight(observed) == observed \/ Pending
\* the gates of startup, then the stores open
OpenStores(observed) ==
  /\ proc = "off" /\ ~done /\ death # "expired"
  /\ Preflight(observed)
  /\ proc' = IF Pending THEN "drain" ELSE "open"
  /\ economics' = (observed /\ ~Pending)
  /\ UNCHANGED <<lifecycle, due, step, executing, attempted, dying, watch, turn, transport,
                 helpers, notices, people, executed, crashes>>

WakeupNotices == {<<"wakeup", i>> : i \in operators}
\* the identity audit, the operators, the stores and the wakeup notice precede the transport
Serve ==
  /\ proc = "open"
  /\ proc' = "up" /\ transport' = "up" /\ helpers' = TRUE
  /\ queue' = WakeupNotices
  /\ UNCHANGED <<lifecycle, task, turn, marked, needs, batch, waiting, acked, delivered, people,
                 executed, crashes>>

\* drain_startup_recovery ends when the Death was bought off
Survive ==
  /\ proc = "drain" /\ step = "tick" /\ ~Pending
  /\ proc' = "open"
  /\ UNCHANGED <<lifecycle, task, turn, transport, helpers, notices, people, executed, crashes>>

(* ---- the drain and the autonomy supervisor ---- *)

Supervises == proc = "drain" \/ (proc = "up" /\ helpers /\ ~watch)

Tick ==
  /\ Supervises /\ step = "tick" /\ (proc = "drain" => Pending)
  /\ step' = "select" /\ attempted' = {}
  /\ UNCHANGED <<lifecycle, proc, economics, due, executing, dying, watch, turn, transport,
                 helpers, notices, people, executed, crashes>>

\* Shutdown ends the supervisor; an action without an executor only waits for the next tick
Select(a) ==
  /\ Supervises /\ step = "select" /\ IsNext(a)
  /\ intents' = IF a = "shutdown" /\ proc = "drain" THEN [Reconciled EXCEPT ![a] = "done"]
                ELSE Reconciled
  /\ attempted' = attempted \cup {a}
  /\ IF a = "shutdown"
     THEN /\ step' = "returned" /\ watch' = (proc = "up") /\ done' = (proc = "drain")
          /\ UNCHANGED executing
     ELSE /\ UNCHANGED <<watch, done>>
          /\ IF HasExecutor THEN step' = "execute" /\ executing' = a
             ELSE UNCHANGED <<step, executing>>
  /\ UNCHANGED <<death, proc, economics, due, dying, turn, transport, helpers, notices, people,
                 executed, crashes>>

\* execute_with_death_preemption looks at the deadline before it lets the executor run on
Preempted == death = "expired" \/ (executing = "spawn" /\ Pending)

Poll ==
  /\ Supervises /\ step = "execute" /\ ~Preempted
  /\ executed' = executed \cup {executing} /\ step' = "executing"
  /\ UNCHANGED <<lifecycle, proc, economics, due, executing, attempted, dying, watch, turn,
                 transport, helpers, notices, people, crashes>>

\* the process group is killed, the intent stays for another try
GiveUp ==
  /\ Supervises /\ step \in {"execute", "executing"}
  /\ step = "execute" => Preempted
  /\ executing' = None
  /\ step' \in {"select"} \cup (IF ~Preempted /\ due /\ proc = "up" THEN {"refresh"} ELSE {})
  /\ UNCHANGED <<lifecycle, proc, economics, due, attempted, dying, watch, turn, transport,
                 helpers, notices, people, executed, crashes>>

\* the executor answered: between its answer and the acknowledgement a Death may bind
Answer ==
  /\ Supervises /\ step = "executing" /\ step' = "acknowledge"
  /\ UNCHANGED <<lifecycle, proc, economics, due, executing, attempted, dying, watch, turn,
                 transport, helpers, notices, people, executed, crashes>>

\* a receipt that raced a Death is discarded; a late burn is rejected by the ledger
AcceptedUnlessLate(a) == a = "spend" => (death = "grace" /\ intents[a] = "open")
Accepted(a) ==
  /\ a = "spawn" => ~Pending
  /\ a = "spend" => (death = "grace" /\ intents[a] = "open")

AcknowledgeExecutorReceipt ==
  /\ Supervises /\ step = "acknowledge"
  /\ IF Accepted(executing)
     THEN /\ intents' = [intents EXCEPT ![executing] = "done"]
          /\ death' = IF executing = "spend" THEN "none" ELSE death
          /\ due' = (due \/ executing \in {"spend", "reward"})
          /\ economics' = (economics /\ executing \notin {"spend", "reward"})
     ELSE UNCHANGED <<intents, death, due, economics>>
  /\ step' = IF due' /\ proc = "up" THEN "refresh" ELSE "select"
  /\ executing' = None
  /\ UNCHANGED <<done, proc, attempted, dying, watch, turn, transport, helpers, notices, people,
                 executed, crashes>>

\* nothing more to offer: observe the treasury, unless a turn is bound to what is known
Refresh ==
  /\ Supervises
  /\ step = "refresh" \/ (step = "select" /\ \A a \in Action : ~Eligible(a))
  /\ intents' = Reconciled
  /\ IF proc = "drain" \/ (due /\ ~turn)
     THEN step' = "observe" /\ dying' = Pending
     ELSE step' = "tick" /\ UNCHANGED dying
  /\ UNCHANGED <<death, done, proc, economics, due, executing, attempted, watch, turn, transport,
                 helpers, notices, people, executed, crashes>>

\* observe_with_death_preemption: a Death, or its deadline, ends the observation
Interrupted ==
  /\ Supervises /\ step = "observe" /\ (death = "expired" \/ (~dying /\ Pending))
  /\ economics' = (economics /\ proc = "drain")
  /\ intents' = Reconciled
  /\ IF proc = "up" /\ Eligible("shutdown") THEN watch' = TRUE /\ step' = "returned"
     ELSE step' = "tick" /\ UNCHANGED watch
  /\ UNCHANGED <<death, done, proc, due, executing, attempted, dying, turn, transport, helpers,
                 notices, people, executed, crashes>>

\* the answer is dropped when a turn began meanwhile; a failed refresh keeps a current view
Observed(ok) ==
  /\ Supervises /\ step = "observe" /\ step' = "tick"
  /\ IF ok /\ ~turn
     THEN /\ economics' = TRUE /\ due' = FALSE
          /\ intents' = IF death = "grace" /\ intents["spend"] = "none"
                        THEN [intents EXCEPT !["spend"] = "open"] ELSE intents
     ELSE /\ economics' = (economics /\ (ok \/ proc = "up"))
          /\ UNCHANGED <<due, intents>>
  /\ UNCHANGED <<death, done, proc, executing, attempted, dying, watch, turn, transport, helpers,
                 notices, people, executed, crashes>>

(* ---- the world outside the supervisor ---- *)

\* a public turn starts and ends; it needs current economics and an open admission
Turn ==
  /\ proc = "up" /\ transport = "up"
  /\ turn \/ (economics /\ ~Pending)
  /\ turn' = ~turn
  /\ UNCHANGED <<lifecycle, proc, task, transport, helpers, notices, people, executed, crashes>>

\* a closed day may promise a reward or a child
Propose(a) ==
  /\ proc = "up" /\ ~Pending /\ intents[a] = "none"
  /\ intents' = [intents EXCEPT ![a] = "open"]
  /\ UNCHANGED <<death, done, proc, task, turn, transport, helpers, notices, people, executed,
                 crashes>>

\* an operator's KILL in the operator lane (reconcile_killed_awakening)
Kill(d) ==
  /\ proc = "up" /\ transport = "up" /\ ~Pending /\ ~done
  /\ death' = d
  /\ UNCHANGED <<intents, done, proc, task, turn, transport, helpers, notices, people, executed,
                 crashes>>

Deadline ==
  /\ death = "grace" /\ death' = "expired"
  /\ UNCHANGED <<intents, done, proc, task, turn, transport, helpers, notices, people, executed,
                 crashes>>

\* the observation grows old, or the next one falls due
Age ==
  /\ proc \in {"up", "drain"}
  /\ \/ economics /\ economics' = FALSE /\ UNCHANGED due
     \/ ~due /\ due' = TRUE /\ UNCHANGED economics
  /\ UNCHANGED <<lifecycle, proc, step, executing, attempted, dying, watch, turn, transport,
                 helpers, notices, people, executed, crashes>>

(* ---- the end of the process ---- *)

\* the transport sees the channel: workers are aborted and joined, then Node is stopped
StopTransport ==
  /\ proc = "up" /\ transport = "up" /\ watch
  /\ turn' = FALSE /\ transport' \in {"down", "failed"}
  /\ UNCHANGED <<lifecycle, proc, task, helpers, notices, people, executed, crashes>>

\* SIGTERM stops it in order, an exit of Node does not
LoseTransport ==
  /\ proc = "up" /\ transport = "up" /\ ~watch /\ crashes < MaxCrashes
  /\ turn' = FALSE /\ transport' \in {"down", "failed"} /\ crashes' = crashes + 1
  /\ UNCHANGED <<lifecycle, proc, task, helpers, notices, people, executed>>

\* the select! of main: the first of the two to end stops the other supervisors
FirstToEnd ==
  /\ proc = "up" /\ helpers /\ (transport # "up" \/ step = "returned")
  /\ helpers' = FALSE /\ batch' = {} /\ waiting' = {} /\ acked' = FALSE /\ reflecting' = None
  /\ UNCHANGED <<lifecycle, proc, task, turn, transport, marked, needs, queue, delivered,
                 operators, generation, executed, crashes>>

\* Shutdown is receipted for a transport that stopped in order
StoppedOrTold == transport \in {"up", "down"}
Stopped == transport = "down"

AcknowledgeNativeShutdown ==
  /\ proc = "up" /\ ~helpers /\ step = "returned" /\ Stopped
  /\ done' = TRUE /\ intents' = [intents EXCEPT !["shutdown"] = "done"]
  /\ Stop
  /\ UNCHANGED <<death, marked, needs, delivered, operators, generation, executed, crashes>>

\* a transport that ended by itself, or with an error, ends the process without a receipt
Return ==
  /\ proc = "up" /\ ~helpers
  /\ \/ transport = "down" /\ ~watch
     \/ transport = "failed" /\ (watch => step = "returned")
  /\ Stop
  /\ UNCHANGED <<lifecycle, marked, needs, delivered, operators, generation, executed, crashes>>

\* after the receipt of the drain main returns
Drained ==
  /\ proc = "drain" /\ done /\ Stop
  /\ UNCHANGED <<lifecycle, marked, needs, delivered, operators, generation, executed, crashes>>

Crash ==
  /\ proc # "off" /\ crashes < MaxCrashes /\ crashes' = crashes + 1
  /\ Stop
  /\ UNCHANGED <<lifecycle, marked, needs, delivered, operators, generation, executed>>

(* ---- notices ---- *)

Need(k) ==
  /\ k \notin needs /\ needs' = needs \cup {k}
  /\ UNCHANGED <<lifecycle, proc, task, turn, transport, helpers, marked, batch, waiting, acked,
                 queue, delivered, people, executed, crashes>>

\* run_registration_supervisor: every due notice for every active operator, each with its answer
Announce ==
  /\ helpers /\ batch = {} /\ needs \ marked # {}
  /\ batch' = needs \ marked
  /\ waiting' = (batch' \X operators) /\ queue' = queue \cup waiting'
  /\ acked' = FALSE
  /\ UNCHANGED <<lifecycle, proc, task, turn, transport, helpers, marked, needs, delivered,
                 people, executed, crashes>>

\* the client answers for one notice, whether or not somebody still waits
AnyAnswerCounts(sent) == TRUE
CountsAsDelivered(sent) == sent

ClientAnswers(n, sent) ==
  /\ transport = "up" /\ n \in queue /\ queue' = queue \ {n}
  /\ delivered' = IF sent THEN delivered \cup {n} ELSE delivered
  /\ waiting' = waiting \ {n}
  /\ acked' = (acked \/ (n \in waiting /\ CountsAsDelivered(sent)))
  /\ UNCHANGED <<lifecycle, proc, task, turn, transport, helpers, marked, needs, batch, people,
                 executed, crashes>>

\* thirty seconds without an answer
StopWaiting(n) ==
  /\ n \in waiting /\ waiting' = waiting \ {n}
  /\ UNCHANGED <<lifecycle, proc, task, turn, transport, helpers, marked, needs, batch, acked,
                 queue, delivered, people, executed, crashes>>

\* mark_notifications_delivered, for the whole batch, when any answer was positive
Commit ==
  /\ batch # {} /\ waiting = {}
  /\ marked' \in {marked} \cup (IF acked THEN {marked \cup batch} ELSE {})
  /\ batch' = {} /\ acked' = FALSE
  /\ UNCHANGED <<lifecycle, proc, task, turn, transport, helpers, needs, waiting, queue,
                 delivered, people, executed, crashes>>

\* a reflection is made for one operator, and told only if that authorization still stands
Reflect ==
  /\ helpers /\ reflecting = None
  /\ \E i \in operators : reflecting' = <<i, generation>>
  /\ UNCHANGED <<lifecycle, proc, task, turn, transport, helpers, notices, operators, generation,
                 executed, crashes>>
Reflected ==
  /\ helpers /\ reflecting # None /\ reflecting' = None
  /\ queue' = IF reflecting[1] \in operators /\ reflecting[2] = generation
              THEN queue \cup {<<"need", reflecting[1]>>} ELSE queue
  /\ UNCHANGED <<lifecycle, proc, task, turn, transport, helpers, marked, needs, batch, waiting,
                 acked, delivered, operators, generation, executed, crashes>>

Transfer(i) ==
  /\ proc = "up" /\ i \notin operators /\ generation <= MaxTransfers
  /\ operators' = {i} /\ generation' = generation + 1
  /\ UNCHANGED <<lifecycle, proc, task, turn, transport, helpers, notices, reflecting, executed,
                 crashes>>

Supervise ==
  \/ Tick \/ Poll \/ GiveUp \/ Answer \/ AcknowledgeExecutorReceipt \/ Refresh \/ Interrupted
  \/ \E a \in Action : Select(a)
  \/ \E ok \in BOOLEAN : Observed(ok)
Notify ==
  \/ Announce \/ Commit \/ Reflect \/ Reflected
  \/ \E k \in Kind : Need(k)
  \/ \E n \in queue : ClientAnswers(n, TRUE) \/ ClientAnswers(n, FALSE)
  \/ \E n \in waiting : StopWaiting(n)
  \/ \E i \in Inbox : Transfer(i)

Next ==
  \/ CompleteBeforeStart \/ Serve \/ Survive
  \/ \E observed \in BOOLEAN : OpenStores(observed)
  \/ Supervise \/ Notify
  \/ Turn \/ Deadline \/ Age
  \/ \E a \in Proposals : Propose(a)
  \/ \E d \in Deadlines : Kill(d)
  \/ StopTransport \/ LoseTransport \/ FirstToEnd \/ AcknowledgeNativeShutdown \/ Return \/ Drained
  \/ Crash

Spec == Init /\ [][Next]_vars

(* The process is started again when it ends, the clock runs, and tokio runs what is ready; an *)
(* executor or an RPC server need not answer: their time limits end the wait.                  *)
Fairness ==
  /\ WF_vars(Deadline) /\ WF_vars(CompleteBeforeStart) /\ WF_vars(OpenStores(FALSE)) /\ WF_vars(Serve)
  /\ WF_vars(Tick) /\ WF_vars(\E a \in Action : Select(a)) /\ WF_vars(Poll) /\ WF_vars(GiveUp)
  /\ WF_vars(AcknowledgeExecutorReceipt) /\ WF_vars(Refresh) /\ WF_vars(Interrupted)
  /\ WF_vars(Observed(FALSE))
  /\ WF_vars(StopTransport) /\ WF_vars(FirstToEnd) /\ WF_vars(AcknowledgeNativeShutdown)
  /\ WF_vars(Return) /\ WF_vars(Drained)
FairSpec == Spec /\ Fairness

TypeOK ==
  /\ death \in {"none", "grace", "expired"} /\ intents \in [Action -> {"none", "open", "done"}]
  /\ proc \in {"off", "open", "drain", "up"} /\ executing \in Action \cup {None}
  /\ transport \in {"off", "up", "down", "failed"} /\ marked \subseteq Kind

(* Shutdown is receipted only after the transport stopped and its workers were joined, however *)
(* the end of the transport, of the supervisor and of the process race (main's select!).       *)
ReceiptedAfterTheTransport == [][~done /\ done' => transport # "up" /\ ~turn]_vars

(* A child provisioned while a Death bound is never taken into the ledger, although the        *)
(* executor was started before and its answer was already there (acknowledge_executor_receipt).*)
NoChildAfterDeath == [][intents["spawn"] # "done" /\ intents'["spawn"] = "done" => ~Pending]_vars

(* A Death is bought off or ends in a receipted Shutdown: a hanging executor or RPC server,    *)
(* open turns and restarts at any point only delay it (execute_with_death_preemption).         *)
DeathIsCarriedOut == Pending ~> (done \/ ~Pending)

(* Notices are held for delivered only when the client delivered one of their batch: an answer *)
(* that is negative, late or lost with the process marks nothing (run_registration_supervisor).*)
MarkedAfterDelivery ==
  [][marked' # marked => ((marked' \ marked) \X Inbox) \cap delivered # {}]_vars

(* The comment of run_registration_supervisor: losing an answer can never suppress a notice. A *)
(* batch of two is marked by the answer to either.                                             *)
EachNoticeIsDelivered == \A k \in marked : \E i \in Inbox : <<k, i>> \in delivered

(* README: the outbox keeps draining absorption.  It is intended at the deadline, when         *)
(* execute_with_death_preemption no longer lets any executor run.                              *)
AbsorptionIsTried == done /\ HasExecutor /\ intents["absorb"] # "none" => "absorb" \in executed

=============================================================================
