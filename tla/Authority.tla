---- MODULE Authority ----
(* Who may act for the Tentacle, and how often (principal.rs, sidecar.rs,     *)
(* dedupe.rs, operator_tasks.rs and the harness of operator.rs): the operator *)
(* records, the durable claim of every message, the two authority lanes, the  *)
(* operator's turn, the transfer of authority, and the background tasks.      *)
(*                                                                            *)
(* What a message asks is chosen when it is handled: nothing before reads it. *)
(* The lanes are fair semaphores of one permit, so they are sequences. Time   *)
(* is left out: a deadline may pass and a recurring task be due at any step.  *)
(* The public reply itself is another module's business.                      *)
EXTENDS Integers, Sequences, FiniteSets

CONSTANTS
    Principal,          \* the inboxes that may write
    Task,               \* identifiers of task registrations: the store's room
    MAX_PENDING_TASKS,  \* messages being worked on before one is turned away
    MaxMessages, MaxGeneration, MaxRestarts,
    Absent             \* what a record, a turn or a transfer is when there is none

VARIABLES
    operator_records,   \* for each inbox its record, or Absent
    sent,       \* the inboxes that wrote, in order: a message is its position
    claimed,    \* the messages with a marker on disk
    operatorLane, publicLane,   \* admitted messages with the role pinned to them
    harness_turn,   \* the harness work of the operator lane's first message, or Absent
    pending,    \* the transfer waiting for its confirmation, or Absent
    tasks,      \* for each identifier its registration, or Absent
    job,        \* the task the supervisor is running, or Absent
    answers,    \* ghost: how often each message was answered
    starts,     \* ghost: how often work for each message began
    approved,   \* ghost: tasks somebody wants run since their last uncertain end
    fenced,     \* ghost: FALSE once a tool started without current authority
    restarts

authority == <<operator_records, pending>>
inbound == <<sent, claimed, operatorLane, publicLane, answers, starts>>
background == <<tasks, job, approved>>
authorityVars == <<authority, inbound, background, harness_turn, fenced, restarts>>

Message == 1 .. MaxMessages

(* the operator records, the transfer in doubt, and the registrations of tasks *)
OperatorRecord == [status: {"active", "revoked"}, boundary: Nat, generation: Nat]
TransferPlan == [source: Principal, generation: Nat, target: Principal]
TaskRecord ==
    [inbox: Principal, generation: Nat, kind: {"once", "recurring", "review"},
     state: {"ready", "running", "paused", "done", "removed"}]
HarnessTurn ==
    [stage: {"confirming", "running"}, generation: Nat, target: Principal \cup {Absent}]
TaskRun == [task: Task, inbox: Principal, generation: Nat, stage: {"claimed", "running"}]

AuthorityParameters ==
    /\ {MAX_PENDING_TASKS, MaxMessages, MaxGeneration, MaxRestarts} \subseteq Nat
    /\ Absent \notin Principal \cup OperatorRecord \cup TransferPlan \cup TaskRecord
                      \cup HarnessTurn \cup TaskRun

ASSUME AuthorityAssumption == AuthorityParameters

AuthorityInit ==
    /\ operator_records = [i \in Principal |-> Absent]
    /\ sent = <<>> /\ claimed = {} /\ operatorLane = <<>> /\ publicLane = <<>>
    /\ harness_turn = Absent /\ pending = Absent
    /\ tasks = [t \in Task |-> Absent] /\ job = Absent
    /\ answers = [m \in Message |-> 0] /\ starts = [m \in Message |-> 0]
    /\ approved = {} /\ fenced = TRUE /\ restarts = 0

(* ---- principal.rs ---- *)

Known == {i \in Principal : operator_records[i] # Absent}
Active == {i \in Known : operator_records[i].status = "active"}
Holds(i, generation) == i \in Active /\ operator_records[i].generation = generation

(* role_for_message: a message of before the authorization stays stale *)
Role(m) ==
    LET i == sent[m] IN
    CASE i \notin Known -> "user"
      [] i \in Known \ Active -> "revoked"
      [] i \in Active /\ m > operator_records[i].boundary -> "operator"
      [] OTHER -> "stale"

(* add_at, to which transfer and imprinting come: a new generation and a new boundary *)
Granted(records, i, boundary) ==
    [records EXCEPT ![i] = [status |-> "active", boundary |-> boundary,
        generation |-> IF records[i] = Absent THEN 1 ELSE records[i].generation + 1]]
Revoked(records) ==
    [i \in Principal |-> IF i \in Active THEN [records[i] EXCEPT !.status = "revoked"]
                     ELSE records[i]]
MayGrant(i) == i \in Known => operator_records[i].generation < MaxGeneration

(* classify_or_imprint: the first authenticated sender ever becomes the operator *)
Imprinted(m) == IF Known = {} THEN Granted(operator_records, sent[m], m) ELSE operator_records

(* ---- the sidecar's frames ---- *)

Send(i) ==
    /\ Len(sent) < MaxMessages /\ sent' = Append(sent, i)
    /\ UNCHANGED <<authority, background, claimed, operatorLane, publicLane, answers, starts,
                   harness_turn, fenced, restarts>>

FirstDeliveryThisRun(m) ==
    m \notin {w.message : w \in {operatorLane[k] : k \in DOMAIN operatorLane}
                                \cup {publicLane[k] : k \in DOMAIN publicLane}}
FirstDelivery(m) == m \notin claimed

Answered(m) == answers' = [answers EXCEPT ![m] = @ + 1]

(* a frame: classified, claimed, and given to the lane of its role. A frame that comes *)
(* again, from a stream or from the catch-up of a new start, is ignored                *)
Deliver(m) ==
    /\ m \in DOMAIN sent /\ FirstDelivery(m)
    /\ operator_records' = Imprinted(m) /\ claimed' = claimed \cup {m}
    /\ IF Len(operatorLane) + Len(publicLane) >= MAX_PENDING_TASKS
       THEN Answered(m) /\ UNCHANGED <<operatorLane, publicLane>>
       ELSE /\ IF Role(m) = "user"
               THEN /\ publicLane' = Append(publicLane, [message |-> m, role |-> "user"])
                    /\ UNCHANGED operatorLane
               ELSE /\ operatorLane' = Append(operatorLane, [message |-> m, role |-> Role(m)])
                    /\ UNCHANGED publicLane
            /\ UNCHANGED answers
    /\ UNCHANGED <<background, pending, sent, starts, harness_turn, fenced, restarts>>

ServePublic ==
    /\ publicLane # <<>> /\ publicLane' = Tail(publicLane)
    /\ LET m == Head(publicLane).message IN
        Answered(m) /\ starts' = [starts EXCEPT ![m] = @ + 1]
    /\ UNCHANGED <<authority, background, sent, claimed, operatorLane, harness_turn, fenced,
                   restarts>>

(* ---- the operator lane ---- *)

Current == Head(operatorLane).message
Sender == sent[Current]
Generation == operator_records[Sender].generation

(* every end of the work on a message: one answer, and the permit is released *)
Done == Answered(Current) /\ operatorLane' = Tail(operatorLane) /\ harness_turn' = Absent

(* a revoked or stale inbox gets a fixed answer, an operator whose authority is gone *)
(* an error, and a message whose deadline is over a refusal                          *)
Refuse ==
    /\ operatorLane # <<>> /\ harness_turn = Absent /\ Done
    /\ UNCHANGED <<authority, background, sent, claimed, publicLane, starts, fenced, restarts>>

(* respond_tracked reads the generation when the work starts, not when it was admitted *)
Admitted ==
    /\ operatorLane # <<>> /\ harness_turn = Absent
    /\ Head(operatorLane).role = "operator" /\ Sender \in Active

Begun == starts' = [starts EXCEPT ![Current] = @ + 1]

(* history, registry and lifecycle commands run on the pinned role alone *)
DirectCommand ==
    /\ operatorLane # <<>> /\ harness_turn = Absent /\ Head(operatorLane).role = "operator"
    /\ Begun /\ Done
    /\ UNCHANGED <<authority, background, sent, claimed, publicLane, fenced, restarts>>

Mine(t) == tasks[t] # Absent /\ tasks[t].inbox = Sender /\ tasks[t].generation = Generation

Registration(inbox, generation, kind) ==
    [inbox |-> inbox, generation |-> generation, kind |-> kind, state |-> "ready"]
Free(t) == tasks[t] = Absent /\ (job # Absent => job.task # t)

(* /task run and add; steer and resume; interval, which keeps the state and makes a     *)
(* one-shot task recur; pause; remove, which keeps the daily review as a tombstone. Each *)
(* is saved before it shows                                                             *)
TaskCommand ==
    /\ Admitted /\ Begun /\ Done
    /\ \E t \in Task :
        \/ /\ Free(t) /\ approved' = approved \cup {t}
           /\ \E kind \in {"once", "recurring"} :
                tasks' = [tasks EXCEPT ![t] = Registration(Sender, Generation, kind)]
        \/ /\ Mine(t) /\ approved' = approved \cup {t}
           /\ tasks' = [tasks EXCEPT ![t].state = "ready"]
        \/ /\ Mine(t) /\ UNCHANGED approved
           /\ tasks' = [tasks EXCEPT ![t].kind = IF @ = "once" THEN "recurring" ELSE @]
        \/ /\ Mine(t) /\ approved' = approved \ {t}
           /\ \/ tasks' = [tasks EXCEPT ![t].state = "paused"]
              \/ tasks' = [tasks EXCEPT ![t] =
                    IF @.kind = "review" THEN [@ EXCEPT !.state = "removed"] ELSE Absent]
    /\ UNCHANGED <<authority, job, sent, claimed, publicLane, fenced, restarts>>

(* /operator <identity>: verify the inbox and remember it under a token *)
PrepareTransfer ==
    /\ Admitted /\ Begun /\ Done
    /\ \E i \in Principal \ {Sender} :
        pending' = [source |-> Sender, generation |-> Generation, target |-> i]
    /\ UNCHANGED <<operator_records, background, sent, claimed, publicLane, fenced, restarts>>

(* /operator confirm takes the pending transfer, then resolves its target again *)
TakeTransfer ==
    /\ Admitted /\ pending # Absent /\ pending' = Absent /\ Begun
    /\ IF pending.source = Sender /\ pending.generation = Generation
       THEN /\ harness_turn' = [stage |-> "confirming", generation |-> Generation,
                        target |-> pending.target]
            /\ UNCHANGED <<operatorLane, answers>>
       ELSE Done
    /\ UNCHANGED <<operator_records, background, sent, claimed, publicLane, fenced, restarts>>

TransferAuthority ==
    /\ harness_turn # Absent /\ harness_turn.stage = "confirming"
    /\ Holds(Sender, harness_turn.generation) /\ MayGrant(harness_turn.target)
    /\ operator_records' = Granted(Revoked(operator_records), harness_turn.target, Len(sent))
    /\ Done
    /\ UNCHANGED <<pending, background, sent, claimed, publicLane, starts, fenced, restarts>>

(* ---- the harness: one execution lock, tried by a turn and waited for by a task ---- *)

TurnRuns == harness_turn # Absent /\ harness_turn.stage = "running"
JobRuns == job # Absent /\ job.stage = "running"

(* while a task holds the lock the turn is Refused, so that a pause can follow it *)
BeginTurn ==
    /\ Admitted /\ ~JobRuns /\ Begun
    /\ harness_turn' = [stage |-> "running", generation |-> Generation, target |-> Absent]
    /\ UNCHANGED <<authority, background, sent, claimed, operatorLane, publicLane, answers,
                   fenced, restarts>>

ActiveAgain(i, generation) == i \in Active
Authorized(i, generation) == Holds(i, generation)

(* a tool of the turn: the check comes again before each *)
TurnTool ==
    /\ TurnRuns /\ Authorized(Sender, harness_turn.generation)
    /\ fenced' = (fenced /\ Role(Current) = "operator"
                  /\ Holds(Sender, harness_turn.generation))
    /\ UNCHANGED <<authority, background, inbound, harness_turn, restarts>>

(* an answer, a failure, a limit, a lost authority, or the request's deadline *)
EndTurn ==
    /\ harness_turn # Absent /\ Done
    /\ UNCHANGED <<authority, background, sent, claimed, publicLane, starts, fenced, restarts>>

(* ---- the supervisor of the tasks ---- *)

(* ensure_daily_review: one for each authorization, removed ones included *)
Reviewed == {<<tasks[t].inbox, tasks[t].generation>> :
                t \in {u \in Task : tasks[u] # Absent /\ tasks[u].kind = "review"}}
EnsureReview ==
    /\ job = Absent
    /\ \E i \in Active, t \in Task :
        /\ <<i, operator_records[i].generation>> \notin Reviewed /\ Free(t)
        /\ tasks' = [tasks EXCEPT
                ![t] = Registration(i, operator_records[i].generation, "review")]
        /\ approved' = approved \cup {t}
    /\ UNCHANGED <<authority, inbound, job, harness_turn, fenced, restarts>>

Claim(t) ==
    /\ job = Absent /\ tasks[t] # Absent /\ tasks[t].state = "ready"
    /\ Holds(tasks[t].inbox, tasks[t].generation)
    /\ tasks' = [tasks EXCEPT ![t].state = "running"]
    /\ job' = [task |-> t, inbox |-> tasks[t].inbox, generation |-> tasks[t].generation,
               stage |-> "claimed"]
    /\ approved' = approved \ {t}
    /\ UNCHANGED <<authority, inbound, harness_turn, fenced, restarts>>

StillRunning == tasks[job.task] # Absent /\ tasks[job.task].state = "running"

(* the work begins once the notice was delivered, and waits for the lock. The check of *)
(* the cancellation is polled with it, before its first model call returns             *)
BeginJob ==
    /\ job # Absent /\ job.stage = "claimed" /\ ~TurnRuns
    /\ StillRunning /\ Holds(job.inbox, job.generation)
    /\ job' = [job EXCEPT !.stage = "running"]
    /\ UNCHANGED <<authority, inbound, tasks, approved, harness_turn, fenced, restarts>>

(* a request answered without a model (a credential check, a contact report, a status, *)
(* one repository operation) starts its tool in the first poll of the work, which may  *)
(* come before that of the cancellation: the generation is the one the inbox has now,  *)
(* and a pause since the claim is not seen                                             *)
StartDirectly ==
    /\ job # Absent /\ job.stage = "claimed" /\ ~TurnRuns
    /\ job.inbox \in Active
    /\ job' = [job EXCEPT !.stage = "running"]
    /\ fenced' = (fenced /\ job.inbox \in Active)
    /\ UNCHANGED <<authority, inbound, tasks, approved, harness_turn, restarts>>

JobTool ==
    /\ JobRuns /\ Authorized(job.inbox, job.generation)
    /\ fenced' = (fenced /\ Holds(job.inbox, job.generation))
    /\ UNCHANGED <<authority, background, inbound, harness_turn, restarts>>

(* finish changes a registration only while it is still running *)
FinishesAnyway == tasks[job.task] # Absent
Finishes == StillRunning

(* the outcome; a failure, the 15 minutes, or the cancellation is an uncertain one *)
EndJob(success) ==
    /\ job # Absent /\ (success => job.stage = "running") /\ job' = Absent
    /\ IF Finishes
       THEN LET recurs == success /\ tasks[job.task].kind # "once" IN
            /\ tasks' = [tasks EXCEPT ![job.task].state =
                    IF recurs THEN "ready" ELSE IF success THEN "done" ELSE "paused"]
            /\ approved' = IF recurs /\ StillRunning THEN approved \cup {job.task} ELSE approved
       ELSE UNCHANGED <<tasks, approved>>
    /\ UNCHANGED <<authority, inbound, harness_turn, fenced, restarts>>

(* ---- crash and restart ---- *)

(* OperatorTasks::open: an interrupted run is never repeated by itself *)
ReopenedReady(task) == IF task.state = "running" THEN [task EXCEPT !.state = "ready"] ELSE task
Reopened(task) == IF task.state = "running" THEN [task EXCEPT !.state = "paused"] ELSE task

(* an imprint may be saved and its message not yet claimed; while the process is down *)
(* the host may revoke the operator or, when there is none, authorize one             *)
CrashAndRestart ==
    /\ restarts < MaxRestarts /\ restarts' = restarts + 1
    /\ operatorLane' = <<>> /\ publicLane' = <<>>
    /\ harness_turn' = Absent /\ pending' = Absent /\ job' = Absent
    /\ tasks' = [t \in Task |-> IF tasks[t] = Absent THEN Absent ELSE Reopened(tasks[t])]
    /\ \/ UNCHANGED operator_records
       \/ \E m \in DOMAIN sent \ claimed : operator_records' = Imprinted(m)
       \/ operator_records' = Revoked(operator_records)
       \/ \E i \in Principal : /\ Active \subseteq {i} /\ MayGrant(i)
                           /\ operator_records' = Granted(operator_records, i, Len(sent))
    /\ UNCHANGED <<sent, claimed, answers, starts, approved, fenced>>

AuthorityNext ==
    \/ \E i \in Principal : Send(i)
    \/ \E m \in Message : Deliver(m)
    \/ ServePublic \/ Refuse \/ DirectCommand \/ TaskCommand
    \/ PrepareTransfer \/ TakeTransfer \/ TransferAuthority
    \/ BeginTurn \/ TurnTool \/ EndTurn
    \/ EnsureReview \/ \E t \in Task : Claim(t)
    \/ BeginJob \/ StartDirectly \/ JobTool \/ \E success \in BOOLEAN : EndJob(success)
    \/ CrashAndRestart

AuthoritySpec == AuthorityInit /\ [][AuthorityNext]_authorityVars

(* No message is worked on or answered twice, however often it is delivered and *)
(* however often the runtime restarts between its claim and its answer          *)
(* (ProcessedMessages::claim before the dispatch of run_xmtp_sidecar).          *)
AtMostOnce == \A m \in Message : answers[m] <= 1 /\ starts[m] <= 1

(* A background task waits to run only if the operator asked for it, or its last *)
(* recurrence succeeded, since it was paused or a run of it ended in doubt: a    *)
(* crash, a timeout, a cancellation or a late finish never repeats effects by    *)
(* itself (OperatorTasks::open, claim, finish and command).                      *)
NeverSilentlyReplayed ==
    \A t \in Task : tasks[t] # Absent => (tasks[t].state = "ready" => t \in approved)

(* A tool of the harness starts only under the authorization its message or task *)
(* was accepted for, still in force: a transfer confirmed meanwhile, even one    *)
(* that came back, stops the work before its next tool. The one exception is the *)
(* tool of a task that needs no model: it starts under the authorization its     *)
(* inbox has then, and authority may have left and come back since the claim     *)
(* (OperatorHarness::respond_tracked, force_update_scheduled).                   *)
Fenced == fenced

(* Work is not done twice, nor for somebody who may no longer ask for it. *)
TasksOnce == AtMostOnce /\ NeverSilentlyReplayed /\ Fenced
====
