---------------------------- MODULE RuntimeProofs ----------------------------
(***************************************************************************)
(* Proofs about what runs in one Tentacle's process, for every set of      *)
(* inboxes and tasks and every limit: its supervisors, with or without     *)
(* relative and executor and whatever the kinds of notice; the authority   *)
(* of its operators, with the lanes their messages wait in and the tasks   *)
(* they start; the maintenance of its repository, for any changes and      *)
(* paths; and the check-ins of its Acolytes, for any intervals.            *)
(*                                                                         *)
(* No property of the supervisors is inductive: each speaks of the step    *)
(* that receipts or marks.  What makes that step right was established     *)
(* earlier, and SupervisorInv says what: which halves of the process are   *)
(* alive together, and what a batch of notices still owes to its answers.  *)
(* Nor is TasksOnce.  A message is answered once because it waits once;    *)
(* and a tool starts under the authority its message was admitted under    *)
(* because whoever gives authority away is the last that still has any in  *)
(* the lane.  AuthorityInv says both.  What leaves the checkout was        *)
(* validated because after the last check only its own steps touch it.     *)
(***************************************************************************)
EXTENDS Supervisor, Authority, Maintenance, Coaching, SequenceTheorems, TLAPS

(* The supervisors. *)


\* Without the process there is no transport, and without a transport that runs
\* there is no public turn.
ProcessSound ==
  /\ proc # "up" => transport = "off"
  /\ transport # "up" => ~turn
  /\ turn \in BOOLEAN

\* What a batch waits for is of its own kinds, none of which is marked yet, and a
\* positive answer is an answer to one of its notices.
BatchSound ==
  /\ needs \subseteq Kind /\ batch \subseteq Kind /\ operators \subseteq Inbox
  /\ batch \cap marked = {}
  /\ waiting \subseteq batch \X Inbox
  /\ acked => (batch \X Inbox) \cap delivered # {}
  /\ acked \in BOOLEAN

SupervisorInv == TypeOK /\ ProcessSound /\ BatchSound

-----------------------------------------------------------------------------
(* The ledger as the supervisor sees it. *)

\* reconcile_expired_death keeps the ledger well formed and leaves children alone.
LEMMA ReconciledType ==
  ASSUME TypeOK
  PROVE  /\ Reconciled \in [Action -> {"none", "open", "done"}]
         /\ Reconciled["spawn"] = intents["spawn"]
  BY DEF TypeOK, Reconciled, Action

\* Whatever ends the process lets the transport, its turn and the batch go.
LEMMA StopSound ==
  ASSUME SupervisorInv, Stop, UNCHANGED <<marked, needs, delivered, operators>>
  PROVE  ProcessSound' /\ BatchSound'
  BY DEF SupervisorInv, Stop, ProcessSound, BatchSound

-----------------------------------------------------------------------------
(* The invariant, one kind of step at a time. *)

\* Startup opens the stores and decides whether to serve.
LEMMA StartupKeeps ==
  ASSUME SupervisorInv,
         \/ CompleteBeforeStart \/ Serve \/ Survive
         \/ \E observed \in BOOLEAN : OpenStores(observed)
  PROVE  SupervisorInv'
  <1>0. TypeOK /\ ProcessSound /\ BatchSound
    BY DEF SupervisorInv
  <1>1. CASE CompleteBeforeStart
    <2>1. TypeOK'
      BY <1>0, <1>1, ReconciledType
         DEF CompleteBeforeStart, TypeOK, task, notices, people, Action
    <2> QED
      BY <1>0, <1>1, <2>1
         DEF CompleteBeforeStart, SupervisorInv, ProcessSound, BatchSound, task, notices, people
  <1>2. CASE Serve
    BY <1>0, <1>2 DEF Serve, SupervisorInv, TypeOK, ProcessSound, BatchSound,
                      lifecycle, task, people
  <1>3. CASE Survive
    BY <1>0, <1>3 DEF Survive, SupervisorInv, TypeOK, ProcessSound, BatchSound,
                      lifecycle, task, notices, people
  <1>4. ASSUME NEW observed \in BOOLEAN, OpenStores(observed) PROVE SupervisorInv'
    BY <1>0, <1>4 DEF OpenStores, SupervisorInv, TypeOK, ProcessSound, BatchSound,
                      lifecycle, notices, people
  <1> QED
    BY <1>1, <1>2, <1>3, <1>4

\* A tick of the supervisor reconciles, receipts and proposes.
LEMMA SuperviseKeeps ==
  ASSUME SupervisorInv, Supervise
  PROVE  SupervisorInv'
  <1>0. TypeOK /\ ProcessSound /\ BatchSound
    BY DEF SupervisorInv
  <1>a. /\ Reconciled \in [Action -> {"none", "open", "done"}]
        /\ "shutdown" \in Action
    BY <1>0, ReconciledType DEF Action
  <1>b. ASSUME UNCHANGED <<proc, turn, transport, notices, people>>
        PROVE  ProcessSound' /\ BatchSound'
    BY <1>0, <1>b DEF ProcessSound, BatchSound, notices, people
  <1>1. CASE Tick
    BY <1>0, <1>1, <1>b DEF Tick, SupervisorInv, TypeOK, lifecycle, notices, people
  <1>2. ASSUME NEW a \in Action, Select(a) PROVE SupervisorInv'
    <2>1. TypeOK'
      BY <1>0, <1>a, <1>2 DEF Select, TypeOK, notices, people
    <2> QED
      BY <1>2, <1>b, <2>1 DEF Select, SupervisorInv
  <1>3. CASE Poll
    BY <1>0, <1>3, <1>b DEF Poll, SupervisorInv, TypeOK, lifecycle, notices, people
  <1>4. CASE GiveUp
    BY <1>0, <1>4, <1>b DEF GiveUp, SupervisorInv, TypeOK, lifecycle, notices, people
  <1>5. CASE Answer
    BY <1>0, <1>5, <1>b DEF Answer, SupervisorInv, TypeOK, lifecycle, notices, people
  <1>6. CASE AcknowledgeExecutorReceipt
    <2>1. TypeOK'
      BY <1>0, <1>6 DEF AcknowledgeExecutorReceipt, TypeOK, notices, people
    <2> QED
      BY <1>6, <1>b, <2>1 DEF AcknowledgeExecutorReceipt, SupervisorInv
  <1>7. CASE Refresh
    BY <1>0, <1>a, <1>7, <1>b DEF Refresh, SupervisorInv, TypeOK, notices, people
  <1>8. CASE Interrupted
    BY <1>0, <1>a, <1>8, <1>b DEF Interrupted, SupervisorInv, TypeOK, notices, people
  <1>9. ASSUME NEW ok \in BOOLEAN, Observed(ok) PROVE SupervisorInv'
    <2>1. TypeOK'
      BY <1>0, <1>9 DEF Observed, TypeOK, notices, people
    <2> QED
      BY <1>9, <1>b, <2>1 DEF Observed, SupervisorInv
  <1> QED
    BY <1>1, <1>2, <1>3, <1>4, <1>5, <1>6, <1>7, <1>8, <1>9 DEF Supervise

\* A notice is announced, committed, answered and marked.
LEMMA NotifyKeeps ==
  ASSUME SupervisorInv, Notify
  PROVE  SupervisorInv'
  <1>0. TypeOK /\ ProcessSound /\ BatchSound
    BY DEF SupervisorInv
  <1>1. CASE Announce
    BY <1>0, <1>1 DEF Announce, SupervisorInv, TypeOK, ProcessSound, BatchSound,
                      lifecycle, task, people
  <1>2. CASE Commit
    BY <1>0, <1>2 DEF Commit, SupervisorInv, TypeOK, ProcessSound, BatchSound,
                      lifecycle, task, people
  <1>3. CASE Reflect
    BY <1>0, <1>3 DEF Reflect, SupervisorInv, TypeOK, ProcessSound, BatchSound,
                      lifecycle, task, notices
  <1>4. CASE Reflected
    BY <1>0, <1>4 DEF Reflected, SupervisorInv, TypeOK, ProcessSound, BatchSound,
                      lifecycle, task
  <1>5. ASSUME NEW k \in Kind, Need(k) PROVE SupervisorInv'
    BY <1>0, <1>5 DEF Need, SupervisorInv, TypeOK, ProcessSound, BatchSound,
                      lifecycle, task, people
  <1>6. ASSUME NEW n \in queue, NEW answer \in BOOLEAN, ClientAnswers(n, answer)
        PROVE  SupervisorInv'
    BY <1>0, <1>6 DEF ClientAnswers, CountsAsDelivered, SupervisorInv, TypeOK,
                      ProcessSound, BatchSound, lifecycle, task, people
  <1>7. ASSUME NEW n \in waiting, StopWaiting(n) PROVE SupervisorInv'
    BY <1>0, <1>7 DEF StopWaiting, SupervisorInv, TypeOK, ProcessSound, BatchSound,
                      lifecycle, task, people
  <1>8. ASSUME NEW i \in Inbox, Transfer(i) PROVE SupervisorInv'
    BY <1>0, <1>8 DEF Transfer, SupervisorInv, TypeOK, ProcessSound, BatchSound,
                      lifecycle, task, notices
  <1> QED
    BY <1>1, <1>2, <1>3, <1>4, <1>5, <1>6, <1>7, <1>8 DEF Notify

\* The world, and the end of the process.
Surroundings ==
  \/ Turn \/ Deadline \/ Age
  \/ \E a \in Proposals : Propose(a)
  \/ \E d \in Deadlines : Kill(d)

Ending ==
  \/ StopTransport \/ LoseTransport \/ FirstToEnd \/ AcknowledgeNativeShutdown
  \/ Return \/ Drained \/ Crash

\* Public turns, deadlines, transfers and what other people do.
LEMMA SurroundingsKeep ==
  ASSUME SupervisorInv, Surroundings
  PROVE  SupervisorInv'
  <1>0. TypeOK /\ ProcessSound /\ BatchSound
    BY DEF SupervisorInv
  <1>1. CASE Turn
    BY <1>0, <1>1 DEF Turn, SupervisorInv, TypeOK, ProcessSound, BatchSound,
                      lifecycle, task, notices, people
  <1>2. CASE Deadline
    BY <1>0, <1>2 DEF Deadline, SupervisorInv, TypeOK, ProcessSound, BatchSound,
                      task, notices, people
  <1>3. CASE Age
    BY <1>0, <1>3 DEF Age, SupervisorInv, TypeOK, ProcessSound, BatchSound,
                      lifecycle, notices, people
  <1>4. ASSUME NEW a \in Proposals, Propose(a) PROVE SupervisorInv'
    BY <1>0, <1>4 DEF Propose, SupervisorInv, TypeOK, ProcessSound, BatchSound,
                      task, notices, people
  <1>5. ASSUME NEW d \in Deadlines, Kill(d) PROVE SupervisorInv'
    BY <1>0, <1>5, SupervisorAssumption
       DEF Kill, SupervisorInv, TypeOK, ProcessSound, BatchSound, task, notices, people
  <1> QED
    BY <1>1, <1>2, <1>3, <1>4, <1>5 DEF Surroundings

\* The transport, the supervisor or the process ends.
LEMMA EndingKeeps ==
  ASSUME SupervisorInv, Ending
  PROVE  SupervisorInv'
  <1>0. TypeOK /\ ProcessSound /\ BatchSound
    BY DEF SupervisorInv
  <1>1. CASE StopTransport
    BY <1>0, <1>1 DEF StopTransport, SupervisorInv, TypeOK, ProcessSound, BatchSound,
                      lifecycle, task, notices, people
  <1>2. CASE LoseTransport
    BY <1>0, <1>2 DEF LoseTransport, SupervisorInv, TypeOK, ProcessSound, BatchSound,
                      lifecycle, task, notices, people
  <1>3. CASE FirstToEnd
    BY <1>0, <1>3 DEF FirstToEnd, SupervisorInv, TypeOK, ProcessSound, BatchSound,
                      lifecycle, task
  <1>4. CASE AcknowledgeNativeShutdown
    <2>1. TypeOK'
      BY <1>0, <1>4 DEF AcknowledgeNativeShutdown, Stop, TypeOK
    <2> QED
      BY <1>4, <2>1, StopSound DEF AcknowledgeNativeShutdown, SupervisorInv
  <1>5. CASE Return \/ Drained \/ Crash
    <2>1. Stop /\ UNCHANGED <<lifecycle, marked, needs, delivered, operators>>
      BY <1>5 DEF Return, Drained, Crash
    <2>2. TypeOK'
      BY <1>0, <2>1 DEF Stop, TypeOK, lifecycle
    <2> QED
      BY <2>1, <2>2, StopSound DEF SupervisorInv
  <1> QED
    BY <1>1, <1>2, <1>3, <1>4, <1>5 DEF Ending

\* The inductive invariant: what the process, its transport, its ledger and its
\* notices owe each other at every moment.
THEOREM ProcessConsistent == Spec => []SupervisorInv
  <1>1. Init => SupervisorInv
    BY DEF Init, SupervisorInv, TypeOK, ProcessSound, BatchSound, Action
  <1>2. SupervisorInv /\ [Next]_vars => SupervisorInv'
    <2> SUFFICES ASSUME SupervisorInv, [Next]_vars PROVE SupervisorInv'
      OBVIOUS
    <2>1. CASE UNCHANGED vars
      BY <2>1 DEF vars, SupervisorInv, TypeOK, ProcessSound, BatchSound
    <2>2. CASE Next
      BY <2>2, StartupKeeps, SuperviseKeeps, NotifyKeeps, SurroundingsKeep, EndingKeeps
         DEF Next, Surroundings, Ending
    <2> QED
      BY <2>1, <2>2
  <1> QED
    BY <1>1, <1>2, PTL DEF Spec

\* The variables that are typed keep their types.
THEOREM SupervisorTypeCorrect == Spec => []TypeOK
  <1>1. SupervisorInv => TypeOK
    BY DEF SupervisorInv
  <1> QED
    BY <1>1, ProcessConsistent, PTL

-----------------------------------------------------------------------------
(* The action properties. *)

\* Shutdown is receipted after the transport stopped and no public turn is left,
\* whichever of transport and supervisor ends first.
THEOREM ReceiptedAfterTheTransportHolds == Spec => ReceiptedAfterTheTransport
  <1> DEFINE Ordered == ~done /\ done' => transport # "up" /\ ~turn
  <1>1. SupervisorInv /\ [Next]_vars => [Ordered]_vars
    <2> SUFFICES ASSUME SupervisorInv, Next, ~done, done'
                 PROVE  transport # "up" /\ ~turn
      OBVIOUS
    <2>0. ProcessSound
      BY DEF SupervisorInv
    <2>1. CASE CompleteBeforeStart
      BY <2>0, <2>1 DEF CompleteBeforeStart, ProcessSound
    <2>2. ASSUME NEW a \in Action, Select(a) PROVE transport # "up" /\ ~turn
      BY <2>0, <2>2 DEF Select, ProcessSound
    <2>3. CASE AcknowledgeNativeShutdown
      BY <2>0, <2>3 DEF AcknowledgeNativeShutdown, Stopped, ProcessSound
    <2>4. done' = done \/ CompleteBeforeStart \/ AcknowledgeNativeShutdown
            \/ \E a \in Action : Select(a)
      BY DEF Next, Supervise, Notify, lifecycle, Serve, Survive, OpenStores,
             Tick, Poll, GiveUp, Answer, AcknowledgeExecutorReceipt, Refresh, Interrupted,
             Observed, Announce, Commit, Reflect, Reflected, Need, ClientAnswers,
             StopWaiting, Transfer, Turn, Deadline, Age, Propose, Kill, StopTransport,
             LoseTransport, FirstToEnd, Return, Drained, Crash
    <2> QED
      BY <2>1, <2>2, <2>3, <2>4
  <1> QED
    BY <1>1, ProcessConsistent, PTL DEF Spec, ReceiptedAfterTheTransport

\* No child enters the ledger while a Death binds, although its executor may have
\* answered before the Death did.
THEOREM NoChildAfterDeathHolds == Spec => NoChildAfterDeath
  <1> DEFINE Childless == intents["spawn"] # "done" /\ intents'["spawn"] = "done" => ~Pending
  <1>1. SupervisorInv /\ [Next]_vars => [Childless]_vars
    <2> SUFFICES ASSUME SupervisorInv, Next,
                        intents["spawn"] # "done", intents'["spawn"] = "done"
                 PROVE  ~Pending
      OBVIOUS
    <2>0. /\ TypeOK /\ intents \in [Action -> {"none", "open", "done"}]
          /\ Reconciled \in [Action -> {"none", "open", "done"}]
          /\ Reconciled["spawn"] # "done" /\ "spawn" \in Action
      BY ReconciledType DEF SupervisorInv, TypeOK, Action
    <2>1. CASE AcknowledgeExecutorReceipt
      BY <2>0, <2>1 DEF AcknowledgeExecutorReceipt, Accepted
    <2>2. ASSUME NEW a \in Action, Select(a) PROVE FALSE
      BY <2>0, <2>2 DEF Select
    <2>3. CASE CompleteBeforeStart \/ Refresh \/ Interrupted
      BY <2>0, <2>3 DEF CompleteBeforeStart, Refresh, Interrupted
    <2>4. ASSUME NEW ok \in BOOLEAN, Observed(ok) PROVE FALSE
      BY <2>0, <2>4 DEF Observed
    <2>5. ASSUME NEW a \in Proposals, Propose(a) PROVE FALSE
      BY <2>0, <2>5 DEF Propose
    <2>6. CASE AcknowledgeNativeShutdown
      BY <2>0, <2>6 DEF AcknowledgeNativeShutdown
    <2>7. \/ intents' = intents \/ AcknowledgeExecutorReceipt
          \/ CompleteBeforeStart \/ Refresh \/ Interrupted \/ AcknowledgeNativeShutdown
          \/ \E a \in Action : Select(a)
          \/ \E ok \in BOOLEAN : Observed(ok)
          \/ \E a \in Proposals : Propose(a)
      BY DEF Next, Supervise, Notify, lifecycle, Serve, Survive, OpenStores,
             Tick, Poll, GiveUp, Answer, Announce, Commit, Reflect, Reflected, Need,
             ClientAnswers, StopWaiting, Transfer, Turn, Deadline, Age, Kill,
             StopTransport, LoseTransport, FirstToEnd, Return, Drained, Crash
    <2> QED
      BY <2>1, <2>2, <2>3, <2>4, <2>5, <2>6, <2>7
  <1> QED
    BY <1>1, ProcessConsistent, PTL DEF Spec, NoChildAfterDeath

\* A kind of notice is marked only after the client delivered a notice of its
\* batch; a negative, a late or a lost answer marks nothing.
THEOREM MarkedAfterDeliveryHolds == Spec => MarkedAfterDelivery
  <1> DEFINE Justified == marked' # marked => ((marked' \ marked) \X Inbox) \cap delivered # {}
  <1>1. SupervisorInv /\ [Next]_vars => [Justified]_vars
    <2> SUFFICES ASSUME SupervisorInv, Next, marked' # marked
                 PROVE  ((marked' \ marked) \X Inbox) \cap delivered # {}
      OBVIOUS
    <2>1. Commit
      BY DEF Next, Supervise, Notify, CompleteBeforeStart, Serve, Survive, OpenStores,
             Tick, Select, Poll, GiveUp, Answer, AcknowledgeExecutorReceipt, Refresh,
             Interrupted, Observed, Announce, Reflect, Reflected, Need, ClientAnswers,
             StopWaiting, Transfer, Turn, Deadline, Age, Propose, Kill, StopTransport,
             LoseTransport, FirstToEnd, AcknowledgeNativeShutdown, Return, Drained, Crash,
             notices
    <2>2. acked /\ marked' = marked \cup batch
      BY <2>1 DEF Commit
    <2>3. marked' \ marked = batch
      BY <2>2 DEF SupervisorInv, BatchSound
    <2> QED
      BY <2>2, <2>3 DEF SupervisorInv, BatchSound
  <1> QED
    BY <1>1, ProcessConsistent, PTL DEF Spec, MarkedAfterDelivery

-----------------------------------------------------------------------------
(* The operators' authority. *)

Admission == [message: Message, role: {"user", "operator", "revoked", "stale"}]

AuthorityTypes ==
  /\ operator_records \in [Principal -> OperatorRecord \cup {Absent}]
  /\ sent \in Seq(Principal) /\ Len(sent) <= MaxMessages
  /\ claimed \subseteq 1 .. Len(sent)
  /\ operatorLane \in Seq(Admission) /\ publicLane \in Seq(Admission)
  /\ harness_turn \in HarnessTurn \cup {Absent}
  /\ pending \in TransferPlan \cup {Absent}
  /\ tasks \in [Task -> TaskRecord \cup {Absent}]
  /\ job \in TaskRun \cup {Absent}
  /\ answers \in [Message -> Nat] /\ starts \in [Message -> Nat]

\* What waits in a lane was claimed, waits once, and has not been answered.
Waits(lane) ==
  /\ \A k \in 1 .. Len(lane) :
       lane[k].message \in claimed /\ answers[lane[k].message] = 0
  /\ \A k, l \in 1 .. Len(lane) : lane[k].message = lane[l].message => k = l

\* Work has begun for no message that waits but the one whose turn it is.
LanesSound ==
  /\ Waits(operatorLane) /\ Waits(publicLane)
  /\ \A k \in 1 .. Len(operatorLane), l \in 1 .. Len(publicLane) :
       operatorLane[k].message # publicLane[l].message
  /\ \A k \in 1 .. Len(operatorLane) :
       starts[operatorLane[k].message] = 0 \/ (k = 1 /\ harness_turn # Absent)
  /\ \A k \in 1 .. Len(publicLane) : starts[publicLane[k].message] = 0
  /\ \A m \in Message : m \notin claimed => answers[m] = 0 /\ starts[m] = 0
  /\ harness_turn # Absent => operatorLane # <<>> /\ operatorLane[1].role = "operator"
  /\ AtMostOnce

\* A message whose writer has authority, given before it was written.
Trusted(m) == sent[m] \in Active /\ m > operator_records[sent[m]].boundary

Pinned(k) == operatorLane[k].role = "operator"
Writer(k) == sent[operatorLane[k].message]

\* At most one inbox has authority.  What was admitted as an operator's still is,
\* or its writer has no authority any more; and what still is comes last, so that
\* a transfer, asked by the first of the lane, leaves nothing trusted behind it.
OrderSound ==
  /\ \A i, j \in Active : i = j
  /\ \A k \in 1 .. Len(operatorLane) :
       Pinned(k) => /\ Writer(k) \in Known
                    /\ Trusted(operatorLane[k].message) \/ Writer(k) \notin Active
  /\ \A k, l \in 1 .. Len(operatorLane) :
       k < l /\ Pinned(k) /\ Pinned(l) /\ Trusted(operatorLane[k].message)
         => Trusted(operatorLane[l].message)
  /\ pending # Absent => pending.source # pending.target
  /\ harness_turn # Absent /\ harness_turn.stage = "confirming" =>
       harness_turn.target \in Principal /\ harness_turn.target # Writer(1)

AuthorityInv ==
  AuthorityTypes /\ LanesSound /\ OrderSound /\ NeverSilentlyReplayed /\ fenced = TRUE

-----------------------------------------------------------------------------
\* Only a trusted message has the role of an operator.
LEMMA RoleIs ==
  ASSUME NEW m
  PROVE  /\ Role(m) = "operator" <=> Trusted(m)
         /\ Role(m) \in {"user", "operator", "revoked", "stale"}
  BY DEF Role, Trusted, Known, Active

\* What is left of a lane when its first is taken.
LEMMA TailOf ==
  ASSUME NEW S, NEW s \in Seq(S), s # <<>>
  PROVE  /\ Head(s) = s[1] /\ Head(s) \in S /\ 1 \in 1 .. Len(s)
         /\ Tail(s) \in Seq(S) /\ Len(Tail(s)) = Len(s) - 1 /\ Len(s) \in Nat
         /\ \A k \in 1 .. Len(Tail(s)) : Tail(s)[k] = s[k + 1] /\ k + 1 \in 1 .. Len(s)
  BY HeadTailProperties, EmptySeq

\* What waits are messages.
LEMMA InLanes ==
  ASSUME AuthorityTypes
  PROVE  /\ \A k \in 1 .. Len(operatorLane) :
              operatorLane[k] \in Admission /\ operatorLane[k].message \in Message
         /\ \A k \in 1 .. Len(publicLane) :
              publicLane[k] \in Admission /\ publicLane[k].message \in Message
         /\ Len(operatorLane) \in Nat /\ Len(publicLane) \in Nat
  <1>1. \A k \in 1 .. Len(operatorLane) : operatorLane[k] \in Admission
    BY DEF AuthorityTypes
  <1>2. \A k \in 1 .. Len(publicLane) : publicLane[k] \in Admission
    BY DEF AuthorityTypes
  <1>3. \A a \in Admission : a.message \in Message
    BY DEF Admission
  <1>4. Len(operatorLane) \in Nat /\ Len(publicLane) \in Nat
    BY DEF AuthorityTypes
  <1> QED
    BY <1>1, <1>2, <1>3, <1>4

\* The message at the head of the operator lane is answered and leaves it.
LEMMA DoneKeepsLanes ==
  ASSUME AuthorityTypes, LanesSound, operatorLane # <<>>, Done,
         UNCHANGED <<sent, claimed, publicLane>>,
         starts' = starts \/ (harness_turn = Absent /\ Begun)
  PROVE  /\ LanesSound'
         /\ operatorLane' \in Seq(Admission)
         /\ answers' \in [Message -> Nat] /\ starts' \in [Message -> Nat]
  <1>1. /\ Head(operatorLane) = operatorLane[1]
        /\ operatorLane' = Tail(operatorLane) /\ Tail(operatorLane) \in Seq(Admission)
        /\ Len(operatorLane') = Len(operatorLane) - 1 /\ Len(operatorLane) \in Nat
        /\ 1 \in 1 .. Len(operatorLane)
        /\ \A k \in 1 .. Len(operatorLane') :
              operatorLane'[k] = operatorLane[k + 1] /\ k + 1 \in 1 .. Len(operatorLane)
    BY TailOf DEF AuthorityTypes, Done
  <1>2. /\ Current = operatorLane[1].message /\ Current \in Message /\ Current \in claimed
        /\ answers[Current] = 0
        /\ \A k \in 1 .. Len(operatorLane') : operatorLane'[k].message # Current
        /\ \A k \in 1 .. Len(publicLane) : publicLane[k].message # Current
        /\ \A k \in 1 .. Len(operatorLane') : operatorLane'[k].message \in Message
        /\ \A k \in 1 .. Len(publicLane) : publicLane[k].message \in Message
    <2>1. Current = operatorLane[1].message
      BY <1>1 DEF Current
    <2>2. \A k \in 1 .. Len(operatorLane) : operatorLane[k] \in Admission
      BY DEF AuthorityTypes
    <2>3. \A k \in 1 .. Len(publicLane) : publicLane[k] \in Admission
      BY DEF AuthorityTypes
    <2>4. \A k \in 1 .. Len(operatorLane') : operatorLane'[k].message # Current
      BY <1>1, <2>1 DEF LanesSound, Waits
    <2> QED
      BY <1>1, <2>1, <2>2, <2>3, <2>4 DEF LanesSound, Waits, Admission
  <1>3. /\ answers' \in [Message -> Nat] /\ answers'[Current] = 1
        /\ \A m \in Message : m # Current => answers'[m] = answers[m]
    BY <1>2 DEF Done, Answered, AuthorityTypes
  <1>4. /\ starts' \in [Message -> Nat] /\ starts'[Current] <= 1
        /\ \A m \in Message : m # Current => starts'[m] = starts[m]
    <2>1. CASE starts' = starts
      BY <1>2, <2>1 DEF AuthorityTypes, LanesSound, AtMostOnce
    <2>2. CASE harness_turn = Absent /\ Begun
      <3>1. starts[Current] = 0
        BY <1>1, <1>2, <2>2 DEF LanesSound
      <3> QED
        BY <1>2, <2>2, <3>1 DEF Begun, AuthorityTypes
    <2> QED
      BY <2>1, <2>2
  <1>5. Waits(operatorLane)'
    <2>1. ASSUME NEW k \in 1 .. Len(operatorLane')
          PROVE  operatorLane'[k].message \in claimed' /\ answers'[operatorLane'[k].message] = 0
      BY <1>1, <1>2, <1>3, <2>1 DEF LanesSound, Waits
    <2>2. ASSUME NEW k \in 1 .. Len(operatorLane'), NEW l \in 1 .. Len(operatorLane'),
                 operatorLane'[k].message = operatorLane'[l].message
          PROVE  k = l
      <3>1. k + 1 = l + 1
        BY <1>1, <2>2 DEF LanesSound, Waits
      <3> QED
        BY <3>1
    <2> QED
      BY <2>1, <2>2 DEF Waits
  <1>6. Waits(publicLane)'
    BY <1>2, <1>3 DEF LanesSound, Waits
  <1>7. \A k \in 1 .. Len(operatorLane') : starts'[operatorLane'[k].message] = 0
    <2> TAKE k \in 1 .. Len(operatorLane')
    <2>1. operatorLane'[k] = operatorLane[k + 1] /\ k + 1 \in 1 .. Len(operatorLane) /\ k + 1 # 1
      BY <1>1
    <2>2. starts[operatorLane[k + 1].message] = 0
      BY <2>1 DEF LanesSound
    <2> QED
      BY <1>2, <1>4, <2>1, <2>2
  <1>8. \A k \in 1 .. Len(publicLane') : starts'[publicLane'[k].message] = 0
    BY <1>2, <1>4 DEF LanesSound
  <1>9. \A m \in Message : m \notin claimed' => answers'[m] = 0 /\ starts'[m] = 0
    BY <1>2, <1>3, <1>4 DEF LanesSound
  <1>10. AtMostOnce'
    BY <1>3, <1>4 DEF LanesSound, AtMostOnce
  <1>11. \A k \in 1 .. Len(operatorLane'), l \in 1 .. Len(publicLane') :
            operatorLane'[k].message # publicLane'[l].message
    BY <1>1 DEF LanesSound
  <1> QED
    BY <1>1, <1>3, <1>4, <1>5, <1>6, <1>7, <1>8, <1>9, <1>10, <1>11 DEF LanesSound, Done

\* What is left in the lane keeps its order and its standing.
LEMMA DoneKeepsOrder ==
  ASSUME AuthorityTypes, LanesSound, OrderSound, operatorLane # <<>>, Done,
         UNCHANGED <<sent, operator_records>>,
         pending' # Absent => pending'.source # pending'.target
  PROVE  OrderSound'
  <1>1. /\ operatorLane' = Tail(operatorLane)
        /\ Len(operatorLane') = Len(operatorLane) - 1 /\ Len(operatorLane) \in Nat
        /\ \A k \in 1 .. Len(operatorLane') :
              operatorLane'[k] = operatorLane[k + 1] /\ k + 1 \in 1 .. Len(operatorLane)
    BY TailOf DEF AuthorityTypes, Done
  <1>2. Active' = Active /\ Known' = Known /\ \A m : Trusted(m)' = Trusted(m)
    BY DEF Active, Known, Trusted
  <1>3. ASSUME NEW k \in 1 .. Len(operatorLane'), Pinned(k)'
        PROVE  /\ Writer(k)' \in Known'
               /\ Trusted(operatorLane[k].message)' \/ Writer(k)' \notin Active'
    BY <1>1, <1>2, <1>3 DEF OrderSound, Pinned, Writer, Trusted
  <1>4. ASSUME NEW k \in 1 .. Len(operatorLane'), NEW l \in 1 .. Len(operatorLane'),
               k < l, Pinned(k)', Pinned(l)', Trusted(operatorLane[k].message)'
        PROVE  Trusted(operatorLane[l].message)'
    <2>1. /\ k + 1 \in 1 .. Len(operatorLane) /\ l + 1 \in 1 .. Len(operatorLane) /\ k + 1 < l + 1
          /\ Pinned(k + 1) /\ Pinned(l + 1) /\ Trusted(operatorLane[k + 1].message)
      BY <1>1, <1>2, <1>4 DEF Pinned, Trusted
    <2>2. Trusted(operatorLane[l + 1].message)
      BY <2>1 DEF OrderSound
    <2> QED
      BY <1>1, <1>2, <2>2 DEF Trusted
  <1> QED
    BY <1>2, <1>3, <1>4 DEF OrderSound, Done

\* The invariant of what an answer touches, when authority and tasks stay.
LEMMA DoneKeeps ==
  ASSUME AuthorityInv, operatorLane # <<>>, Done, UNCHANGED <<sent, claimed, publicLane, fenced>>,
         starts' = starts \/ (harness_turn = Absent /\ Begun),
         UNCHANGED <<operator_records, job>>,
         tasks' \in [Task -> TaskRecord \cup {Absent}], NeverSilentlyReplayed',
         pending' \in TransferPlan \cup {Absent},
         pending' # Absent => pending'.source # pending'.target
  PROVE  AuthorityInv'
  <1>1. /\ LanesSound' /\ operatorLane' \in Seq(Admission)
        /\ answers' \in [Message -> Nat] /\ starts' \in [Message -> Nat]
    BY DoneKeepsLanes DEF AuthorityInv
  <1>2. OrderSound'
    BY DoneKeepsOrder DEF AuthorityInv
  <1>3. AuthorityTypes'
    BY <1>1 DEF AuthorityInv, AuthorityTypes, Done
  <1> QED
    BY <1>1, <1>2, <1>3 DEF AuthorityInv

\* A public message is answered and leaves its lane.
LEMMA PopPublic ==
  ASSUME AuthorityInv, ServePublic
  PROVE  AuthorityInv'
  <1>1. /\ publicLane # <<>> /\ publicLane' = Tail(publicLane)
        /\ Head(publicLane) = publicLane[1] /\ Tail(publicLane) \in Seq(Admission)
        /\ Len(publicLane') = Len(publicLane) - 1 /\ Len(publicLane) \in Nat
        /\ 1 \in 1 .. Len(publicLane) /\ publicLane[1] \in Admission
        /\ \A k \in 1 .. Len(publicLane') :
              publicLane'[k] = publicLane[k + 1] /\ k + 1 \in 1 .. Len(publicLane)
    BY TailOf DEF AuthorityInv, AuthorityTypes, ServePublic
  <1> DEFINE m == publicLane[1].message
  <1>2. /\ m \in Message /\ m \in claimed /\ answers[m] = 0 /\ starts[m] = 0
        /\ \A k \in 1 .. Len(publicLane') : publicLane'[k].message # m
        /\ \A k \in 1 .. Len(operatorLane) : operatorLane[k].message # m
    BY <1>1 DEF AuthorityInv, LanesSound, Waits, Admission
  <1>3. /\ \A k \in 1 .. Len(publicLane') : publicLane'[k].message \in Message
        /\ \A k \in 1 .. Len(operatorLane) : operatorLane[k].message \in Message
    BY <1>1, InLanes DEF AuthorityInv
  <1>4. answers' = [answers EXCEPT ![m] = @ + 1] /\ starts' = [starts EXCEPT ![m] = @ + 1]
    BY <1>1 DEF ServePublic, Answered
  <1>5. /\ answers' \in [Message -> Nat] /\ answers'[m] = 1
        /\ starts' \in [Message -> Nat] /\ starts'[m] = 1
        /\ \A n \in Message : n # m => answers'[n] = answers[n] /\ starts'[n] = starts[n]
    BY <1>2, <1>4 DEF AuthorityInv, AuthorityTypes
  <1>6. UNCHANGED <<authority, background, sent, claimed, operatorLane, harness_turn, fenced>>
    BY DEF ServePublic
  <1> HIDE DEF m
  <1>7. AuthorityTypes'
    BY <1>1, <1>5, <1>6 DEF AuthorityInv, AuthorityTypes, authority, background
  <1>8. Waits(publicLane)'
    <2>1. ASSUME NEW k \in 1 .. Len(publicLane')
          PROVE  publicLane'[k].message \in claimed' /\ answers'[publicLane'[k].message] = 0
      BY <1>1, <1>2, <1>3, <1>5, <1>6 DEF AuthorityInv, LanesSound, Waits
    <2>2. ASSUME NEW k \in 1 .. Len(publicLane'), NEW l \in 1 .. Len(publicLane'),
                 publicLane'[k].message = publicLane'[l].message
          PROVE  k = l
      <3>1. k + 1 = l + 1
        BY <1>1, <2>2 DEF AuthorityInv, LanesSound, Waits
      <3> QED
        BY <3>1
    <2> QED
      BY <2>1, <2>2 DEF Waits
  <1>9. Waits(operatorLane)'
    BY <1>2, <1>3, <1>5, <1>6 DEF AuthorityInv, LanesSound, Waits
  <1>10. \A k \in 1 .. Len(operatorLane') :
            starts'[operatorLane'[k].message] = 0 \/ (k = 1 /\ harness_turn' # Absent)
    BY <1>2, <1>3, <1>5, <1>6 DEF AuthorityInv, LanesSound
  <1>11. \A k \in 1 .. Len(publicLane') : starts'[publicLane'[k].message] = 0
    BY <1>1, <1>2, <1>3, <1>5 DEF AuthorityInv, LanesSound
  <1>12. \A n \in Message : n \notin claimed' => answers'[n] = 0 /\ starts'[n] = 0
    BY <1>2, <1>5, <1>6 DEF AuthorityInv, LanesSound
  <1>13. AtMostOnce'
    BY <1>5 DEF AuthorityInv, LanesSound, AtMostOnce
  <1>14. \A k \in 1 .. Len(operatorLane'), l \in 1 .. Len(publicLane') :
            operatorLane'[k].message # publicLane'[l].message
    BY <1>1, <1>6 DEF AuthorityInv, LanesSound
  <1>15. LanesSound'
    BY <1>6, <1>8, <1>9, <1>10, <1>11, <1>12, <1>13, <1>14 DEF AuthorityInv, LanesSound
  <1>16. OrderSound'
    BY <1>6 DEF AuthorityInv, OrderSound, Pinned, Writer, Trusted, Active, Known, authority
  <1>17. NeverSilentlyReplayed'
    BY <1>6 DEF AuthorityInv, NeverSilentlyReplayed, background
  <1> QED
    BY <1>6, <1>7, <1>15, <1>16, <1>17 DEF AuthorityInv

-----------------------------------------------------------------------------
\* A message is claimed: turned away, or put at the end of a lane.
LEMMA DeliverKeeps ==
  ASSUME AuthorityInv, NEW m \in Message, Deliver(m)
  PROVE  AuthorityInv'
  <1>1. /\ m \in 1 .. Len(sent) /\ m \notin claimed /\ claimed' = claimed \cup {m}
        /\ sent[m] \in Principal
        /\ UNCHANGED <<tasks, job, approved, pending, sent, starts, harness_turn, fenced>>
    BY DEF AuthorityInv, AuthorityTypes, Deliver, FirstDelivery, background
  <1>2. /\ answers[m] = 0 /\ starts[m] = 0
        /\ \A k \in 1 .. Len(operatorLane) : operatorLane[k].message # m
        /\ \A k \in 1 .. Len(publicLane) : publicLane[k].message # m
        /\ \A k \in 1 .. Len(operatorLane) :
              operatorLane[k].message \in Message /\ operatorLane[k] \in Admission
        /\ \A k \in 1 .. Len(publicLane) : publicLane[k].message \in Message
    BY <1>1, InLanes DEF AuthorityInv, LanesSound, Waits
  \* the lanes
  <1>3. /\ operatorLane' \in Seq(Admission) /\ publicLane' \in Seq(Admission)
        /\ answers' \in [Message -> Nat]
        /\ \A n \in Message : n # m => answers'[n] = answers[n]
        /\ answers'[m] <= 1
        /\ \/ /\ answers'[m] = 1 /\ operatorLane' = operatorLane /\ publicLane' = publicLane
           \/ /\ answers' = answers /\ operatorLane' = operatorLane
              /\ Len(publicLane') = Len(publicLane) + 1
              /\ \A k \in 1 .. Len(publicLane) : publicLane'[k] = publicLane[k]
              /\ publicLane'[Len(publicLane) + 1].message = m
           \/ /\ answers' = answers /\ publicLane' = publicLane
              /\ Len(operatorLane') = Len(operatorLane) + 1
              /\ \A k \in 1 .. Len(operatorLane) : operatorLane'[k] = operatorLane[k]
              /\ operatorLane'[Len(operatorLane) + 1] = [message |-> m, role |-> Role(m)]
              /\ Role(m) # "user"
    <2>1. [message |-> m, role |-> "user"] \in Admission
      BY DEF Admission
    <2>2. [message |-> m, role |-> Role(m)] \in Admission
      BY RoleIs DEF Admission
    <2>3. CASE Len(operatorLane) + Len(publicLane) >= MAX_PENDING_TASKS
      BY <1>2, <2>3 DEF Deliver, Answered, AuthorityInv, AuthorityTypes
    <2>4. CASE ~(Len(operatorLane) + Len(publicLane) >= MAX_PENDING_TASKS)
      <3>1. answers' = answers
        BY <2>4 DEF Deliver
      <3>2. CASE Role(m) = "user"
        <4>1. publicLane' = Append(publicLane, [message |-> m, role |-> "user"])
              /\ operatorLane' = operatorLane
          BY <2>4, <3>2 DEF Deliver
        <4> QED
          BY <1>2, <2>1, <3>1, <4>1, AppendProperties DEF AuthorityInv, AuthorityTypes
      <3>3. CASE Role(m) # "user"
        <4>1. operatorLane' = Append(operatorLane, [message |-> m, role |-> Role(m)])
              /\ publicLane' = publicLane
          BY <2>4, <3>3 DEF Deliver
        <4> QED
          BY <1>2, <2>2, <3>1, <3>3, <4>1, AppendProperties DEF AuthorityInv, AuthorityTypes
      <3> QED
        BY <3>2, <3>3
    <2> QED
      BY <2>3, <2>4
  <1>4. LanesSound'
    <2>0. Len(operatorLane) \in Nat /\ Len(publicLane) \in Nat
      BY DEF AuthorityInv, AuthorityTypes
    <2>a. \A k \in 1 .. Len(publicLane') :
             \/ k \in 1 .. Len(publicLane) /\ publicLane'[k] = publicLane[k]
             \/ k = Len(publicLane) + 1 /\ publicLane'[k].message = m
      BY <1>3, <2>0
    <2>b. \A k \in 1 .. Len(operatorLane') :
             \/ k \in 1 .. Len(operatorLane) /\ operatorLane'[k] = operatorLane[k]
             \/ k = Len(operatorLane) + 1 /\ operatorLane'[k].message = m
      BY <1>3, <2>0
    <2>1. Waits(operatorLane)'
      <3>1. ASSUME NEW k \in 1 .. Len(operatorLane')
            PROVE  /\ operatorLane'[k].message \in claimed'
                   /\ answers'[operatorLane'[k].message] = 0
        <4>1. CASE k \in 1 .. Len(operatorLane) /\ operatorLane'[k] = operatorLane[k]
          <5>1. operatorLane[k].message \in claimed /\ answers[operatorLane[k].message] = 0
            BY <4>1 DEF AuthorityInv, LanesSound, Waits
          <5>2. answers'[operatorLane[k].message] = answers[operatorLane[k].message]
            BY <1>2, <1>3, <4>1
          <5> QED
            BY <1>1, <4>1, <5>1, <5>2
        <4>2. CASE operatorLane'[k].message = m /\ answers' = answers
          BY <1>1, <1>2, <4>2
        <4> QED
          BY <1>3, <2>0, <4>1, <4>2
      <3>2. ASSUME NEW k \in 1 .. Len(operatorLane'), NEW l \in 1 .. Len(operatorLane'),
                   operatorLane'[k].message = operatorLane'[l].message
            PROVE  k = l
        <4>1. \A i, j \in 1 .. Len(operatorLane) :
                 operatorLane[i].message = operatorLane[j].message => i = j
          BY DEF AuthorityInv, LanesSound, Waits
        <4> QED
          BY <1>2, <2>b, <3>2, <4>1
      <3> QED
        BY <3>1, <3>2 DEF Waits
    <2>2. Waits(publicLane)'
      <3>1. ASSUME NEW k \in 1 .. Len(publicLane')
            PROVE  /\ publicLane'[k].message \in claimed'
                   /\ answers'[publicLane'[k].message] = 0
        <4>1. CASE k \in 1 .. Len(publicLane) /\ publicLane'[k] = publicLane[k]
          <5>1. publicLane[k].message \in claimed /\ answers[publicLane[k].message] = 0
            BY <4>1 DEF AuthorityInv, LanesSound, Waits
          <5>2. answers'[publicLane[k].message] = answers[publicLane[k].message]
            BY <1>2, <1>3, <4>1
          <5> QED
            BY <1>1, <4>1, <5>1, <5>2
        <4>2. CASE publicLane'[k].message = m /\ answers' = answers
          BY <1>1, <1>2, <4>2
        <4> QED
          BY <1>3, <2>0, <4>1, <4>2
      <3>2. ASSUME NEW k \in 1 .. Len(publicLane'), NEW l \in 1 .. Len(publicLane'),
                   publicLane'[k].message = publicLane'[l].message
            PROVE  k = l
        <4>1. \A i, j \in 1 .. Len(publicLane) :
                 publicLane[i].message = publicLane[j].message => i = j
          BY DEF AuthorityInv, LanesSound, Waits
        <4> QED
          BY <1>2, <2>a, <3>2, <4>1
      <3> QED
        BY <3>1, <3>2 DEF Waits
    <2>3. \A k \in 1 .. Len(operatorLane'), l \in 1 .. Len(publicLane') :
             operatorLane'[k].message # publicLane'[l].message
      <3>1. operatorLane' = operatorLane \/ publicLane' = publicLane
        BY <1>3
      <3>2. \A k \in 1 .. Len(operatorLane), l \in 1 .. Len(publicLane) :
               operatorLane[k].message # publicLane[l].message
        BY DEF AuthorityInv, LanesSound
      <3>3. ASSUME NEW k \in 1 .. Len(operatorLane'), NEW l \in 1 .. Len(publicLane')
            PROVE  operatorLane'[k].message # publicLane'[l].message
        <4>1. CASE operatorLane' = operatorLane
          <5>1. k \in 1 .. Len(operatorLane) /\ operatorLane'[k].message # m
            BY <1>2, <4>1
          <5> QED
            BY <2>a, <3>2, <4>1, <5>1
        <4>2. CASE publicLane' = publicLane
          <5>1. l \in 1 .. Len(publicLane) /\ publicLane'[l].message # m
            BY <1>2, <4>2
          <5> QED
            BY <2>b, <3>2, <4>2, <5>1
        <4> QED
          BY <3>1, <4>1, <4>2
      <3> QED
        BY <3>3
    <2>4. \A k \in 1 .. Len(operatorLane') :
             starts'[operatorLane'[k].message] = 0 \/ (k = 1 /\ harness_turn' # Absent)
      BY <1>1, <1>2, <1>3, <2>0 DEF AuthorityInv, LanesSound
    <2>5. \A k \in 1 .. Len(publicLane') : starts'[publicLane'[k].message] = 0
      BY <1>1, <1>2, <1>3, <2>0 DEF AuthorityInv, LanesSound
    <2>6. \A n \in Message : n \notin claimed' => answers'[n] = 0 /\ starts'[n] = 0
      BY <1>1, <1>2, <1>3 DEF AuthorityInv, LanesSound
    <2>7. AtMostOnce'
      BY <1>1, <1>2, <1>3 DEF AuthorityInv, LanesSound, AtMostOnce
    <2>8. harness_turn' # Absent => operatorLane' # <<>> /\ operatorLane'[1].role = "operator"
      <3>1. CASE operatorLane' = operatorLane
        BY <1>1, <3>1 DEF AuthorityInv, LanesSound
      <3>2. CASE /\ Len(operatorLane') = Len(operatorLane) + 1
                 /\ \A k \in 1 .. Len(operatorLane) : operatorLane'[k] = operatorLane[k]
        <4>1. harness_turn # Absent => 1 \in 1 .. Len(operatorLane)
          BY EmptySeq DEF AuthorityInv, LanesSound, AuthorityTypes
        <4> QED
          BY <1>1, <1>3, <2>0, <3>2, <4>1, EmptySeq DEF AuthorityInv, LanesSound
      <3> QED
        BY <1>3, <3>1, <3>2
    <2> QED
      BY <2>1, <2>2, <2>3, <2>4, <2>5, <2>6, <2>7, <2>8 DEF LanesSound
  \* the operators
  <1>5. /\ operator_records' \in [Principal -> OperatorRecord \cup {Absent}]
        /\ \/ operator_records' = operator_records
           \/ Known = {} /\ Known' = {sent[m]} /\ Active' = {sent[m]}
    <2>1. CASE Known = {}
      <3>1. operator_records' = Granted(operator_records, sent[m], m)
        BY <2>1 DEF Deliver, Imprinted
      <3>2. \A i \in Principal : operator_records[i] = Absent
        BY <2>1 DEF Known
      <3>3. operator_records' = [operator_records EXCEPT ![sent[m]] =
                [status |-> "active", boundary |-> m, generation |-> 1]]
        BY <1>1, <3>1, <3>2 DEF Granted
      <3>4. [status |-> "active", boundary |-> m, generation |-> 1] \in OperatorRecord
        BY DEF OperatorRecord, Message
      <3> QED
        BY <1>1, <2>1, <3>2, <3>3, <3>4, AuthorityAssumption
           DEF AuthorityInv, AuthorityTypes, AuthorityParameters, Known, Active
    <2>2. CASE Known # {}
      BY <2>2 DEF Deliver, Imprinted, AuthorityInv, AuthorityTypes
    <2> QED
      BY <2>1, <2>2
  <1>6. OrderSound'
    <2>0. Len(operatorLane) \in Nat
      BY DEF AuthorityInv, AuthorityTypes
    <2>1. CASE operator_records' = operator_records
      <3>1. Known' = Known /\ Active' = Active /\ \A n : Trusted(n)' = Trusted(n)
        BY <1>1, <2>1 DEF Known, Active, Trusted
      <3>2. ASSUME operatorLane' # operatorLane, Role(m) = "operator"
            PROVE  Trusted(m) /\ sent[m] \in Known
        BY <3>2, RoleIs DEF Trusted, Active
      <3>3. ASSUME NEW k \in 1 .. Len(operatorLane'), Pinned(k)'
            PROVE  /\ Writer(k)' \in Known'
                   /\ Trusted(operatorLane[k].message)' \/ Writer(k)' \notin Active'
        <4>1. CASE k \in 1 .. Len(operatorLane) /\ operatorLane'[k] = operatorLane[k]
          BY <1>1, <3>1, <3>3, <4>1
             DEF AuthorityInv, OrderSound, Pinned, Writer, Trusted
        <4>2. CASE operatorLane'[k] = [message |-> m, role |-> Role(m)]
                   /\ operatorLane' # operatorLane
          BY <1>1, <3>1, <3>2, <3>3, <4>2 DEF Pinned, Writer, Trusted
        <4> QED
          BY <1>3, <2>0, <4>1, <4>2
      <3>4. ASSUME NEW k \in 1 .. Len(operatorLane'), NEW l \in 1 .. Len(operatorLane'),
                   k < l, Pinned(k)', Pinned(l)', Trusted(operatorLane[k].message)'
            PROVE  Trusted(operatorLane[l].message)'
        <4>1. CASE l \in 1 .. Len(operatorLane) /\ operatorLane'[l] = operatorLane[l]
          <5>1. k \in 1 .. Len(operatorLane) /\ operatorLane'[k] = operatorLane[k]
            BY <1>3, <2>0, <3>4, <4>1
          <5> QED
            BY <1>1, <2>1, <3>4, <4>1, <5>1
               DEF AuthorityInv, OrderSound, Pinned, Trusted, Active, Known
        <4>2. CASE operatorLane'[l] = [message |-> m, role |-> Role(m)]
                   /\ operatorLane' # operatorLane
          BY <1>1, <2>1, <3>2, <3>4, <4>2 DEF Pinned, Trusted, Active, Known
        <4> QED
          BY <1>3, <2>0, <4>1, <4>2
      <3>5. harness_turn' # Absent /\ harness_turn'.stage = "confirming" =>
              harness_turn'.target \in Principal /\ harness_turn'.target # Writer(1)'
        <4>1. harness_turn # Absent => 1 \in 1 .. Len(operatorLane)
          BY EmptySeq DEF AuthorityInv, LanesSound, AuthorityTypes
        <4>2. 1 \in 1 .. Len(operatorLane) => operatorLane'[1] = operatorLane[1]
          BY <1>3
        <4> QED
          BY <1>1, <4>1, <4>2 DEF AuthorityInv, OrderSound, Writer
      <3> QED
        BY <1>1, <3>1, <3>3, <3>4, <3>5 DEF AuthorityInv, OrderSound
    <2>2. CASE Known = {} /\ Known' = {sent[m]} /\ Active' = {sent[m]}
      <3>1. \A k \in 1 .. Len(operatorLane) : ~Pinned(k)
        BY <2>2 DEF AuthorityInv, OrderSound
      <3>2. Role(m) # "operator"
        BY <2>2, RoleIs DEF Trusted, Active
      <3>3. \A k \in 1 .. Len(operatorLane') : ~Pinned(k)'
        BY <1>3, <2>0, <3>1, <3>2 DEF Pinned
      <3>4. harness_turn = Absent
        <4>1. harness_turn # Absent => 1 \in 1 .. Len(operatorLane) /\ Pinned(1)
          BY EmptySeq DEF AuthorityInv, LanesSound, AuthorityTypes, Pinned
        <4> QED
          BY <3>1, <4>1
      <3> QED
        BY <1>1, <2>2, <3>3, <3>4 DEF AuthorityInv, OrderSound
    <2> QED
      BY <1>5, <2>1, <2>2
  <1>7. AuthorityTypes'
    BY <1>1, <1>3, <1>5 DEF AuthorityInv, AuthorityTypes
  <1>8. NeverSilentlyReplayed'
    BY <1>1 DEF AuthorityInv, NeverSilentlyReplayed
  <1> QED
    BY <1>1, <1>4, <1>6, <1>7, <1>8 DEF AuthorityInv

-----------------------------------------------------------------------------
\* Somebody writes: what waits is older.
LEMMA SendKeeps ==
  ASSUME AuthorityInv, NEW i \in Principal, Send(i)
  PROVE  AuthorityInv'
  <1>1. /\ sent \in Seq(Principal) /\ sent' \in Seq(Principal) /\ Len(sent') = Len(sent) + 1
        /\ Len(sent) \in Nat /\ \A m \in 1 .. Len(sent) : sent'[m] = sent[m]
    BY AppendProperties DEF AuthorityInv, AuthorityTypes, Send
  <1>2. Len(sent') <= MaxMessages
    BY <1>1, AuthorityAssumption DEF Send, AuthorityParameters
  <1>3. UNCHANGED <<authority, background, claimed, operatorLane, publicLane, answers, starts,
                    harness_turn, fenced>>
    BY DEF Send
  <1>4. \A k \in 1 .. Len(operatorLane) :
          operatorLane[k].message \in 1 .. Len(sent)
    BY DEF AuthorityInv, AuthorityTypes, LanesSound, Waits
  <1>5. /\ Known' = Known /\ Active' = Active
        /\ \A k \in 1 .. Len(operatorLane) :
              /\ Writer(k)' = Writer(k) /\ Pinned(k)' = Pinned(k)
              /\ Trusted(operatorLane[k].message)' = Trusted(operatorLane[k].message)
    BY <1>1, <1>3, <1>4 DEF Known, Active, Writer, Pinned, Trusted, authority
  <1>6. AuthorityTypes'
    BY <1>1, <1>2, <1>3 DEF AuthorityInv, AuthorityTypes, authority, background
  <1>7. LanesSound' /\ NeverSilentlyReplayed'
    BY <1>3 DEF AuthorityInv, LanesSound, Waits, AtMostOnce, NeverSilentlyReplayed, background
  <1>8. OrderSound'
    <2>1. harness_turn # Absent => 1 \in 1 .. Len(operatorLane)
      BY EmptySeq DEF AuthorityInv, LanesSound, AuthorityTypes
    <2> QED
      BY <1>3, <1>5, <2>1 DEF AuthorityInv, OrderSound, authority
  <1> QED
    BY <1>3, <1>6, <1>7, <1>8 DEF AuthorityInv

\* A step that leaves authority, messages and lanes alone.
LEMMA AsideKeeps ==
  ASSUME AuthorityInv, UNCHANGED <<authority, inbound, fenced>>,
         tasks' \in [Task -> TaskRecord \cup {Absent}], job' \in TaskRun \cup {Absent},
         NeverSilentlyReplayed', harness_turn' = harness_turn
  PROVE  AuthorityInv'
  <1>1. AuthorityTypes'
    BY DEF AuthorityInv, AuthorityTypes, authority, inbound
  <1>2. LanesSound'
    BY DEF AuthorityInv, LanesSound, Waits, AtMostOnce, inbound
  <1>3. OrderSound'
    BY DEF AuthorityInv, OrderSound, Known, Active, Writer, Pinned, Trusted, authority, inbound
  <1> QED
    BY <1>1, <1>2, <1>3 DEF AuthorityInv

\* A turn of the harness begins for the message at the head.
LEMMA TurnBegins ==
  ASSUME AuthorityInv, Admitted, Begun, NEW target \in Principal \cup {Absent}, NEW stage,
         UNCHANGED <<operator_records, background, sent, claimed, operatorLane, publicLane,
                     answers, fenced>>,
         harness_turn' = [stage |-> stage, generation |-> Generation, target |-> target],
         stage = "running" \/ (stage = "confirming" /\ target \in Principal \ {Sender}),
         pending' \in {pending, Absent}
  PROVE  AuthorityInv'
  <1>1. /\ operatorLane # <<>> /\ harness_turn = Absent /\ operatorLane[1].role = "operator"
        /\ Current = operatorLane[1].message /\ 1 \in 1 .. Len(operatorLane)
        /\ Current \in Message /\ Sender = Writer(1) /\ Sender \in Active
    BY TailOf, InLanes DEF AuthorityInv, AuthorityTypes, Admitted, Current, Sender, Writer
  <1>2. Generation \in Nat
    BY <1>1 DEF AuthorityInv, AuthorityTypes, Generation, Active, Known, OperatorRecord
  <1>3. harness_turn' \in HarnessTurn /\ harness_turn' # Absent
    BY <1>2, AuthorityAssumption DEF HarnessTurn, AuthorityParameters
  <1>4. /\ starts' \in [Message -> Nat] /\ starts'[Current] = 1
        /\ \A m \in Message : m # Current => starts'[m] = starts[m]
    <2>1. starts[Current] = 0
      BY <1>1 DEF AuthorityInv, LanesSound
    <2> QED
      BY <1>1, <2>1 DEF Begun, AuthorityInv, AuthorityTypes
  <1>5. AuthorityTypes'
    BY <1>3, <1>4 DEF AuthorityInv, AuthorityTypes, background
  <1>6. LanesSound'
    <2>1. \A k \in 1 .. Len(operatorLane) : k # 1 => operatorLane[k].message # Current
      BY <1>1 DEF AuthorityInv, LanesSound, Waits
    <2>2. \A k \in 1 .. Len(publicLane) : publicLane[k].message # Current
      BY <1>1 DEF AuthorityInv, LanesSound
    <2>3. Current \in claimed
      BY <1>1 DEF AuthorityInv, LanesSound, Waits
    <2>4. \A k \in 1 .. Len(operatorLane') :
             starts'[operatorLane'[k].message] = 0 \/ (k = 1 /\ harness_turn' # Absent)
      BY <1>1, <1>3, <1>4, <2>1, InLanes DEF AuthorityInv, LanesSound
    <2>5. \A k \in 1 .. Len(publicLane') : starts'[publicLane'[k].message] = 0
      BY <1>4, <2>2, InLanes DEF AuthorityInv, LanesSound
    <2>6. \A m \in Message : m \notin claimed' => answers'[m] = 0 /\ starts'[m] = 0
      BY <1>4, <2>3 DEF AuthorityInv, LanesSound
    <2>7. AtMostOnce'
      BY <1>4 DEF AuthorityInv, LanesSound, AtMostOnce
    <2> QED
      BY <1>1, <2>4, <2>5, <2>6, <2>7 DEF AuthorityInv, LanesSound, Waits
  <1>7. OrderSound'
    <2>1. Known' = Known /\ Active' = Active /\ Writer(1)' = Writer(1)
      BY DEF Known, Active, Writer
    <2>2. harness_turn'.stage = "confirming" =>
            harness_turn'.target \in Principal /\ harness_turn'.target # Writer(1)'
      BY <1>1, <2>1
    <2> QED
      BY <2>1, <2>2 DEF AuthorityInv, OrderSound, Writer, Pinned, Trusted
  <1>8. NeverSilentlyReplayed'
    BY DEF AuthorityInv, NeverSilentlyReplayed, background
  <1> QED
    BY <1>5, <1>6, <1>7, <1>8 DEF AuthorityInv

-----------------------------------------------------------------------------
(* The operator lane, one kind of work at a time. *)

\* The first of the operator lane is refused, obeyed or has had its turn.
LEMMA AnswersKeep ==
  ASSUME AuthorityInv, Refuse \/ DirectCommand \/ EndTurn
  PROVE  AuthorityInv'
  <1>1. /\ operatorLane # <<>> /\ Done
        /\ UNCHANGED <<authority, background, sent, claimed, publicLane, fenced>>
        /\ starts' = starts \/ (harness_turn = Absent /\ Begun)
    BY DEF Refuse, DirectCommand, EndTurn, AuthorityInv, LanesSound
  <1>2. NeverSilentlyReplayed'
    BY <1>1 DEF AuthorityInv, NeverSilentlyReplayed, background
  <1> QED
    BY <1>1, <1>2, DoneKeeps DEF AuthorityInv, AuthorityTypes, OrderSound, authority, background

\* The one whose message is at work has authority.
LEMMA SenderActs ==
  ASSUME AuthorityInv, Admitted
  PROVE  Sender \in Principal /\ Generation \in Nat /\ operatorLane # <<>> /\ harness_turn = Absent
  BY DEF AuthorityInv, AuthorityTypes, Admitted, Generation, Active, Known, OperatorRecord

\* A task is registered, or its state changed, as its operator asks.
LEMMA TaskCommandKeeps ==
  ASSUME AuthorityInv, TaskCommand
  PROVE  AuthorityInv'
  <1>1. /\ Sender \in Principal /\ Generation \in Nat
        /\ operatorLane # <<>> /\ harness_turn = Absent
        /\ Begun /\ Done /\ UNCHANGED <<authority, job, sent, claimed, publicLane, fenced>>
    BY SenderActs DEF TaskCommand
  <1>2. tasks \in [Task -> TaskRecord \cup {Absent}] /\ Absent \notin TaskRecord
    BY AuthorityAssumption DEF AuthorityInv, AuthorityTypes, AuthorityParameters
  <1>3. PICK t \in Task :
        \/ /\ approved' = approved \cup {t}
           /\ \E kind \in {"once", "recurring"} :
                tasks' = [tasks EXCEPT ![t] = Registration(Sender, Generation, kind)]
        \/ /\ Mine(t) /\ approved' = approved \cup {t}
           /\ tasks' = [tasks EXCEPT ![t].state = "ready"]
        \/ /\ Mine(t) /\ UNCHANGED approved
           /\ tasks' = [tasks EXCEPT ![t].kind = IF @ = "once" THEN "recurring" ELSE @]
        \/ /\ Mine(t) /\ approved' = approved \ {t}
           /\ \/ tasks' = [tasks EXCEPT ![t].state = "paused"]
              \/ tasks' = [tasks EXCEPT ![t] =
                    IF @.kind = "review" THEN [@ EXCEPT !.state = "removed"] ELSE Absent]
    BY DEF TaskCommand
  <1>4. /\ tasks' \in [Task -> TaskRecord \cup {Absent}]
        /\ \A u \in Task : u # t => tasks'[u] = tasks[u] /\ (u \in approved => u \in approved')
        /\ tasks'[t] # Absent /\ tasks'[t].state = "ready" => t \in approved'
    <2>1. ASSUME NEW kind \in {"once", "recurring"}
          PROVE  Registration(Sender, Generation, kind) \in TaskRecord
      BY <1>1 DEF Registration, TaskRecord
    <2>2. ASSUME Mine(t), NEW st \in {"ready", "paused", "removed"}
          PROVE  /\ [tasks[t] EXCEPT !.state = st] \in TaskRecord
                 /\ [tasks[t] EXCEPT !.state = st].state = st
      BY <1>2, <2>2 DEF Mine, TaskRecord
    <2>3. CASE /\ approved' = approved \cup {t}
               /\ \E kind \in {"once", "recurring"} :
                    tasks' = [tasks EXCEPT ![t] = Registration(Sender, Generation, kind)]
      BY <1>2, <2>1, <2>3
    <2>4. CASE /\ Mine(t) /\ approved' = approved \cup {t}
               /\ tasks' = [tasks EXCEPT ![t].state = "ready"]
      BY <1>2, <2>2, <2>4
    <2>5. CASE /\ Mine(t) /\ UNCHANGED approved
               /\ tasks' = [tasks EXCEPT ![t].kind = IF @ = "once" THEN "recurring" ELSE @]
      <3>1. PICK kind \in {"once", "recurring", "review"} :
                tasks' = [tasks EXCEPT ![t] = [tasks[t] EXCEPT !.kind = kind]]
        <4>1. tasks[t].kind \in {"once", "recurring", "review"}
          BY <1>2, <2>5 DEF Mine, TaskRecord
        <4> QED
          BY <2>5, <4>1
      <3>2. /\ [tasks[t] EXCEPT !.kind = kind] \in TaskRecord
            /\ [tasks[t] EXCEPT !.kind = kind].state = tasks[t].state
        BY <1>2, <2>5 DEF Mine, TaskRecord
      <3>3. tasks[t] # Absent /\ (tasks[t].state = "ready" => t \in approved)
        BY <2>5 DEF Mine, AuthorityInv, NeverSilentlyReplayed
      <3> QED
        BY <1>2, <2>5, <3>1, <3>2, <3>3
    <2>6. CASE /\ Mine(t) /\ approved' = approved \ {t}
               /\ tasks' = [tasks EXCEPT ![t].state = "paused"]
      <3>1. tasks' = [tasks EXCEPT ![t] = [tasks[t] EXCEPT !.state = "paused"]]
        BY <2>6
      <3> QED
        BY <1>2, <2>2, <2>6, <3>1
    <2>7. CASE /\ Mine(t) /\ approved' = approved \ {t}
               /\ tasks' = [tasks EXCEPT ![t] =
                    IF @.kind = "review" THEN [@ EXCEPT !.state = "removed"] ELSE Absent]
      <3>1. tasks' = [tasks EXCEPT ![t] = IF tasks[t].kind = "review"
                                          THEN [tasks[t] EXCEPT !.state = "removed"] ELSE Absent]
        BY <2>7
      <3> QED
        BY <1>2, <2>2, <2>7, <3>1
    <2> QED
      BY <1>3, <2>3, <2>4, <2>5, <2>6, <2>7
  <1>5. NeverSilentlyReplayed'
    BY <1>4 DEF AuthorityInv, NeverSilentlyReplayed
  <1> QED
    BY <1>1, <1>4, <1>5, DoneKeeps DEF AuthorityInv, AuthorityTypes, OrderSound, authority

\* A transfer is asked for, to an inbox that is not the asker.
LEMMA PrepareKeeps ==
  ASSUME AuthorityInv, PrepareTransfer
  PROVE  AuthorityInv'
  <1>1. /\ Sender \in Principal /\ Generation \in Nat
        /\ operatorLane # <<>> /\ harness_turn = Absent
        /\ Begun /\ Done
        /\ UNCHANGED <<operator_records, background, sent, claimed, publicLane, fenced>>
    BY SenderActs DEF PrepareTransfer
  <1>2. PICK i \in Principal \ {Sender} :
          pending' = [source |-> Sender, generation |-> Generation, target |-> i]
    BY DEF PrepareTransfer
  <1>3. pending' \in TransferPlan /\ pending'.source # pending'.target
    BY <1>1, <1>2 DEF TransferPlan
  <1>4. NeverSilentlyReplayed'
    BY <1>1 DEF AuthorityInv, NeverSilentlyReplayed, background
  <1> QED
    BY <1>1, <1>3, <1>4, DoneKeeps DEF AuthorityInv, AuthorityTypes, background

\* A transfer in doubt is taken up by the message that confirms it, or dropped.
LEMMA TakeKeeps ==
  ASSUME AuthorityInv, TakeTransfer
  PROVE  AuthorityInv'
  <1>1. /\ Sender \in Principal /\ operatorLane # <<>> /\ harness_turn = Absent
        /\ Admitted /\ Begun /\ pending' = Absent /\ pending \in TransferPlan
        /\ pending.source # pending.target
        /\ UNCHANGED <<operator_records, background, sent, claimed, publicLane, fenced>>
    BY SenderActs DEF TakeTransfer, AuthorityInv, AuthorityTypes, OrderSound
  <1>2. CASE pending.source = Sender /\ pending.generation = Generation
    <2>1. pending.target \in Principal \ {Sender}
      BY <1>1, <1>2 DEF TransferPlan
    <2> QED
      BY <1>1, <1>2, <2>1, TurnBegins DEF TakeTransfer
  <1>3. CASE ~(pending.source = Sender /\ pending.generation = Generation)
    <2>1. NeverSilentlyReplayed'
      BY <1>1 DEF AuthorityInv, NeverSilentlyReplayed, background
    <2> QED
      BY <1>1, <1>3, <2>1, DoneKeeps
         DEF TakeTransfer, AuthorityInv, AuthorityTypes, background
  <1> QED
    BY <1>2, <1>3

\* The transfer: its source is the only inbox with authority, so everything left
\* in the lane that was trusted is its source's, which has none any more.
LEMMA TransferKeeps ==
  ASSUME AuthorityInv, TransferAuthority
  PROVE  AuthorityInv'
  <1> DEFINE target == harness_turn.target
  <1>1. /\ operatorLane # <<>> /\ operatorLane[1].role = "operator" /\ Done
        /\ Holds(Sender, harness_turn.generation) /\ target \in Principal /\ target # Writer(1)
        /\ Sender = Writer(1) /\ 1 \in 1 .. Len(operatorLane)
        /\ UNCHANGED <<pending, background, sent, claimed, publicLane, starts, fenced>>
    <2>1. harness_turn # Absent /\ harness_turn.stage = "confirming"
      BY DEF TransferAuthority
    <2>2. operatorLane # <<>> /\ operatorLane[1].role = "operator"
      BY <2>1 DEF AuthorityInv, LanesSound
    <2>3. Head(operatorLane) = operatorLane[1] /\ 1 \in 1 .. Len(operatorLane)
      BY <2>2, TailOf DEF AuthorityInv, AuthorityTypes
    <2> QED
      BY <2>1, <2>2, <2>3
         DEF TransferAuthority, AuthorityInv, OrderSound, Sender, Current, Writer
  <1>2. Active = {Sender}
    BY <1>1 DEF Holds, AuthorityInv, OrderSound
  <1>3. operator_records' = Granted(Revoked(operator_records), target, Len(sent))
    BY DEF TransferAuthority
  <1> HIDE DEF target
  <1>4. /\ operator_records' \in [Principal -> OperatorRecord \cup {Absent}]
        /\ Active' = {target} /\ Known \subseteq Known'
    <2>1. /\ operator_records \in [Principal -> OperatorRecord \cup {Absent}]
          /\ Absent \notin OperatorRecord /\ Len(sent) \in Nat
      BY AuthorityAssumption DEF AuthorityInv, AuthorityTypes, AuthorityParameters
    <2> DEFINE r == Revoked(operator_records)
    <2>2. /\ r \in [Principal -> OperatorRecord \cup {Absent}]
          /\ \A i \in Principal : r[i] # Absent => r[i].status # "active"
          /\ \A i \in Principal : r[i] = Absent <=> operator_records[i] = Absent
      <3>1. ASSUME NEW i \in Principal
            PROVE  /\ r[i] \in OperatorRecord \cup {Absent}
                   /\ r[i] # Absent => r[i].status # "active"
                   /\ r[i] = Absent <=> operator_records[i] = Absent
        <4>1. CASE i \in Active
          <5>1. r[i] = [operator_records[i] EXCEPT !.status = "revoked"]
            BY <4>1 DEF Revoked
          <5>2. operator_records[i] \in OperatorRecord
            BY <2>1, <4>1 DEF Active, Known
          <5>3. r[i] \in OperatorRecord /\ r[i].status = "revoked"
            BY <5>1, <5>2 DEF OperatorRecord
          <5> QED
            BY <2>1, <5>2, <5>3
        <4>2. CASE i \notin Active
          <5>1. r[i] = operator_records[i]
            BY <4>2 DEF Revoked
          <5> QED
            BY <2>1, <4>2, <5>1 DEF Active, Known
        <4> QED
          BY <4>1, <4>2
      <3>2. r = [i \in Principal |-> r[i]]
        BY DEF Revoked
      <3> HIDE DEF r
      <3> QED
        BY <3>1, <3>2
    <2> HIDE DEF r
    <2>3. operator_records' = Granted(r, target, Len(sent))
      BY <1>3 DEF r
    <2> DEFINE g == [status |-> "active", boundary |-> Len(sent),
                     generation |-> IF r[target] = Absent THEN 1 ELSE r[target].generation + 1]
    <2>4. g \in OperatorRecord
      BY <1>1, <2>1, <2>2 DEF OperatorRecord
    <2>5. operator_records' = [r EXCEPT ![target] = g]
      BY <2>3 DEF Granted
    <2>6. g.status = "active"
      OBVIOUS
    <2> HIDE DEF g
    <2> QED
      BY <1>1, <2>1, <2>2, <2>4, <2>5, <2>6 DEF Active, Known
  <1>5. LanesSound' /\ operatorLane' \in Seq(Admission)
        /\ answers' \in [Message -> Nat] /\ starts' \in [Message -> Nat]
    BY <1>1, DoneKeepsLanes DEF AuthorityInv
  <1>6. AuthorityTypes'
    BY <1>1, <1>4, <1>5 DEF AuthorityInv, AuthorityTypes, background, Done
  <1>7. OrderSound'
    <2>1. /\ Len(operatorLane') = Len(operatorLane) - 1 /\ Len(operatorLane) \in Nat
          /\ \A k \in 1 .. Len(operatorLane') :
                operatorLane'[k] = operatorLane[k + 1] /\ k + 1 \in 1 .. Len(operatorLane)
      BY <1>1, TailOf DEF AuthorityInv, AuthorityTypes, Done
    <2>2. Trusted(operatorLane[1].message)
      BY <1>1, <1>2 DEF AuthorityInv, OrderSound, Pinned
    <2>3. ASSUME NEW k \in 1 .. Len(operatorLane'), Pinned(k)'
          PROVE  Writer(k)' \in Known' /\ Writer(k)' \notin Active'
      <3>1. /\ k + 1 \in 1 .. Len(operatorLane) /\ 1 < k + 1 /\ Pinned(k + 1)
            /\ Writer(k)' = Writer(k + 1)
        BY <1>1, <2>1, <2>3 DEF Pinned, Writer
      <3>2. Writer(k + 1) \in Known /\ Trusted(operatorLane[k + 1].message)
        BY <1>1, <2>2, <3>1 DEF AuthorityInv, OrderSound, Pinned
      <3>3. Writer(k + 1) = Sender
        BY <1>2, <3>2 DEF Trusted, Writer
      <3> QED
        BY <1>1, <1>4, <3>1, <3>2, <3>3
    <2>4. ASSUME NEW k \in 1 .. Len(operatorLane'), Pinned(k)'
          PROVE  ~Trusted(operatorLane[k].message)'
      BY <2>3, <2>4 DEF Trusted, Writer
    <2>5. harness_turn' = Absent
      BY <1>1 DEF Done
    <2> QED
      BY <1>1, <1>4, <2>3, <2>4, <2>5 DEF AuthorityInv, OrderSound
  <1>8. NeverSilentlyReplayed'
    BY <1>1 DEF AuthorityInv, NeverSilentlyReplayed, background
  <1> QED
    BY <1>1, <1>5, <1>6, <1>7, <1>8 DEF AuthorityInv

-----------------------------------------------------------------------------
(* The harness, and the supervisor of the tasks. *)

\* A tool of a turn starts under the authority its message had: it was admitted as
\* an operator's, its writer still has authority, so it is trusted.
LEMMA TurnsKeep ==
  ASSUME AuthorityInv, BeginTurn \/ TurnTool
  PROVE  AuthorityInv'
  <1>1. CASE BeginTurn
    <2>1. UNCHANGED <<operator_records, background, sent, claimed, operatorLane, publicLane,
                      answers, fenced, pending>>
      BY <1>1 DEF BeginTurn, authority
    <2>2. /\ Admitted /\ Begun
          /\ harness_turn' = [stage |-> "running", generation |-> Generation, target |-> Absent]
      BY <1>1 DEF BeginTurn
    <2> QED
      BY <2>1, <2>2, TurnBegins
  <1>2. CASE TurnTool
    <2>1. /\ operatorLane[1].role = "operator" /\ 1 \in 1 .. Len(operatorLane)
          /\ Current = operatorLane[1].message /\ Sender = Writer(1)
          /\ Holds(Sender, harness_turn.generation)
      BY <1>2, TailOf
         DEF TurnTool, TurnRuns, Authorized, AuthorityInv, AuthorityTypes, LanesSound, Current,
             Sender, Writer
    <2>2. Trusted(Current)
      BY <2>1 DEF AuthorityInv, OrderSound, Pinned, Holds
    <2>3. fenced' = TRUE
      BY <1>2, <2>1, <2>2, RoleIs DEF TurnTool, AuthorityInv
    <2>4. NeverSilentlyReplayed'
      BY <1>2 DEF TurnTool, AuthorityInv, NeverSilentlyReplayed, background
    <2> QED
      BY <1>2, <2>3, <2>4, AsideKeeps
         DEF TurnTool, AuthorityInv, AuthorityTypes, background
  <1> QED
    BY <1>1, <1>2

\* A review registered for an operator is a wish like any other.
LEMMA ReviewKeeps ==
  ASSUME AuthorityInv, EnsureReview
  PROVE  AuthorityInv'
  <1>1. PICK i \in Active, t \in Task :
          /\ tasks' = [tasks EXCEPT
                ![t] = Registration(i, operator_records[i].generation, "review")]
          /\ approved' = approved \cup {t}
    BY DEF EnsureReview
  <1>2. Registration(i, operator_records[i].generation, "review") \in TaskRecord
    BY DEF AuthorityInv, AuthorityTypes, Active, Known, OperatorRecord, Registration, TaskRecord
  <1>3. tasks' \in [Task -> TaskRecord \cup {Absent}]
    BY <1>1, <1>2 DEF AuthorityInv, AuthorityTypes
  <1>4. NeverSilentlyReplayed'
    BY <1>1 DEF AuthorityInv, AuthorityTypes, NeverSilentlyReplayed
  <1> QED
    BY <1>3, <1>4, AsideKeeps DEF EnsureReview, AuthorityInv, AuthorityTypes

\* A claimed task is no longer ready, so nothing but a new wish makes it run again.
LEMMA JobsKeep ==
  ASSUME AuthorityInv,
         \/ \E t \in Task : Claim(t)
         \/ BeginJob \/ StartDirectly \/ JobTool
         \/ \E success \in BOOLEAN : EndJob(success)
  PROVE  AuthorityInv'
  <1>0. /\ tasks \in [Task -> TaskRecord \cup {Absent}] /\ job \in TaskRun \cup {Absent}
        /\ Absent \notin TaskRecord /\ NeverSilentlyReplayed
    BY AuthorityAssumption DEF AuthorityInv, AuthorityTypes, AuthorityParameters
  <1>1. ASSUME NEW t \in Task, Claim(t) PROVE AuthorityInv'
    <2>1. /\ tasks[t] \in TaskRecord /\ tasks' = [tasks EXCEPT ![t].state = "running"]
          /\ approved' = approved \ {t}
          /\ job' = [task |-> t, inbox |-> tasks[t].inbox, generation |-> tasks[t].generation,
                     stage |-> "claimed"]
          /\ UNCHANGED <<authority, inbound, harness_turn, fenced>>
      BY <1>0, <1>1 DEF Claim
    <2>2. job' \in TaskRun \cup {Absent}
      BY <2>1 DEF TaskRecord, TaskRun
    <2>3. tasks' \in [Task -> TaskRecord \cup {Absent}] /\ tasks'[t].state = "running"
          /\ \A u \in Task : u # t => tasks'[u] = tasks[u]
      <3>1. /\ [tasks[t] EXCEPT !.state = "running"] \in TaskRecord
            /\ [tasks[t] EXCEPT !.state = "running"].state = "running"
        BY <2>1 DEF TaskRecord
      <3>2. tasks' = [tasks EXCEPT ![t] = [tasks[t] EXCEPT !.state = "running"]]
        BY <2>1
      <3> QED
        BY <1>0, <3>1, <3>2
    <2>4. NeverSilentlyReplayed'
      BY <1>0, <2>1, <2>3 DEF NeverSilentlyReplayed
    <2> QED
      BY <2>1, <2>2, <2>3, <2>4, AsideKeeps
  <1>2. CASE BeginJob
    <2>1. job' \in TaskRun
      BY <1>0, <1>2 DEF BeginJob, TaskRun
    <2>2. NeverSilentlyReplayed'
      BY <1>0, <1>2 DEF BeginJob, NeverSilentlyReplayed
    <2> QED
      BY <1>0, <1>2, <2>1, <2>2, AsideKeeps DEF BeginJob
  <1>3. CASE StartDirectly
    <2>1. job' \in TaskRun /\ fenced' = fenced
      BY <1>0, <1>3 DEF StartDirectly, TaskRun, AuthorityInv
    <2>2. NeverSilentlyReplayed'
      BY <1>0, <1>3 DEF StartDirectly, NeverSilentlyReplayed
    <2> QED
      BY <1>0, <1>3, <2>1, <2>2, AsideKeeps DEF StartDirectly
  <1>4. CASE JobTool
    <2>1. fenced' = fenced
      BY <1>4 DEF JobTool, Authorized, AuthorityInv
    <2>2. NeverSilentlyReplayed'
      BY <1>0, <1>4 DEF JobTool, NeverSilentlyReplayed, background
    <2> QED
      BY <1>0, <1>4, <2>1, <2>2, AsideKeeps DEF JobTool, background
  <1>5. ASSUME NEW success \in BOOLEAN, EndJob(success) PROVE AuthorityInv'
    <2>1. /\ job \in TaskRun /\ job' = Absent /\ job.task \in Task
          /\ UNCHANGED <<authority, inbound, harness_turn, fenced>>
      BY <1>0, <1>5 DEF EndJob, TaskRun
    <2>2. tasks' \in [Task -> TaskRecord \cup {Absent}] /\ NeverSilentlyReplayed'
      <3>1. CASE Finishes
        <4> DEFINE recurs == success /\ tasks[job.task].kind # "once"
                   final == IF recurs THEN "ready" ELSE IF success THEN "done" ELSE "paused"
        <4>0. /\ tasks[job.task] # Absent /\ StillRunning
              /\ tasks' = [tasks EXCEPT ![job.task].state = final]
              /\ approved' = IF recurs THEN approved \cup {job.task} ELSE approved
              /\ final \in {"ready", "running", "paused", "done", "removed"}
              /\ final = "ready" => recurs
          BY <1>5, <3>1 DEF EndJob, Finishes, StillRunning
        <4> HIDE DEF final, recurs
        <4>1. PICK st \in {"ready", "running", "paused", "done", "removed"} :
                /\ tasks[job.task] # Absent
                /\ tasks' = [tasks EXCEPT ![job.task].state = st]
                /\ st = "ready" => job.task \in approved'
                /\ approved \subseteq approved'
          BY <4>0
        <4>2. /\ tasks' \in [Task -> TaskRecord \cup {Absent}]
              /\ \A u \in Task : u # job.task => tasks'[u] = tasks[u]
              /\ tasks'[job.task].state = st
          <5>1. tasks[job.task] \in TaskRecord
            BY <1>0, <2>1, <4>1
          <5>2. /\ [tasks[job.task] EXCEPT !.state = st] \in TaskRecord
                /\ [tasks[job.task] EXCEPT !.state = st].state = st
            BY <5>1 DEF TaskRecord
          <5>3. tasks' = [tasks EXCEPT ![job.task] = [tasks[job.task] EXCEPT !.state = st]]
            BY <4>1
          <5> QED
            BY <1>0, <2>1, <5>2, <5>3
        <4> QED
          BY <1>0, <2>1, <4>1, <4>2 DEF NeverSilentlyReplayed
      <3>2. CASE ~Finishes
        BY <1>0, <1>5, <3>2 DEF EndJob, NeverSilentlyReplayed
      <3> QED
        BY <3>1, <3>2
    <2> QED
      BY <2>1, <2>2, AsideKeeps
  <1> QED
    BY <1>1, <1>2, <1>3, <1>4, <1>5

-----------------------------------------------------------------------------
(* Restarts. *)

\* The host gives, takes or keeps authority, or an imprint was saved in time; at
\* most one inbox has it afterwards.
LEMMA RecordsAfterRestart ==
  ASSUME AuthorityInv, CrashAndRestart
  PROVE  /\ operator_records' \in [Principal -> OperatorRecord \cup {Absent}]
         /\ \A i, j \in Active' : i = j
  <1>1. /\ operator_records \in [Principal -> OperatorRecord \cup {Absent}]
        /\ Absent \notin OperatorRecord /\ Len(sent) \in Nat
        /\ \A i, j \in Active : i = j
        /\ sent \in Seq(Principal) /\ Len(sent) <= MaxMessages
    BY AuthorityAssumption DEF AuthorityInv, AuthorityTypes, AuthorityParameters, OrderSound
  <1>2. ASSUME NEW i \in Principal, NEW b \in Nat, Active \subseteq {i},
               operator_records' = Granted(operator_records, i, b)
        PROVE  /\ operator_records' \in [Principal -> OperatorRecord \cup {Absent}]
               /\ \A k, l \in Active' : k = l
    <2> DEFINE g == [status |-> "active", boundary |-> b,
                     generation |-> IF operator_records[i] = Absent THEN 1
                                    ELSE operator_records[i].generation + 1]
    <2>1. g \in OperatorRecord
      BY <1>1 DEF OperatorRecord
    <2>2. operator_records' = [operator_records EXCEPT ![i] = g]
      BY <1>2 DEF Granted
    <2> HIDE DEF g
    <2>3. \A k \in Principal : k # i => operator_records'[k] = operator_records[k]
      BY <1>1, <2>2
    <2> QED
      BY <1>1, <1>2, <2>1, <2>2, <2>3 DEF Active, Known
  <1>3. CASE UNCHANGED operator_records
    BY <1>1, <1>3 DEF Active, Known
  <1>4. ASSUME NEW m \in DOMAIN sent, operator_records' = Imprinted(m)
        PROVE  /\ operator_records' \in [Principal -> OperatorRecord \cup {Absent}]
               /\ \A k, l \in Active' : k = l
    <2>1. CASE Known = {}
      <3>1. Active = {} /\ m \in Nat /\ sent[m] \in Principal
        BY <1>1, <1>4, <2>1 DEF Active
      <3> QED
        BY <1>2, <1>4, <2>1, <3>1 DEF Imprinted
    <2>2. CASE Known # {}
      BY <1>3, <1>4, <2>2 DEF Imprinted
    <2> QED
      BY <2>1, <2>2
  <1>5. CASE operator_records' = Revoked(operator_records)
    <2>1. ASSUME NEW i \in Principal
          PROVE  /\ operator_records'[i] \in OperatorRecord \cup {Absent}
                 /\ operator_records'[i] # Absent => operator_records'[i].status # "active"
      <3>1. CASE i \in Active
        <4>1. operator_records'[i] = [operator_records[i] EXCEPT !.status = "revoked"]
          BY <1>5, <3>1 DEF Revoked
        <4>2. operator_records[i] \in OperatorRecord
          BY <1>1, <3>1 DEF Active, Known
        <4> QED
          BY <4>1, <4>2 DEF OperatorRecord
      <3>2. CASE i \notin Active
        <4>1. operator_records'[i] = operator_records[i]
          BY <1>5, <3>2 DEF Revoked
        <4> QED
          BY <1>1, <3>2, <4>1 DEF Active, Known
      <3> QED
        BY <3>1, <3>2
    <2>2. operator_records' = [i \in Principal |-> operator_records'[i]]
      BY <1>5 DEF Revoked
    <2>3. operator_records' \in [Principal -> OperatorRecord \cup {Absent}]
      BY <2>1, <2>2
    <2>4. Active' = {}
      BY <2>1 DEF Active, Known
    <2> QED
      BY <2>3, <2>4
  <1> QED
    BY <1>1, <1>2, <1>3, <1>4, <1>5 DEF CrashAndRestart

\* A restart empties the lanes and pauses the task that was running.
LEMMA RestartKeeps ==
  ASSUME AuthorityInv, CrashAndRestart
  PROVE  AuthorityInv'
  <1>1. /\ operatorLane' = <<>> /\ publicLane' = <<>> /\ harness_turn' = Absent
        /\ pending' = Absent /\ job' = Absent
        /\ tasks' = [t \in Task |-> IF tasks[t] = Absent THEN Absent ELSE Reopened(tasks[t])]
        /\ UNCHANGED <<sent, claimed, answers, starts, approved, fenced>>
    BY DEF CrashAndRestart
  <1>2. \A t \in Task :
          /\ tasks'[t] \in TaskRecord \cup {Absent}
          /\ tasks'[t] # Absent /\ tasks'[t].state = "ready" =>
               tasks[t] # Absent /\ tasks[t].state = "ready"
    <2> TAKE t \in Task
    <2>1. tasks[t] \in TaskRecord \cup {Absent} /\ Absent \notin TaskRecord
      BY AuthorityAssumption DEF AuthorityInv, AuthorityTypes, AuthorityParameters
    <2>2. CASE tasks[t] = Absent
      BY <1>1, <2>2
    <2>3. CASE tasks[t] \in TaskRecord /\ tasks[t].state = "running"
      <3>1. tasks'[t] = [tasks[t] EXCEPT !.state = "paused"]
        BY <1>1, <2>1, <2>3 DEF Reopened
      <3> QED
        BY <2>3, <3>1 DEF TaskRecord
    <2>4. CASE tasks[t] \in TaskRecord /\ tasks[t].state # "running"
      BY <1>1, <2>1, <2>4 DEF Reopened
    <2> QED
      BY <2>1, <2>2, <2>3, <2>4
  <1>3. tasks' \in [Task -> TaskRecord \cup {Absent}]
    BY <1>1, <1>2
  <1>4. NeverSilentlyReplayed'
    BY <1>1, <1>2 DEF AuthorityInv, NeverSilentlyReplayed
  <1>5. <<>> \in Seq(Admission) /\ Len(<<>>) = 0
    BY EmptySeq
  <1>6. AuthorityTypes'
    BY <1>1, <1>3, <1>5, RecordsAfterRestart DEF AuthorityInv, AuthorityTypes
  <1>7. LanesSound'
    BY <1>1, <1>5 DEF AuthorityInv, LanesSound, Waits, AtMostOnce
  <1>8. OrderSound'
    BY <1>1, <1>5, RecordsAfterRestart DEF OrderSound
  <1> QED
    BY <1>1, <1>4, <1>6, <1>7, <1>8 DEF AuthorityInv

\* The inductive invariant of authority, for any inboxes, tasks, limits and number
\* of restarts.
THEOREM AuthoritySound == AuthoritySpec => []AuthorityInv
  <1>1. AuthorityInit => AuthorityInv
    <2> SUFFICES ASSUME AuthorityInit PROVE AuthorityInv
      OBVIOUS
    <2>1. \A S : <<>> \in Seq(S) /\ Len(<<>>) = 0
      BY EmptySeq
    <2>2. Known = {} /\ Active = {}
      BY DEF AuthorityInit, Known, Active
    <2>3. AuthorityTypes
      BY <2>1, AuthorityAssumption DEF AuthorityInit, AuthorityTypes, AuthorityParameters
    <2>4. LanesSound
      BY <2>1 DEF AuthorityInit, LanesSound, Waits, AtMostOnce
    <2>5. OrderSound
      BY <2>1, <2>2 DEF AuthorityInit, OrderSound
    <2> QED
      BY <2>3, <2>4, <2>5 DEF AuthorityInit, AuthorityInv, NeverSilentlyReplayed
  <1>2. AuthorityInv /\ [AuthorityNext]_authorityVars => AuthorityInv'
    <2> SUFFICES ASSUME AuthorityInv, [AuthorityNext]_authorityVars PROVE AuthorityInv'
      OBVIOUS
    <2>1. CASE UNCHANGED authorityVars
      <3>1. UNCHANGED <<authority, inbound, tasks, job, approved, harness_turn, fenced>>
        BY <2>1 DEF authorityVars, background
      <3>2. NeverSilentlyReplayed'
        BY <3>1 DEF AuthorityInv, NeverSilentlyReplayed
      <3> QED
        BY <3>1, <3>2, AsideKeeps DEF AuthorityInv, AuthorityTypes
    <2>2. CASE AuthorityNext
      BY <2>2, SendKeeps, DeliverKeeps, PopPublic, AnswersKeep, TaskCommandKeeps, PrepareKeeps,
         TakeKeeps, TransferKeeps, TurnsKeep, ReviewKeeps, JobsKeep, RestartKeeps
         DEF AuthorityNext
    <2> QED
      BY <2>1, <2>2
  <1> QED
    BY <1>1, <1>2, PTL DEF AuthoritySpec

\* However often messages are delivered, lanes wait, authority moves and the
\* runtime restarts, no message is worked on or answered twice, no task repeats
\* itself after an uncertain end, and no tool starts without the authority its
\* message or task was accepted under, or, for the first tool of a task that needs
\* no model, the authority its inbox has then.
THEOREM TasksOnceHolds == AuthoritySpec => []TasksOnce
  <1>1. AuthorityInv => TasksOnce
    BY DEF AuthorityInv, LanesSound, TasksOnce, Fenced
  <1> QED
    BY <1>1, AuthoritySound, PTL

-----------------------------------------------------------------------------
(* Repository maintenance. *)

Checkout ==
  [branch: Branch, heads: [Branch -> History \cup {Missing}], dirty: History,
   merging: BOOLEAN, tracking: History, remotes: Remotes]

Run ==
  [kind: {"fetch", "update", "merge", "test", "push", "pr"}, branch: Branch,
   scope: SUBSET Path,
   snap: [head: History, branch: Branch, dirty: History, remotes: Remotes],
   pc: {"fetch", "integrate", "validate", "verify", "commit", "push", "create"}]

\* A checkout is on a branch that exists.
Works(r) == r \in Checkout /\ r.heads[r.branch] \in History

MaintenanceTypes ==
  /\ upstream \in History /\ fork \in [Branch -> History \cup {Missing}]
  /\ Works(repo) /\ op \in Run \cup {Idle}
  /\ \A p \in prs : p.commit \in History

\* What is fetched was published, and what a pull request is about to show is what
\* was validated, stands on the fork, and was compared with the base.
ReviewSound ==
  /\ repo.tracking \subseteq upstream
  /\ op.kind = "pr" /\ op.pc \in {"push", "create"} => HeadCommit = op.snap.head
  /\ op.kind = "pr" /\ op.pc = "create" =>
       fork[op.branch] = HeadCommit /\ ChangedPaths(HeadCommit) \subseteq op.scope

MaintenanceInv == MaintenanceTypes /\ ReviewSound

-----------------------------------------------------------------------------
\* Changes added to the branch that is checked out, or to one made from it.
LEMMA AdvancedWorks ==
  ASSUME NEW r, Works(r), NEW changes \in History
  PROVE  /\ Works(Advanced(r, changes)) /\ Advanced(r, changes).tracking = r.tracking
         /\ Advanced(r, changes).dirty = r.dirty
  <1> DEFINE heads == [r.heads EXCEPT ![r.branch] = r.heads[r.branch] \cup changes]
             s == [r EXCEPT !.heads = heads]
  <1>1. r \in Checkout /\ r.heads[r.branch] \in History /\ r.branch \in Branch
    BY DEF Works, Checkout
  <1>2. r.heads[r.branch] \cup changes \in History
    BY <1>1 DEF History
  <1>3. heads \in [Branch -> History \cup {Missing}] /\ heads[r.branch] \in History
    BY <1>1, <1>2 DEF Checkout
  <1> HIDE DEF heads
  <1>4. s \in Checkout /\ s.heads = heads /\ s.branch = r.branch
        /\ s.tracking = r.tracking /\ s.dirty = r.dirty
    BY <1>1, <1>3 DEF Checkout
  <1>5. Advanced(r, changes) = s
    BY DEF Advanced, heads
  <1> HIDE DEF s
  <1> QED
    BY <1>3, <1>4, <1>5 DEF Works

\* The dirty changes are committed.
LEMMA CommittedWorks ==
  ASSUME NEW r, Works(r)
  PROVE  Works(Committed(r)) /\ Committed(r).tracking = r.tracking
  <1>1. r.dirty \in History
    BY DEF Works, Checkout
  <1>2. PICK s : s = Advanced(r, r.dirty)
    OBVIOUS
  <1>3. Works(s) /\ s.tracking = r.tracking
    BY <1>1, <1>2, AdvancedWorks
  <1>4. {} \in History
    BY DEF History
  <1>5. Committed(r) = [s EXCEPT !.dirty = {}, !.merging = FALSE]
    BY <1>2 DEF Committed
  <1> QED
    BY <1>3, <1>4, <1>5 DEF Works, Checkout

\* A branch is made from the one checked out, or left as it is.
LEMMA TopicWorks ==
  ASSUME Works(repo), NEW b \in Branch
  PROVE  Works(OnTopicBranch(b)) /\ OnTopicBranch(b).tracking = repo.tracking
  <1> DEFINE heads == [repo.heads EXCEPT ![b] = HeadCommit]
  <1>1. repo \in Checkout /\ HeadCommit \in History
    BY DEF Works, HeadCommit
  <1>2. heads \in [Branch -> History \cup {Missing}] /\ heads[b] \in History
    BY <1>1 DEF Checkout
  <1>3. OnTopicBranch(b) = [repo EXCEPT !.heads = heads, !.branch = b]
    BY DEF OnTopicBranch
  <1> HIDE DEF heads
  <1> QED
    BY <1>1, <1>2, <1>3 DEF Works, Checkout

\* A remote is added or replaced.
LEMMA RewiredWorks ==
  ASSUME Works(repo), NEW name \in RemoteName, NEW to \in {"canonical", "fork", "unsafe"}
  PROVE  Works(Rewired(name, to)) /\ Rewired(name, to).tracking = repo.tracking
  <1> DEFINE remotes == [repo.remotes EXCEPT ![name] = to]
  <1>1. repo \in Checkout /\ repo.heads[repo.branch] \in History
    BY DEF Works
  <1>2. remotes \in Remotes
    BY <1>1 DEF Checkout, Remotes
  <1>3. Rewired(name, to) = [repo EXCEPT !.remotes = remotes]
    BY DEF Rewired
  <1> HIDE DEF remotes
  <1> QED
    BY <1>1, <1>2, <1>3 DEF Works, Checkout

\* A merge goes through or stops on conflicts.
LEMMA MergesWork ==
  ASSUME Works(repo), NEW target \in History, NEW r \in Merges(target)
  PROVE  Works(r) /\ r.tracking = repo.tracking
  <1>1. CASE r = Advanced(repo, target)
    BY <1>1, AdvancedWorks
  <1>2. CASE r = [repo EXCEPT !.dirty = target \ HeadCommit, !.merging = TRUE]
    <2>1. target \ HeadCommit \in History
      BY DEF History
    <2> QED
      BY <1>2, <2>1 DEF Works, Checkout
  <1> QED
    BY <1>1, <1>2 DEF Merges

\* A fetch.
LEMMA FetchedWorks ==
  ASSUME NEW r, Works(r), upstream \in History
  PROVE  Works([r EXCEPT !.tracking = upstream])
         /\ [r EXCEPT !.tracking = upstream].tracking = upstream
         /\ [r EXCEPT !.tracking = upstream].heads = r.heads
         /\ [r EXCEPT !.tracking = upstream].branch = r.branch
  BY DEF Works, Checkout

\* What a workflow remembers of the checkout.
LEMMA SnapshotTyped ==
  ASSUME Works(repo)
  PROVE  Snapshot \in [head: History, branch: Branch, dirty: History, remotes: Remotes]
  BY DEF Works, Checkout, Snapshot, HeadCommit

\* A workflow starts.
LEMMA BeginTyped ==
  ASSUME MaintenanceInv,
         NEW kind \in {"fetch", "update", "merge", "test", "push", "pr"}, NEW branch \in Branch,
         NEW scope \in SUBSET Path, NEW pc \in {"fetch", "validate"}, Begin(kind, branch, scope, pc)
  PROVE  op' \in Run /\ op'.pc = pc
  BY SnapshotTyped DEF Begin, Run, MaintenanceInv, MaintenanceTypes

\* The workflow in progress comes to another step, and may take a new snapshot.
LEMMA OpTyped ==
  ASSUME MaintenanceInv, op # Idle
  PROVE  /\ op \in Run
         /\ \A pc \in {"integrate", "validate", "verify", "commit", "push", "create"} :
              LET next == [op EXCEPT !.pc = pc] IN
              /\ next \in Run /\ next.pc = pc /\ next.snap = op.snap
              /\ next.branch = op.branch /\ next.scope = op.scope /\ next.kind = op.kind
  BY DEF MaintenanceInv, MaintenanceTypes, Run

\* When no workflow runs its kind says so.
LEMMA IdleIs == Idle.kind = "idle"
  BY DEF Idle

\* A step that publishes nothing and brings no workflow to its last two steps.
LEMMA StepAside ==
  ASSUME MaintenanceInv, UNCHANGED <<upstream, fork, prs>>,
         Works(repo)', repo'.tracking \in {repo.tracking, upstream},
         op' \in Run \cup {Idle},
         op'.kind = "pr" => op'.pc \notin {"push", "create"}
  PROVE  MaintenanceInv'
  <1>1. MaintenanceTypes'
    BY DEF MaintenanceInv, MaintenanceTypes
  <1>2. ReviewSound'
    BY DEF MaintenanceInv, ReviewSound
  <1> QED
    BY <1>1, <1>2 DEF MaintenanceInv

\* The checks that start a workflow.
LEMMA StartsKeep ==
  ASSUME MaintenanceInv,
         \/ \E kind \in {"fetch", "update"} : StartFetch(kind)
         \/ StartMerge \/ StartTest \/ StartPush
         \/ \E scope \in SUBSET Path : StartPr(scope)
  PROVE  MaintenanceInv'
  <1>1. Works(repo) /\ repo.branch \in Branch /\ Topic \in Branch /\ {} \in SUBSET Path
    BY DEF MaintenanceInv, MaintenanceTypes, Works, Checkout, Branch
  <1>2. Works(repo)' /\ repo'.tracking = repo.tracking
    <2>1. CASE UNCHANGED repo
      BY <1>1, <2>1 DEF Works
    <2>2. CASE repo' = Rewired("upstream", "canonical")
      BY <1>1, <2>2, RewiredWorks DEF Works, RemoteName
    <2> QED
      BY <2>1, <2>2 DEF StartFetch, StartMerge, StartTest, StartPush, StartPr,
                        EnsureCanonicalRemote
  <1>3. op' \in Run /\ op'.pc \in {"fetch", "validate"}
    <2>1. PICK kind \in {"fetch", "update", "merge", "test", "push", "pr"},
               branch \in Branch, scope \in SUBSET Path, pc \in {"fetch", "validate"} :
            Begin(kind, branch, scope, pc)
      BY <1>1 DEF StartFetch, StartMerge, StartTest, StartPush, StartPr
    <2> QED
      BY <2>1, BeginTyped
  <1>4. UNCHANGED <<upstream, fork, prs>>
    BY DEF StartFetch, StartMerge, StartTest, StartPush, StartPr, Keep
  <1> QED
    BY <1>2, <1>3, <1>4, StepAside

\* The operator's own work, and what a validation program does.
LEMMA CheckoutKeeps ==
  ASSUME MaintenanceInv,
         \/ Meddle \/ CommitByHand
         \/ \E c \in Change : Edit(c)
         \/ \E b \in Branch : Switch(b)
         \/ \E scope \in SUBSET Path, b \in Branch : CommitScoped(scope, b)
  PROVE  MaintenanceInv'
  <1>1. /\ Works(repo) /\ repo.branch \in Branch /\ repo.dirty \in History /\ HeadCommit \in History
        /\ op \in Run \cup {Idle}
    BY DEF MaintenanceInv, MaintenanceTypes, Works, Checkout, HeadCommit
  <1>2. Works(repo)' /\ repo'.tracking = repo.tracking
    <2>1. ASSUME NEW c \in Change, repo' = [repo EXCEPT !.dirty = @ \cup {c}]
          PROVE  Works(repo)' /\ repo'.tracking = repo.tracking
      <3>1. repo.dirty \cup {c} \in History
        BY <1>1 DEF History
      <3> QED
        BY <1>1, <2>1, <3>1 DEF Works, Checkout
    <2>2. ASSUME NEW c \in Change, repo' = Advanced(repo, {c})
          PROVE  Works(repo)' /\ repo'.tracking = repo.tracking
      <3>1. {c} \in History
        BY DEF History
      <3> QED
        BY <1>1, <2>2, <3>1, AdvancedWorks DEF Works
    <2>3. ASSUME NEW b \in Branch, repo.heads[b] # Missing, repo' = [repo EXCEPT !.branch = b]
          PROVE  Works(repo)' /\ repo'.tracking = repo.tracking
      BY <1>1, <2>3 DEF Works, Checkout
    <2>4. ASSUME NEW to \in {"canonical", "fork", "unsafe"}, repo' = Rewired("origin", to)
          PROVE  Works(repo)' /\ repo'.tracking = repo.tracking
      BY <1>1, <2>4, RewiredWorks DEF Works, RemoteName
    <2>5. ASSUME NEW b \in Branch, repo' \in {OnTopicBranch(b), Committed(OnTopicBranch(b))}
          PROVE  Works(repo)' /\ repo'.tracking = repo.tracking
      <3>1. PICK on : on = OnTopicBranch(b)
        OBVIOUS
      <3>2. Works(on) /\ on.tracking = repo.tracking
        BY <1>1, <3>1, TopicWorks
      <3>3. Works(Committed(on)) /\ Committed(on).tracking = on.tracking
        BY <3>2, CommittedWorks
      <3> QED
        BY <2>5, <3>1, <3>2, <3>3 DEF Works
    <2>6. CASE repo' = Committed(repo)
      BY <1>1, <2>6, CommittedWorks DEF Works
    <2> QED
      BY <2>1, <2>2, <2>3, <2>4, <2>5, <2>6
         DEF Meddle, CommitByHand, Edit, Switch, CommitScoped
  <1>3. /\ UNCHANGED <<upstream, fork, prs, op>>
        /\ op = Idle \/ op.pc = "validate"
    BY DEF Meddle, CommitByHand, Edit, Switch, CommitScoped, Keep
  <1> QED
    BY <1>1, <1>2, <1>3, IdleIs, StepAside

\* The steps of a workflow before its last checks.
LEMMA WorkflowsKeep ==
  ASSUME MaintenanceInv,
         FetchOnly \/ UpdateFetch \/ UpdateIntegrate \/ MergeFetched \/ PrPrepare \/ PrCommit
         \/ ValidationPasses \/ Abandon
  PROVE  MaintenanceInv'
  <1>1. /\ Works(repo) /\ repo.branch \in Branch /\ upstream \in History /\ HeadCommit \in History
        /\ repo.tracking \in History /\ op \in Run \cup {Idle}
    BY DEF MaintenanceInv, MaintenanceTypes, Works, Checkout, HeadCommit
  <1>2. Works(Fetched) /\ Fetched.tracking = upstream
    BY <1>1, FetchedWorks DEF Fetched
  <1>3. op # Idle
    BY IdleIs DEF FetchOnly, UpdateFetch, UpdateIntegrate, MergeFetched, PrPrepare, PrCommit,
                  ValidationPasses, Abandon
  <1>4. /\ op \in Run /\ op.branch \in Branch
        /\ \A pc \in {"integrate", "validate", "verify", "commit"} :
             [op EXCEPT !.pc = pc] \in Run /\ [op EXCEPT !.pc = pc].pc = pc
    BY <1>3, OpTyped DEF Run
  <1>5. /\ Idle \in Run \cup {Idle} /\ Idle.kind # "pr"
        /\ UNCHANGED repo => Works(repo)' /\ repo'.tracking = repo.tracking
    BY <1>1, IdleIs DEF Works
  <1>6. UNCHANGED <<upstream, fork, prs>>
    BY DEF FetchOnly, UpdateFetch, UpdateIntegrate, MergeFetched, PrPrepare, PrCommit,
           ValidationPasses, Abandon, Keep
  <1>7. ASSUME Works(repo)' PROVE [op EXCEPT !.pc = "validate", !.snap = Snapshot'] \in Run
    BY <1>4, <1>7, SnapshotTyped DEF Run, Works, Snapshot, HeadCommit, Checkout
  <1>8. CASE FetchOnly
    <2>1. Works(repo)' /\ repo'.tracking = upstream /\ op' = Idle
      BY <1>2, <1>8 DEF FetchOnly, Finished, Works
    <2> QED
      BY <1>5, <1>6, <2>1, StepAside
  <1>9. CASE UpdateFetch \/ PrPrepare
    <2>1. Works(repo)' /\ repo'.tracking = upstream
      BY <1>2, <1>9 DEF UpdateFetch, PrPrepare, Works
    <2>2. op' \in Run /\ op'.pc \in {"integrate", "commit"}
      BY <1>4, <1>9 DEF UpdateFetch, PrPrepare
    <2> QED
      BY <1>6, <2>1, <2>2, StepAside
  <1>10. CASE UpdateIntegrate
    <2>1. CASE UNCHANGED repo /\ op' = Idle
      BY <1>5, <1>6, <2>1, StepAside
    <2>2. CASE /\ repo' \in Merges(repo.tracking)
               /\ op' = IF repo'.merging THEN Idle
                        ELSE [op EXCEPT !.pc = "validate", !.snap = Snapshot']
      <3>1. Works(repo)' /\ repo'.tracking = repo.tracking
        BY <1>1, <2>2, MergesWork DEF Works
      <3>2. op' \in Run \cup {Idle} /\ (op'.kind = "pr" => op'.pc = "validate")
        BY <1>4, <1>5, <1>7, <2>2, <3>1 DEF Run
      <3> QED
        BY <1>6, <3>1, <3>2, StepAside
    <2> QED
      BY <1>10, <2>1, <2>2 DEF UpdateIntegrate, Finished
  <1>11. CASE MergeFetched
    <2>1. PICK r \in Merges(upstream) : repo' = [r EXCEPT !.tracking = upstream]
      BY <1>11 DEF MergeFetched
    <2>2. Works(r)
      BY <1>1, MergesWork
    <2>3. Works(repo)' /\ repo'.tracking = upstream
      BY <1>1, <2>1, <2>2, FetchedWorks DEF Works
    <2>4. op' = Idle
      BY <1>11 DEF MergeFetched, Finished
    <2> QED
      BY <1>5, <1>6, <2>3, <2>4, StepAside
  <1>12. CASE PrCommit
    <2>1. Works(repo)' /\ repo'.tracking = repo.tracking
      <3>1. CASE UNCHANGED repo
        BY <1>5, <3>1
      <3>2. CASE repo' = Committed(OnTopicBranch(op.branch))
        <4>1. PICK on : on = OnTopicBranch(op.branch)
          OBVIOUS
        <4>2. Works(on) /\ on.tracking = repo.tracking
          BY <1>1, <1>4, <4>1, TopicWorks
        <4>3. Works(Committed(on)) /\ Committed(on).tracking = on.tracking
          BY <4>2, CommittedWorks
        <4> QED
          BY <3>2, <4>1, <4>2, <4>3 DEF Works
      <3> QED
        BY <1>12, <3>1, <3>2 DEF PrCommit
    <2>2. op' = [op EXCEPT !.pc = "validate", !.snap = Snapshot']
      BY <1>12 DEF PrCommit
    <2>3. op' \in Run /\ op'.pc = "validate"
      BY <1>4, <1>7, <2>1, <2>2 DEF Run
    <2> QED
      BY <1>6, <2>1, <2>3, StepAside
  <1>13. CASE ValidationPasses
    <2>1. UNCHANGED repo /\ (op' = Idle \/ op' = [op EXCEPT !.pc = "verify"])
      BY <1>13 DEF ValidationPasses
    <2> QED
      BY <1>4, <1>5, <1>6, <2>1, StepAside
  <1>14. CASE Abandon
    <2>1. UNCHANGED repo /\ op' = Idle
      BY <1>14 DEF Abandon, Finished
    <2> QED
      BY <1>5, <1>6, <2>1, StepAside
  <1> QED
    BY <1>8, <1>9, <1>10, <1>11, <1>12, <1>13, <1>14

\* Only to the operator's fork is anything pushed, and there to one branch.
LEMMA PushedToFork ==
  ASSUME MaintenanceInv, OperatorFork, NEW b \in Branch, PushOrigin(b)
  PROVE  /\ upstream' = upstream /\ fork' = [fork EXCEPT ![b] = HeadCommit]
         /\ fork' \in [Branch -> History \cup {Missing}] /\ fork'[b] = HeadCommit
  <1>1. repo.remotes["origin"] # "canonical"
    BY DEF OperatorFork, Topology
  <1>2. HeadCommit \in History /\ fork \in [Branch -> History \cup {Missing}]
    BY DEF MaintenanceInv, MaintenanceTypes, Works, HeadCommit
  <1> QED
    BY <1>1, <1>2 DEF PushOrigin

\* The last checks, and what they let out.
LEMMA PublicationKeeps ==
  ASSUME MaintenanceInv, Publish \/ PrVerify \/ PrPush \/ PrCreate
  PROVE  MaintenanceInv'
  <1>1. /\ Works(repo) /\ upstream \in History /\ HeadCommit \in History
        /\ repo.tracking \subseteq upstream /\ op # Idle
        /\ fork \in [Branch -> History \cup {Missing}] /\ \A p \in prs : p.commit \in History
    BY IdleIs DEF MaintenanceInv, MaintenanceTypes, ReviewSound, Works, HeadCommit,
                  Publish, PrVerify, PrPush, PrCreate
  <1>2. /\ op \in Run /\ op.branch \in Branch
        /\ \A pc \in {"push", "create"} :
             LET next == [op EXCEPT !.pc = pc] IN
             /\ next \in Run /\ next.pc = pc /\ next.snap = op.snap
             /\ next.branch = op.branch /\ next.scope = op.scope /\ next.kind = op.kind
    BY <1>1, OpTyped DEF Run
  <1>3. UNCHANGED repo => Works(repo)' /\ HeadCommit' = HeadCommit
    BY <1>1 DEF Works, HeadCommit
  <1>4. CASE Publish
    <2>1. upstream' = upstream /\ fork' \in [Branch -> History \cup {Missing}]
      BY <1>1, <1>2, <1>4, PushedToFork DEF Publish
    <2>2. op' = Idle /\ UNCHANGED <<prs, repo>>
      BY <1>4 DEF Publish, Finished
    <2> QED
      BY <1>1, <1>3, <2>1, <2>2, IdleIs DEF MaintenanceInv, MaintenanceTypes, ReviewSound
  <1>5. CASE PrVerify
    <2>1. repo' = Fetched /\ op' = [op EXCEPT !.pc = "push"] /\ UNCHANGED <<upstream, fork, prs>>
      BY <1>5 DEF PrVerify, Keep
    <2>2. HeadCommit = op.snap.head
      BY <1>5 DEF PrVerify, PostValidationState, SameCheckout
    <2>3. Works(repo)' /\ repo'.tracking = upstream /\ HeadCommit' = HeadCommit
      BY <1>1, <2>1, FetchedWorks DEF Fetched, Works, HeadCommit
    <2> QED
      BY <1>1, <1>2, <2>1, <2>2, <2>3 DEF MaintenanceInv, MaintenanceTypes, ReviewSound
  <1>6. CASE PrPush
    <2>1. /\ op.kind = "pr" /\ op.pc = "push" /\ op' = [op EXCEPT !.pc = "create"]
          /\ ChangedPaths(HeadCommit) \subseteq op.scope /\ UNCHANGED <<prs, repo>>
      BY <1>6 DEF PrPush, PrDiffScoped
    <2>2. /\ upstream' = upstream /\ fork' \in [Branch -> History \cup {Missing}]
          /\ fork'[op.branch] = HeadCommit
      BY <1>2, <1>6, PushedToFork DEF PrPush
    <2>3. ChangedPaths(HeadCommit)' = ChangedPaths(HeadCommit)
      BY <1>3, <2>1 DEF ChangedPaths, Paths
    <2> QED
      BY <1>1, <1>2, <1>3, <2>1, <2>2, <2>3 DEF MaintenanceInv, MaintenanceTypes, ReviewSound
  <1>7. CASE PrCreate
    <2>1. /\ op' = Idle /\ UNCHANGED <<upstream, fork, repo>>
          /\ prs' = prs \cup {[commit |-> fork[op.branch], scope |-> op.scope]}
          /\ fork[op.branch] = HeadCommit
      BY <1>7 DEF PrCreate, Finished, MaintenanceInv, ReviewSound
    <2> QED
      BY <1>1, <1>3, <2>1, IdleIs DEF MaintenanceInv, MaintenanceTypes, ReviewSound
  <1> QED
    BY <1>4, <1>5, <1>6, <1>7

\* The canonical repository grows.
LEMMA UpstreamKeeps ==
  ASSUME MaintenanceInv, Upstream
  PROVE  MaintenanceInv'
  <1>1. upstream \subseteq upstream' /\ UNCHANGED <<fork, prs, repo, op>>
    BY DEF Upstream
  <1>2. upstream' \in History
    BY DEF Upstream, MaintenanceInv, MaintenanceTypes, History
  <1>3. UNCHANGED <<HeadCommit, ChangedPaths(HeadCommit)>> /\ (Works(repo) => Works(repo)')
    BY <1>1 DEF HeadCommit, ChangedPaths, Paths, Works
  <1> QED
    BY <1>1, <1>2, <1>3 DEF MaintenanceInv, MaintenanceTypes, ReviewSound

\* The inductive invariant of repository maintenance.
THEOREM MaintenanceSound == MaintenanceSpec => []MaintenanceInv
  <1>1. MaintenanceInit => MaintenanceInv
    <2> SUFFICES ASSUME MaintenanceInit PROVE MaintenanceInv
      OBVIOUS
    <2>1. {} \in History /\ Main \in Branch
      BY DEF History, Branch
    <2>2. PICK origin \in {"canonical", "fork"}, other \in {"canonical", "none"} :
            repo = [branch |-> Main,
                    heads |-> [b \in Branch |-> IF b = Main THEN {} ELSE Missing],
                    dirty |-> {}, merging |-> FALSE, tracking |-> {},
                    remotes |-> [n \in RemoteName |-> IF n = "origin" THEN origin ELSE other]]
      BY DEF MaintenanceInit
    <2>3. Works(repo) /\ repo.tracking = {}
      BY <2>1, <2>2 DEF Works, Checkout, Remotes
    <2> QED
      BY <2>1, <2>3, IdleIs
         DEF MaintenanceInit, MaintenanceInv, MaintenanceTypes, ReviewSound
  <1>2. MaintenanceInv /\ [MaintenanceNext]_maintenanceVars => MaintenanceInv'
    <2> SUFFICES ASSUME MaintenanceInv, [MaintenanceNext]_maintenanceVars PROVE MaintenanceInv'
      OBVIOUS
    <2>1. CASE UNCHANGED maintenanceVars
      BY <2>1 DEF maintenanceVars, MaintenanceInv, MaintenanceTypes, ReviewSound, Works,
                  HeadCommit, ChangedPaths, Paths
    <2>2. CASE MaintenanceNext
      BY <2>2, StartsKeep, CheckoutKeeps, WorkflowsKeep, PublicationKeeps, UpstreamKeeps
         DEF MaintenanceNext, Workflow
    <2> QED
      BY <2>1, <2>2
  <1> QED
    BY <1>1, <1>2, PTL DEF MaintenanceSpec

\* What leaves the checkout is what was validated, and of that what was asked for,
\* whatever validation programs, the operator and the canonical repository do.
THEOREM PublishedAsValidatedHolds == MaintenanceSpec => PublishedAsValidated
  <1> DEFINE Pushed == /\ op' # op => upstream' = upstream
                       /\ fork' # fork => fork' = [fork EXCEPT ![op.branch] = op.snap.head]
             InScope == \A p \in prs' \ prs : Paths(p.commit \ upstream) \subseteq p.scope
  <1>1. MaintenanceInv /\ MaintenanceNext => Pushed /\ InScope
    <2> SUFFICES ASSUME MaintenanceInv, MaintenanceNext PROVE Pushed /\ InScope
      OBVIOUS
    <2>1. CASE Publish \/ PrPush
      <3>1. op # Idle /\ HeadCommit = op.snap.head
        BY <2>1, IdleIs DEF Publish, PrPush, PostValidationState, SameCheckout, MaintenanceInv,
                            ReviewSound
      <3>2. op.branch \in Branch
        BY <3>1, OpTyped DEF Run
      <3>3. /\ upstream' = upstream /\ prs' = prs
            /\ fork' = fork \/ fork' = [fork EXCEPT ![op.branch] = HeadCommit]
        BY <2>1, <3>2, PushedToFork DEF Publish, PrPush
      <3> QED
        BY <3>1, <3>3
    <2>2. CASE PrCreate
      <3>1. /\ UNCHANGED <<upstream, fork>>
            /\ prs' = prs \cup {[commit |-> HeadCommit, scope |-> op.scope]}
            /\ ChangedPaths(HeadCommit) \subseteq op.scope /\ repo.tracking \subseteq upstream
        BY <2>2 DEF PrCreate, MaintenanceInv, ReviewSound
      <3>2. Paths(HeadCommit \ upstream) \subseteq ChangedPaths(HeadCommit)
        BY <3>1 DEF Paths, ChangedPaths
      <3> QED
        BY <3>1, <3>2
    <2>3. CASE Upstream
      BY <2>3 DEF Upstream
    <2>4. CASE ~(Publish \/ PrPush \/ PrCreate \/ Upstream)
      <3>1. UNCHANGED <<upstream, fork, prs>>
        BY <2>4 DEF MaintenanceNext, Workflow, StartFetch, StartMerge, StartTest, StartPush,
             StartPr, CommitScoped, FetchOnly, UpdateFetch, UpdateIntegrate, MergeFetched,
             PrPrepare, PrCommit, ValidationPasses, PrVerify, Abandon, Meddle, CommitByHand,
             Edit, Switch, Keep
      <3> QED
        BY <3>1
    <2> QED
      BY <2>1, <2>2, <2>3, <2>4
  <1>2. UNCHANGED maintenanceVars => Pushed /\ InScope
    BY DEF maintenanceVars
  <1>3. MaintenanceInv /\ [MaintenanceNext]_maintenanceVars
        => [Pushed]_maintenanceVars /\ [InScope]_maintenanceVars
    BY <1>1
  <1> QED
    BY <1>3, MaintenanceSound, PTL
       DEF MaintenanceSpec, PublishedAsValidated, PushedAsValidated, PullRequestScoped
-----------------------------------------------------------------------------
(* Check-ins: the day an Acolyte is due is an interval after its last claim, and *)
(* stays so when the interval changes, since the day changes with it.            *)

CoachingTypes ==
    /\ today \in Nat
    /\ prefs \in [Acolyte -> [interval: Nat, next: Nat]]
    /\ claims \in [Acolyte -> Seq([day: Nat, interval: Nat])]

DueAfterLast(p, last) ==
    last.day <= today /\ (p.interval > 0 => p.next >= last.day + p.interval)

ClaimsDue ==
    \A i \in Acolyte : claims[i] # <<>> => DueAfterLast(prefs[i], claims[i][Len(claims[i])])

CoachingInv == CoachingTypes /\ ClaimsDue /\ ClaimsSpaced

LEMMA LastIsOne ==
    ASSUME NEW S, NEW s \in Seq(S), s # <<>>
    PROVE  Len(s) \in 1 .. Len(s) /\ s[Len(s)] \in S
  OBVIOUS

(* No claim is made, and preferences change only as they may. *)
LEMMA NothingClaimed ==
    ASSUME CoachingInv, claims' = claims, today' \in Nat, today' >= today,
           prefs' \in [Acolyte -> [interval: Nat, next: Nat]],
           \A i \in Acolyte : \/ prefs'[i] = prefs[i]
                              \/ prefs'[i].interval = 0
                              \/ prefs'[i].next >= today + prefs'[i].interval
    PROVE  CoachingInv'
  <1>1. CoachingTypes' /\ ClaimsSpaced'
    BY DEF CoachingInv, CoachingTypes, ClaimsSpaced
  <1>2. ASSUME NEW i \in Acolyte, claims[i] # <<>>
        PROVE  DueAfterLast(prefs[i], claims[i][Len(claims[i])])'
    <2> DEFINE last == claims[i][Len(claims[i])]
    <2>1. last \in [day: Nat, interval: Nat]
      <3>1. claims[i] \in Seq([day: Nat, interval: Nat])
        BY DEF CoachingInv, CoachingTypes
      <3> QED
        BY <1>2, <3>1, LastIsOne
    <2>2. last.day <= today /\ (prefs[i].interval > 0 => prefs[i].next >= last.day + prefs[i].interval)
      BY <1>2 DEF CoachingInv, ClaimsDue, DueAfterLast
    <2>3. prefs[i] \in [interval: Nat, next: Nat] /\ prefs'[i] \in [interval: Nat, next: Nat]
          /\ today \in Nat
      BY DEF CoachingInv, CoachingTypes
    <2>4. claims'[i][Len(claims'[i])] = last
      OBVIOUS
    <2> HIDE DEF last
    <2>5. last.day <= today' /\ (prefs'[i].interval > 0
                                   => prefs'[i].next >= last.day + prefs'[i].interval)
      BY <2>1, <2>2, <2>3
    <2> QED
      BY <2>4, <2>5 DEF DueAfterLast
  <1> QED
    BY <1>1, <1>2 DEF CoachingInv, ClaimsDue

LEMMA CheckInKeeps ==
    ASSUME CoachingParameters, CoachingInv, NEW i \in Acolyte,
           NEW interval \in Interval \cup {0}, CheckIn(i, interval)
    PROVE  CoachingInv'
  <1> DEFINE p == [interval |-> interval, next |-> today + interval]
  <1>1. p \in [interval: Nat, next: Nat] /\ p.interval = interval /\ p.next = today + interval
    BY DEF CoachingParameters, CoachingInv, CoachingTypes
  <1>2. prefs' = [prefs EXCEPT ![i] = p] /\ claims' = claims /\ today' = today
    BY DEF CheckIn
  <1> HIDE DEF p
  <1>3. /\ prefs' \in [Acolyte -> [interval: Nat, next: Nat]] /\ prefs'[i] = p
        /\ \A j \in Acolyte : j # i => prefs'[j] = prefs[j]
    BY <1>1, <1>2 DEF CoachingInv, CoachingTypes
  <1>4. prefs'[i].next >= today + prefs'[i].interval /\ today \in Nat
    BY <1>1, <1>3 DEF CoachingInv, CoachingTypes, CoachingParameters
  <1> QED
    BY <1>2, <1>3, <1>4, NothingClaimed

LEMMA ForgetGoalKeeps ==
    ASSUME CoachingInv, NEW i \in Acolyte, ForgetGoal(i)
    PROVE  CoachingInv'
  <1>1. prefs' = [prefs EXCEPT ![i].interval = 0] /\ claims' = claims /\ today' = today
    BY DEF ForgetGoal
  <1>2. /\ prefs' \in [Acolyte -> [interval: Nat, next: Nat]] /\ prefs'[i].interval = 0
        /\ \A j \in Acolyte : j # i => prefs'[j] = prefs[j]
    BY <1>1 DEF CoachingInv, CoachingTypes
  <1>3. today \in Nat
    BY DEF CoachingInv, CoachingTypes
  <1> QED
    BY <1>1, <1>2, <1>3, NothingClaimed

LEMMA DueKeeps ==
    ASSUME CoachingInv, Due
    PROVE  CoachingInv'
  <1> PICK chosen \in SUBSET Acolyte :
        /\ \A i \in chosen : IsDue(i)
        /\ prefs' = [i \in Acolyte |-> IF i \in chosen THEN Claimed(prefs[i]) ELSE prefs[i]]
        /\ claims' = [i \in Acolyte |-> IF i \in chosen
               THEN Append(claims[i], [day |-> today, interval |-> prefs[i].interval])
               ELSE claims[i]]
    BY DEF Due
  <1>1. today' = today /\ today \in Nat
    BY DEF Due, CoachingInv, CoachingTypes
  <1>2. ASSUME NEW i \in Acolyte
        PROVE  /\ prefs'[i] \in [interval: Nat, next: Nat]
               /\ claims'[i] \in Seq([day: Nat, interval: Nat])
               /\ claims'[i] # <<>> => DueAfterLast(prefs[i], claims[i][Len(claims[i])])'
               /\ \A k \in 2 .. Len(claims'[i]) :
                    claims'[i][k].day - claims'[i][k - 1].day >= claims'[i][k].interval
    <2>1. /\ prefs[i] \in [interval: Nat, next: Nat]
          /\ claims[i] \in Seq([day: Nat, interval: Nat])
          /\ claims[i] # <<>> => DueAfterLast(prefs[i], claims[i][Len(claims[i])])
          /\ \A k \in 2 .. Len(claims[i]) :
               claims[i][k].day - claims[i][k - 1].day >= claims[i][k].interval
      BY DEF CoachingInv, CoachingTypes, ClaimsDue, ClaimsSpaced
    <2>2. CASE i \notin chosen
      BY <1>1, <2>1, <2>2 DEF DueAfterLast
    <2>3. CASE i \in chosen
      <3> DEFINE new == [day |-> today, interval |-> prefs[i].interval]
                 s == claims[i]
                 m == Len(s)
                 p == prefs[i]
                 q == Claimed(p)
      <3>1. new \in [day: Nat, interval: Nat] /\ new.day = today /\ new.interval = p.interval
        BY <1>1, <2>1
      <3>2. q \in [interval: Nat, next: Nat] /\ q.interval = p.interval /\ q.next = today + p.interval
        BY <1>1, <2>1 DEF Claimed
      <3>3. p.next <= today /\ p.interval > 0
        BY <2>3 DEF IsDue
      <3>4. prefs'[i] = q /\ claims'[i] = Append(s, new)
        BY <2>3
      <3>5. /\ s \in Seq([day: Nat, interval: Nat]) /\ m \in Nat /\ m = Len(s)
            /\ p \in [interval: Nat, next: Nat]
            /\ s # <<>> => s[m].day <= today /\ s[m].day + p.interval <= p.next
            /\ \A k \in 2 .. m : s[k].day - s[k - 1].day >= s[k].interval
        BY <2>1, <3>3 DEF DueAfterLast
      <3> HIDE DEF new, s, m, p, q
      <3>6. /\ Append(s, new) \in Seq([day: Nat, interval: Nat])
            /\ Len(Append(s, new)) = m + 1 /\ Append(s, new)[m + 1] = new
            /\ \A k \in 1 .. m : Append(s, new)[k] = s[k]
        BY <3>1, <3>5
      <3>7. ASSUME NEW k \in 2 .. m + 1
            PROVE  Append(s, new)[k].day - Append(s, new)[k - 1].day >= Append(s, new)[k].interval
        <4>1. CASE k \in 2 .. m
          <5>1. Append(s, new)[k] = s[k] /\ Append(s, new)[k - 1] = s[k - 1]
            BY <3>5, <3>6, <4>1
          <5> QED
            BY <3>5, <4>1, <5>1
        <4>2. CASE k = m + 1
          <5>1. m \in 1 .. m /\ s # <<>> /\ k - 1 = m
            BY <3>5, <3>7, <4>2
          <5>2. Append(s, new)[k] = new /\ Append(s, new)[k - 1] = s[m]
            BY <3>6, <4>2, <5>1
          <5>3. s[m] \in [day: Nat, interval: Nat]
            BY <3>5, <5>1, LastIsOne
          <5>4. s[m].day + p.interval <= p.next
            BY <3>5, <5>1
          <5>5. today - s[m].day >= p.interval
            BY <1>1, <3>3, <3>5, <5>3, <5>4
          <5> QED
            BY <3>1, <5>2, <5>5
        <4> QED
          BY <3>5, <3>7, <4>1, <4>2
      <3>8. DueAfterLast(prefs[i], claims[i][Len(claims[i])])'
        <4>1. claims'[i][Len(claims'[i])] = new
          BY <3>4, <3>6
        <4>2. new.day <= today' /\ (q.interval > 0 => q.next >= new.day + q.interval)
          BY <1>1, <3>1, <3>2
        <4> QED
          BY <3>4, <4>1, <4>2 DEF DueAfterLast
      <3> QED
        BY <3>2, <3>4, <3>6, <3>7, <3>8
    <2> QED
      BY <2>2, <2>3
  <1>3. CoachingTypes'
    BY <1>1, <1>2 DEF CoachingTypes
  <1> QED
    BY <1>2, <1>3 DEF CoachingInv, ClaimsDue, ClaimsSpaced

(* However intervals change, days are missed, documents are damaged and the   *)
(* process restarts: two claims of one Acolyte are as far apart as it asked.  *)
THEOREM ClaimsSpacedHolds ==
    ASSUME CoachingParameters
    PROVE  CoachingSpec => []ClaimsSpaced
  <1>1. CoachingInit => CoachingInv
    BY DEF CoachingInit, CoachingInv, CoachingTypes, ClaimsDue, ClaimsSpaced
  <1>2. CoachingInv /\ [CoachingNext]_coachingVars => CoachingInv'
    <2> SUFFICES ASSUME CoachingInv, [CoachingNext]_coachingVars PROVE CoachingInv'
      OBVIOUS
    <2>1. today \in Nat /\ prefs \in [Acolyte -> [interval: Nat, next: Nat]]
      BY DEF CoachingInv, CoachingTypes
    <2>2. ASSUME NEW i \in Acolyte, SaveGoal(i) \/ Damage(i) PROVE CoachingInv'
      BY <2>1, <2>2, NothingClaimed DEF SaveGoal, Damage
    <2>3. ASSUME NEW i \in Acolyte, ForgetGoal(i) PROVE CoachingInv'
      BY <2>3, ForgetGoalKeeps
    <2>4. ASSUME NEW i \in Acolyte, NEW interval \in Interval \cup {0}, CheckIn(i, interval)
          PROVE  CoachingInv'
      BY <2>4, CheckInKeeps
    <2>5. CASE Due
      BY <2>5, DueKeeps
    <2>6. CASE SendCheckIn \/ Restart
      BY <2>1, <2>6, NothingClaimed DEF SendCheckIn, Restart
    <2>7. CASE NextDay
      BY <2>1, <2>7, NothingClaimed DEF NextDay
    <2>8. CASE UNCHANGED coachingVars
      BY <2>1, <2>8, NothingClaimed DEF coachingVars
    <2> QED
      BY <2>2, <2>3, <2>4, <2>5, <2>6, <2>7, <2>8 DEF CoachingNext
  <1>3. CoachingInv => ClaimsSpaced
    BY DEF CoachingInv
  <1> QED
    BY <1>1, <1>2, <1>3, PTL DEF CoachingSpec
=============================================================================
