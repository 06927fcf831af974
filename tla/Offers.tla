------------------------------- MODULE Offers -------------------------------
(***************************************************************************)
(* Branding offers: the durable queue of mint actions of a Tentacle.  An   *)
(* offer is inspected on chain, delivered, consented to within its         *)
(* deadline, executed by the signer with that consent and acknowledged     *)
(* with a receipt.  The queue lives in memory and is saved after every     *)
(* change; the supervisor serves due actions round-robin.  The deadlines,  *)
(* retries and cooldowns that the code computes from the clock are kept as *)
(* what the clock makes of them.                                           *)
(***************************************************************************)
EXTENDS Naturals, SequencesExt

CONSTANTS
  Talk,          \* authenticated conversations, <<inbox, acolyte>>
  Referrer,      \* referrers growth may pin
  Controller,    \* registry identities the Tentacle may be active under
  Treasury,      \* balances the canonical treasury may have
  Signature,     \* signatures of consents
  MAX_ACTIONS,
  MaxOffers,     \* bound: offers ever queued
  MaxCrashes,    \* bound: crashes and restarts
  MaxFailedSaves,\* bound: saves that fail
  None           \* no value

VARIABLES
  queue,         \* the snapshot in memory: its actions and the fair cursor
  saved,         \* the snapshot on disk
  open,          \* the runtime is running
  inflight,      \* the offer whose delivery was handed to XMTP
  window,        \* what is left until an offer's deadline
  active,        \* the identity of the Active registration
  treasury,      \* the canonical treasury
  minted,        \* the offer an Acolyte was minted from, on chain
  bound,         \* history: the offers whose consent was answered as bound
  offers,        \* offers queued so far
  crashes, failures

world == <<active, treasury, minted>>
offersVars == <<queue, saved, open, inflight, window, world, bound, offers, crashes, failures>>

Terminal == {"Completed", "Declined", "Expired", "Superseded", "FailedPermanent"}
Executing == {"Consented", "FundingRequired", "ReceiptPendingDelivery"}
Unsigned == {"OfferPendingDelivery", "Offered"}

\* ample: enough time to sign; closing: less than MIN_SIGNING_WINDOW_SECONDS;
\* ending: the deadline is now; passed: it is over.
Windows == {"none", "ample", "closing", "ending", "passed"}

Action ==
  [id: 1..MaxOffers, talk: Talk, referrer: Referrer, controller: Controller,
   quote: Treasury,
   phase: Terminal \cup Executing \cup Unsigned \cup {"Requested"},
   inspected: BOOLEAN, consent: Signature \cup {None}, executable: BOOLEAN,
   receipt: BOOLEAN, pending: {None, "Offer", "Funding", "Receipt"},
   noticed: BOOLEAN, due: {"now", "later", "deadline"}, old: BOOLEAN]

OffersParameters ==
  /\ None \notin Signature
  /\ MAX_ACTIONS \in Nat \ {0}
  /\ {MaxOffers, MaxCrashes, MaxFailedSaves} \subseteq Nat

-----------------------------------------------------------------------------
(* The snapshot. *)

\* The shape a phase demands.
Shape(a) ==
  [inspected |-> a.inspected, consent |-> a.consent # None,
   executable |-> a.executable, receipt |-> a.receipt, pending |-> a.pending]

Shaped(i, c, e, r, p) ==
  [inspected |-> i, consent |-> c, executable |-> e, receipt |-> r, pending |-> p]

ValidAction(a) ==
  CASE a.phase = "Requested" -> Shape(a) = Shaped(FALSE, FALSE, FALSE, FALSE, None)
    [] a.phase = "OfferPendingDelivery" ->
         Shape(a) = Shaped(TRUE, FALSE, FALSE, FALSE, "Offer")
    [] a.phase = "Offered" -> Shape(a) = Shaped(TRUE, FALSE, FALSE, FALSE, None)
    [] a.phase = "Consented" -> Shape(a) = Shaped(TRUE, TRUE, TRUE, FALSE, None)
    [] a.phase = "FundingRequired" ->
         \E p \in {None, "Funding"} : Shape(a) = Shaped(TRUE, TRUE, TRUE, FALSE, p)
    [] a.phase = "ReceiptPendingDelivery" ->
         Shape(a) = Shaped(TRUE, TRUE, TRUE, TRUE, "Receipt")
    [] a.phase = "Completed" -> Shape(a) = Shaped(TRUE, FALSE, TRUE, TRUE, None)
    [] OTHER -> a.pending = None

ValidSnapshot(s) ==
  /\ Len(s.actions) <= MAX_ACTIONS
  /\ s.cursor \in 1..Len(s.actions) \/ (s.actions = <<>> /\ s.cursor = 1)
  /\ \A n \in DOMAIN s.actions : ValidAction(s.actions[n])
  /\ \A m, n \in DOMAIN s.actions : m # n =>
       /\ s.actions[m].id # s.actions[n].id
       /\ s.actions[m].phase \notin Terminal /\ s.actions[n].phase \notin Terminal =>
            s.actions[m].talk # s.actions[n].talk

Wrapped(cursor, actions) ==
  IF actions = <<>> THEN 1 ELSE ((cursor - 1) % Len(actions)) + 1

Normal(s) == [s EXCEPT !.cursor = Wrapped(@, s.actions)]

\* Memory takes the snapshot first, the disk when the write succeeds.
Persist(next) ==
  /\ queue' = Normal(next)
  /\ \/ /\ saved' = (IF ValidSnapshot(Normal(next)) THEN Normal(next) ELSE saved)
        /\ UNCHANGED failures
     \/ failures < MaxFailedSaves /\ failures' = failures + 1 /\ UNCHANGED saved

\* Queueing and binding restore memory when the write fails.
PersistOrRollback(next) ==
  IF ValidSnapshot(Normal(next))
  THEN \/ queue' = Normal(next) /\ saved' = Normal(next) /\ UNCHANGED failures
       \/ /\ failures < MaxFailedSaves /\ failures' = failures + 1
          /\ UNCHANGED <<queue, saved>>
  ELSE UNCHANGED <<queue, saved, failures>>

\* A terminal action waits for nothing more: its retry and notice times are
\* never read again.
Ended(a, phase) ==
  [a EXCEPT !.phase = phase, !.pending = None, !.noticed = FALSE, !.due = "now",
            !.old = FALSE]

Indices == DOMAIN queue.actions
Of(talk) == {n \in Indices : queue.actions[n].talk = talk}
With(n, a) == [queue EXCEPT !.actions[n] = a]
Latest(talk) == CHOOSE n \in Of(talk) : \A m \in Of(talk) : m <= n

-----------------------------------------------------------------------------
(* Admission and replacement. *)

Elapsed(a) == a.phase \in Unsigned /\ window[a.id] \in {"ending", "passed"}

\* Elapsed invitations are retired and old terminal actions dropped first.
Tidied(s) ==
  LET retired == [n \in DOMAIN s.actions |->
                    IF Elapsed(s.actions[n])
                    THEN Ended(s.actions[n], "Expired") ELSE s.actions[n]]
      kept == SelectSeq(retired, LAMBDA a : ~(a.phase \in Terminal /\ a.old))
  IN [actions |-> kept, cursor |-> Wrapped(s.cursor, kept)]

\* At the limit the oldest terminal action makes room.
RoomMade(s) ==
  LET Over == {n \in DOMAIN s.actions : s.actions[n].phase \in Terminal}
      first == CHOOSE n \in Over : \A m \in Over : n <= m
  IN IF Len(s.actions) < MAX_ACTIONS \/ Over = {} THEN s
     ELSE [actions |-> RemoveAt(s.actions, first),
           cursor |-> IF first < s.cursor THEN s.cursor - 1
                      ELSE IF s.cursor > Len(s.actions) - 1 THEN 1 ELSE s.cursor]

\* The consent of this action may still be executed.
AuthorityLive(a) ==
  \/ a.phase \in Executing
  \/ a.phase = "FailedPermanent" /\ a.executable /\ window[a.id] # "passed"

Invitation(talk, referrer, quote) ==
  [id |-> offers + 1, talk |-> talk, referrer |-> referrer, controller |-> active,
   quote |-> quote, phase |-> "Requested", inspected |-> FALSE, consent |-> None,
   executable |-> FALSE, receipt |-> FALSE, pending |-> None, noticed |-> FALSE,
   due |-> "now", old |-> FALSE]

SameOffer(a, b) ==
  /\ a.talk = b.talk /\ a.referrer = b.referrer
  /\ a.controller = b.controller /\ a.quote = b.quote

\* The snapshot with the new action, if it may be queued after s.
Refused(s, new) ==
  \/ \E n \in DOMAIN s.actions : s.actions[n].talk = new.talk /\ AuthorityLive(s.actions[n])
  \/ \E n \in DOMAIN s.actions :
       s.actions[n].phase \notin Terminal /\ SameOffer(s.actions[n], new)

Queued(s, new) ==
  LET roomy == RoomMade(s)
      others == [n \in DOMAIN roomy.actions |->
                   IF roomy.actions[n].phase \notin Terminal
                      /\ roomy.actions[n].talk = new.talk
                   THEN [Ended(roomy.actions[n], "Superseded") EXCEPT !.consent = None]
                   ELSE roomy.actions[n]]
  IN [actions |-> Append(others, new), cursor |-> roomy.cursor]

\* Admission from a conversation without a decided Branding.
ShouldOffer(talk) ==
  Of(talk) # {} => LET a == queue.actions[Latest(talk)] IN
                     a.phase \in {"FailedPermanent", "Expired", "Superseded"} /\ a.old

EnqueueDefaultOffer(talk, referrer) ==
  /\ open /\ ShouldOffer(talk) /\ offers < MaxOffers
  /\ LET s == Tidied(queue)
         new == Invitation(talk, referrer, treasury)
     IN IF Refused(s, new)
        THEN PersistOrRollback(s) /\ UNCHANGED offers
        ELSE /\ Len(RoomMade(s).actions) < MAX_ACTIONS
             /\ PersistOrRollback(Queued(s, new))
             /\ offers' = offers + 1
  /\ UNCHANGED <<open, inflight, window, world, bound, crashes>>

\* Mutant: a failed execution is replaced at once.
ReplaceableOnceFailed(a) ==
  /\ a.phase \notin {"ReceiptPendingDelivery", "Completed", "Declined"}
  /\ a.phase \in {"Consented", "FundingRequired"} => window[a.id] = "passed"

\* Consent that was or may be executed binds until its deadline is over.
Replaceable(a) ==
  /\ a.phase \notin {"ReceiptPendingDelivery", "Completed", "Declined"}
  /\ \/ a.phase \in {"Consented", "FundingRequired"}
     \/ a.phase = "FailedPermanent" /\ a.executable
     => window[a.id] = "passed"

\* The Acolyte asks for a fresh offer; the quote stays that of the old one.
ReplaceReferrerFromRequest(talk, referrer) ==
  /\ open /\ Of(talk) # {} /\ offers < MaxOffers
  /\ LET n == Latest(talk)
         source == queue.actions[n]
         retired == [Ended(source, "Superseded") EXCEPT
                       !.consent = None, !.receipt = FALSE, !.executable = FALSE]
         base == IF source.phase \in Terminal \cup {"Consented", "FundingRequired"}
                 THEN With(n, retired) ELSE queue
         s == Tidied(base)
         new == Invitation(talk, referrer, source.quote)
     IN /\ Replaceable(source) /\ ~Refused(s, new)
        /\ Len(RoomMade(s).actions) < MAX_ACTIONS
        /\ PersistOrRollback(Queued(s, new))
  /\ offers' = offers + 1
  /\ UNCHANGED <<open, inflight, window, world, bound, crashes>>

-----------------------------------------------------------------------------
(* The Acolyte's answer. *)

\* The signed values are those of the action, so only the phase and the clock
\* decide.  A bound consent is confirmed again to the same signature only.
AcceptConsent(n, signature) ==
  /\ open /\ n \in Indices
  /\ LET a == queue.actions[n]
         consented == [a EXCEPT !.consent = signature, !.executable = TRUE, !.pending = None,
                                !.phase = "Consented", !.due = "now"]
     IN /\ a.phase \in Unsigned
        /\ IF window[a.id] = "passed"
           THEN /\ PersistOrRollback(With(n, Ended(a, "Expired")))
                /\ UNCHANGED bound
           ELSE /\ window[a.id] = "ample"
                /\ PersistOrRollback(With(n, consented))
                /\ bound' = (IF queue' = queue THEN bound ELSE bound \cup {a.id})
  /\ UNCHANGED <<open, inflight, window, world, offers, crashes>>

Declinable(a) == a.phase \in {"Requested", "Expired"} \cup Unsigned

Decline(n) ==
  /\ open /\ n \in Indices /\ Declinable(queue.actions[n])
  /\ Persist(With(n, [Ended(queue.actions[n], "Declined") EXCEPT !.consent = None]))
  /\ UNCHANGED <<open, inflight, window, world, bound, offers, crashes>>

-----------------------------------------------------------------------------
(* Maintenance by the supervisor, one action at a time. *)

Due(a) == a.phase \notin Terminal /\ a.due = "now"
DueIndices == {n \in Indices : Due(queue.actions[n])}

\* Mutant: always the first due action.
SelectFirst(s) == CHOOSE n \in DueIndices : \A m \in DueIndices : n <= m

\* The first due action at or after the cursor.
SelectDueFairly(s) ==
  LET Turn(n) == (n + Len(s.actions) - s.cursor) % Len(s.actions)
  IN CHOOSE n \in DueIndices : \A m \in DueIndices : Turn(n) <= Turn(m)

\* An offer nobody has seen is quoted anew when the treasury changed.
Requoted(a) == [a EXCEPT !.quote = treasury, !.due = "now"]

\* What inspection makes of a requested action; an unreachable or lagging chain
\* is an error.
Inspected(a) ==
  {[a EXCEPT !.due = "later", !.pending = None]} \cup
  IF minted[a.talk] # None THEN {Ended(a, "FailedPermanent")}
  ELSE IF treasury # a.quote THEN {Requoted(a)}
  ELSE {[a EXCEPT !.inspected = TRUE, !.phase = "OfferPendingDelivery",
                  !.pending = "Offer", !.due = "now"]}

\* What the signer makes of a bound consent: it mints at most once and before the
\* deadline, may fail in between, for good or not, or lack funds.
Executed(a) ==
  LET mintable == minted[a.talk] = None /\ window[a.id] # "passed"
      done == minted[a.talk] = a.id
      retried == [a EXCEPT !.due = "later", !.pending = None]
      failed == [Ended(a, "FailedPermanent") EXCEPT !.consent = None]
      funding == IF a.noticed
                 THEN [a EXCEPT !.phase = "FundingRequired", !.pending = None, !.due = "later"]
                 ELSE [a EXCEPT !.phase = "FundingRequired", !.pending = "Funding", !.due = "now"]
      complete == [a EXCEPT !.phase = "ReceiptPendingDelivery", !.receipt = TRUE,
                            !.pending = "Receipt", !.due = "now"]
  IN {<<b, m>> \in {retried, failed, funding, complete} \X {minted[a.talk], a.id} :
        /\ m # minted[a.talk] => mintable
        /\ b = funding => m = minted[a.talk] /\ ~done
        /\ b = complete => m = a.id /\ (done \/ mintable)}

Turned ==
  LET n == SelectDueFairly(queue)
  IN [queue EXCEPT !.cursor = IF n = Len(queue.actions) THEN 1 ELSE n + 1]

\* The selected action becomes b; the cursor has moved on.
Serve(b) == Persist([Turned EXCEPT !.actions[SelectDueFairly(queue)] = b])

CursorUnsaved ==
  /\ failures < MaxFailedSaves /\ failures' = failures + 1
  /\ queue' = Turned
  /\ UNCHANGED <<saved, open, inflight, window, minted, crashes>>

OutOfTime(a) ==
  \/ a.phase = "OfferPendingDelivery" /\ window[a.id] \in {"ending", "passed"}
  \/ a.phase = "Offered"

SetAside(a) ==
  /\ \/ a.controller # active /\ Serve([a EXCEPT !.due = "later"])
     \/ /\ a.controller = active /\ OutOfTime(a)
        /\ Serve(Ended(a, "Expired"))
  /\ UNCHANGED <<open, inflight, window, minted, crashes>>

DeliverAgain(a) ==
  /\ a.pending # None /\ Serve(a) /\ inflight' = a.id
  /\ UNCHANGED <<open, window, minted, crashes>>

Hand(b) == inflight' = (IF b.pending # None THEN b.id ELSE None)

InspectOffer(a) ==
  /\ a.phase = "Requested"
  /\ \E b \in Inspected(a) :
       /\ Serve(b) /\ Hand(b)
       /\ window' = (IF b.inspected THEN [window EXCEPT ![a.id] = "ample"] ELSE window)
  /\ UNCHANGED <<open, minted, crashes>>

\* The process may die between the mint and the save of its outcome.
CompleteBranding(a) ==
  /\ a.pending = None /\ a.phase \in {"Consented", "FundingRequired"}
  /\ \E o \in Executed(a) :
       /\ minted' = [minted EXCEPT ![a.talk] = o[2]]
       /\ \/ Serve(o[1]) /\ Hand(o[1]) /\ UNCHANGED <<open, crashes>>
          \/ /\ crashes < MaxCrashes /\ crashes' = crashes + 1
             /\ open' = FALSE /\ saved' = Turned /\ queue' = Turned
             /\ UNCHANGED <<inflight, failures>>
  /\ UNCHANGED window

HasDue == open /\ inflight = None /\ DueIndices # {}

\* The cursor is saved before the chain is asked.
MaintainOne ==
  /\ HasDue
  /\ LET a == queue.actions[SelectDueFairly(queue)]
     IN \/ CursorUnsaved
        \/ SetAside(a)
        \/ /\ a.controller = active /\ ~OutOfTime(a)
           /\ DeliverAgain(a) \/ InspectOffer(a) \/ CompleteBranding(a)
  /\ UNCHANGED <<active, treasury, bound, offers>>

\* Without an active registration nothing is attempted yet.
DeferDue ==
  /\ open /\ inflight = None /\ DueIndices # {}
  /\ Persist([queue EXCEPT !.actions =
                [n \in Indices |-> IF Due(queue.actions[n])
                                   THEN [queue.actions[n] EXCEPT !.due = "later"]
                                   ELSE queue.actions[n]]])
  /\ UNCHANGED <<open, inflight, window, world, bound, offers, crashes>>

\* An acknowledgement finds its action by the text that was sent, if that is
\* still pending.
AcknowledgeDelivery(delivered) ==
  /\ open /\ inflight # None
  /\ inflight' = None
  /\ LET Awaiting == {n \in Indices : /\ queue.actions[n].id = inflight
                                      /\ queue.actions[n].pending # None}
     IN IF Awaiting = {} THEN UNCHANGED <<queue, saved, failures>>
        ELSE \E n \in Awaiting :
          LET a == queue.actions[n]
              told == CASE a.pending = "Offer" ->
                             [a EXCEPT !.pending = None, !.phase = "Offered", !.due = "deadline"]
                        [] a.pending = "Funding" ->
                             [a EXCEPT !.pending = None, !.noticed = TRUE, !.due = "later"]
                        [] a.pending = "Receipt" ->
                             [Ended(a, "Completed") EXCEPT !.consent = None]
          IN Persist(With(n, IF delivered THEN told ELSE [a EXCEPT !.due = "later"]))
  /\ UNCHANGED <<open, window, world, bound, offers, crashes>>

-----------------------------------------------------------------------------
(* Time, the chain, faults and restarts. *)

Aged(s) ==
  [s EXCEPT !.actions =
     [n \in DOMAIN s.actions |->
        [s.actions[n] EXCEPT !.due = IF @ = "later" THEN "now" ELSE @, !.noticed = FALSE]]]

\* Retries come due and funding notices may be repeated.
RetryTime ==
  /\ open /\ Aged(queue) # queue
  /\ queue' = Aged(queue) /\ saved' = Aged(saved)
  /\ UNCHANGED <<open, inflight, window, world, bound, offers, crashes, failures>>

\* Elsewhere nothing reads the deadline.
DeadlineMatters(a) ==
  \/ a.phase \in Unsigned \cup {"Consented", "FundingRequired"}
  \/ a.phase = "FailedPermanent" /\ a.executable

NextWindow == [ample |-> "closing", closing |-> "ending", ending |-> "passed"]

\* The deadline of an offer draws near and passes.
Reached(s, id) ==
  [s EXCEPT !.actions =
     [n \in DOMAIN s.actions |->
        IF s.actions[n].id = id /\ s.actions[n].due = "deadline"
        THEN [s.actions[n] EXCEPT !.due = "now"] ELSE s.actions[n]]]

DeadlineNears(id) ==
  /\ open /\ window[id] \in DOMAIN NextWindow
  /\ \E n \in Indices : queue.actions[n].id = id /\ DeadlineMatters(queue.actions[n])
  /\ window' = [window EXCEPT ![id] = NextWindow[@]]
  /\ IF window'[id] = "ending"
     THEN queue' = Reached(queue, id) /\ saved' = Reached(saved, id)
     ELSE UNCHANGED <<queue, saved>>
  /\ UNCHANGED <<open, inflight, world, bound, offers, crashes, failures>>

\* A day or a month: every deadline is over, and the follow-up cooldown and then
\* the retention of ended actions pass.
GrowOld(s) ==
  [s EXCEPT !.actions =
     [n \in DOMAIN s.actions |->
        IF s.actions[n].phase \in Terminal THEN [s.actions[n] EXCEPT !.old = TRUE]
        ELSE IF s.actions[n].due = "deadline" THEN [s.actions[n] EXCEPT !.due = "now"]
        ELSE s.actions[n]]]

LongTimePasses ==
  /\ open /\ GrowOld(queue) # queue
  /\ queue' = GrowOld(queue) /\ saved' = GrowOld(saved)
  /\ window' = [id \in DOMAIN window |-> IF window[id] = "none" THEN "none" ELSE "passed"]
  /\ UNCHANGED <<open, inflight, world, bound, offers, crashes, failures>>

WorldMoves ==
  /\ \/ active' \in Controller \ {active} /\ UNCHANGED treasury
     \/ treasury' \in Treasury \ {treasury} /\ UNCHANGED active
  /\ UNCHANGED <<queue, saved, open, inflight, window, minted, bound, offers, crashes, failures>>

Crash ==
  /\ open /\ crashes < MaxCrashes
  /\ crashes' = crashes + 1
  /\ open' = FALSE /\ inflight' = None /\ queue' = saved
  /\ UNCHANGED <<saved, window, world, bound, offers, failures>>

Open ==
  /\ ~open /\ ValidSnapshot(saved)
  /\ open' = TRUE /\ queue' = saved /\ inflight' = None
  /\ UNCHANGED <<saved, window, world, bound, offers, crashes, failures>>

Init ==
  /\ queue = [actions |-> <<>>, cursor |-> 1] /\ saved = queue
  /\ open = TRUE /\ inflight = None
  /\ window = [id \in 1..MaxOffers |-> "none"]
  /\ active \in Controller /\ treasury \in Treasury
  /\ minted = [t \in Talk |-> None] /\ bound = {}
  /\ offers = 0 /\ crashes = 0 /\ failures = 0

\* The control messages of an authenticated conversation.
HandlePublicMessage ==
  \/ \E t \in Talk, r \in Referrer : ReplaceReferrerFromRequest(t, r)
  \/ \E n \in 1..MAX_ACTIONS : Decline(n) \/ \E s \in Signature : AcceptConsent(n, s)

Next ==
  \/ \E t \in Talk, r \in Referrer : EnqueueDefaultOffer(t, r)
  \/ HandlePublicMessage
  \/ MaintainOne \/ DeferDue
  \/ \E delivered \in BOOLEAN : AcknowledgeDelivery(delivered)
  \/ RetryTime \/ LongTimePasses
  \/ \E id \in 1..MaxOffers : DeadlineNears(id)
  \/ WorldMoves \/ Crash \/ Open

Spec == Init /\ [][Next]_offersVars

\* The supervisor's loop runs, reopens after a crash and gives an unanswered
\* delivery up after thirty seconds; the registration is active in the end, so
\* that a step that puts off what is due is one of the loop's own.  The loop's
\* fairness spells out when MaintainOne is enabled.
Fairness ==
  /\ <>[][DeferDue => MaintainOne]_offersVars
  /\ []<>~HasDue \/ []<><<MaintainOne>>_offersVars
  /\ WF_offersVars(Open)
  /\ WF_offersVars(\E d \in BOOLEAN : AcknowledgeDelivery(d))

FairSpec == Spec /\ Fairness

-----------------------------------------------------------------------------
(* Properties. *)

OnDisk(id) == {n \in DOMAIN saved.actions : saved.actions[n].id = id}

\* "Never cancel execution that already carries authority", "i won't mint from
\* it": while a consent may be executed no other action of the conversation is
\* live; an offer whose consent was answered as bound stays bound on disk until
\* its deadline; and only a bound offer is ever minted from.
ConsentIsBinding ==
  /\ \A m, n \in Indices :
       /\ m # n /\ queue.actions[m].talk = queue.actions[n].talk
       /\ \/ queue.actions[m].phase \in Executing
          \/ /\ queue.actions[m].phase = "FailedPermanent" /\ queue.actions[m].executable
             /\ window[queue.actions[m].id] # "passed"
       => queue.actions[n].phase \in Terminal
  /\ \A id \in bound : \A n \in OnDisk(id) :
       \/ saved.actions[n].phase \in Executing \cup {"Completed", "FailedPermanent"}
       \/ saved.actions[n].phase = "Superseded" /\ window[id] = "passed"
  /\ \A t \in Talk : minted[t] # None => minted[t] \in bound

\* "One failing action can never starve the rest after a crash": an action that
\* is due is served or retired, whatever the others do.
EveryDueActionServed ==
  \A id \in 1..MaxOffers :
    []<>~(\E n \in Indices : queue.actions[n].id = id /\ Due(queue.actions[n]))
=============================================================================
