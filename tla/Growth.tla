------------------------------- MODULE Growth -------------------------------
(***************************************************************************)
(* Acolyte growth: first-touch referral attribution, onboarding, the       *)
(* one-time bounty and its notices, with the signer that pays it.  The     *)
(* growth runtime lives in memory (state) and saves a snapshot (saved)     *)
(* after every change; a save is refused when the snapshot is invalid, and *)
(* most callers then keep the changed memory.  The signer keeps a journal  *)
(* per Acolyte and broadcasts at most one transaction per nonce.           *)
(***************************************************************************)
EXTENDS Naturals, Sequences, FiniteSets

CONSTANTS
  Address,       \* Acolytes, referrers and operators are Ethereum addresses
  minter,        \* the address of the Tentacle's treasury
  Inbox,         \* XMTP inboxes
  ContactUses,   \* the <<inbox, address>> pairs that Acolytes write from
  OperatorUses,  \* the <<inbox, address>> pairs operators write from
  Reward,        \* bounty amounts a configuration may set
  MAX_RECORDS,
  MaxCrashes,    \* bound: crashes and restarts
  MaxFailedSaves,\* bound: saves that fail for want of disk
  OperatorsAnswer,\* some active operator acknowledges notices in the end
  None           \* no value

VARIABLES
  state,         \* the growth snapshot in memory, None while not running
  saved,         \* the snapshot on disk
  reward,        \* the amount the running configuration sets
  accepted,      \* history: the referrers acknowledged to an Acolyte as its own
  inflight,      \* the notice handed to XMTP and not yet acknowledged
  journal,       \* the signer's durable journal, by Acolyte
  allocated,     \* the Acolyte whose action holds the next nonce
  payments,      \* the transactions broadcast, in the order of their nonces
  mined,         \* how many of them are in a block
  funded,        \* the treasury covers amount and gas
  crashes, failures

chain == <<journal, allocated, payments, mined>>
growthVars == <<state, saved, reward, accepted, inflight, chain, funded, crashes, failures>>

Phase == {"NewContact", "Direct", "Attributed", "OnboardingComplete",
          "RewardPending", "Submitted", "Confirmed"}
Due == {"now", "later", "never"}

Record ==
  [inbox: Inbox, referrer: Address \cup {None}, referrer_inbox: Inbox \cup {None},
   phase: Phase, onboarded: BOOLEAN, amount: Reward, nonce: Nat \cup {None},
   delivery: {None, "funding", "confirmed"}, noticed: BOOLEAN, next_attempt: Due]

Snapshot ==
  [records: [Address -> Record \cup {None}], operators: [Address -> Inbox \cup {None}],
   operator: (Inbox \X Address) \cup {None}, prompt: {"idle", "due", "pending"},
   reminders: BOOLEAN]

\* The signer's journal of one Acolyte's bounty.
Entry == [referrer: Address, amount: Reward, nonce: Nat, hash: BOOLEAN]

GrowthParameters ==
  /\ minter \in Address
  /\ ContactUses \subseteq Inbox \X Address
  /\ OperatorUses \subseteq Inbox \X Address
  /\ None \notin Address \cup Inbox \cup Nat \cup Record \cup Entry \cup Snapshot
  /\ None \notin {"funding", "confirmed", "prompt"} \cup (Inbox \X Address)
  /\ "prompt" \notin Address
  /\ {MAX_RECORDS, MaxCrashes, MaxFailedSaves} \subseteq Nat

ASSUME GrowthAssumption == GrowthParameters

\* Nothing in the code keeps an Acolyte from the inbox its referrer has left, or
\* another wallet from an inbox that the Branding of its first one still names;
\* then memory holds a snapshot that no save accepts.  That needs two wallets of
\* one inbox of which one moves, or an operator who shares its inbox.
InboxesApart ==
  /\ \A u \in ContactUses, v \in OperatorUses : u[1] # v[1]
  /\ \A u, v \in ContactUses :
       u[1] = v[1] /\ u[2] # v[2] => \A w \in ContactUses : w[2] = u[2] => w = u

-----------------------------------------------------------------------------
(* The snapshot and its validation. *)

NewRecord(inbox, phase) ==
  [inbox |-> inbox, referrer |-> None, referrer_inbox |-> None, phase |-> phase,
   onboarded |-> FALSE, amount |-> reward, nonce |-> None, delivery |-> None,
   noticed |-> FALSE, next_attempt |-> "never"]

KnownAcolytes(snapshot) == {a \in Address : snapshot.records[a] # None}

Unrewarded == {"NewContact", "Direct", "Attributed"}
Rewarding == {"OnboardingComplete", "RewardPending", "Submitted"}

\* What a phase demands of the other fields.
PhaseFits(r) ==
  /\ (r.phase \in {"NewContact", "Direct"}) = (r.referrer = None)
  /\ r.onboarded = (r.phase \notin {"NewContact", "Attributed"})
  /\ r.phase \in Unrewarded \cup {"OnboardingComplete", "RewardPending"} => r.nonce = None
  /\ r.phase \in {"Submitted", "Confirmed"} => r.nonce # None
  /\ r.phase = "OnboardingComplete" => r.next_attempt # "never"
  /\ r.delivery = "funding" => r.phase = "RewardPending"
  /\ r.delivery = "confirmed" => r.phase = "Confirmed"

ValidSnapshot(s, amount) ==
  /\ Cardinality(KnownAcolytes(s)) <= MAX_RECORDS
  /\ s.operator # None => s.operators[s.operator[2]] = s.operator[1]
  /\ s.operators[minter] = None
  /\ \A a, b \in Address : s.operators[a] # None /\ s.operators[a] = s.operators[b] => a = b
  /\ \A a \in KnownAcolytes(s) :
       LET r == s.records[a] IN
       /\ \A b \in KnownAcolytes(s) : s.records[b].inbox = r.inbox => a = b
       /\ r.referrer # None => minter \notin {a, r.referrer} /\ r.referrer # a
       /\ (r.referrer = None) = (r.referrer_inbox = None)
       /\ r.referrer_inbox # r.inbox
       /\ PhaseFits(r)
       /\ r.phase # "Confirmed" => r.amount = amount

\* Memory takes the new snapshot first; the disk only if it is valid and the
\* write succeeds.
Persist(next) ==
  /\ state' = next
  /\ \/ /\ saved' = (IF ValidSnapshot(next, reward) THEN next ELSE saved)
        /\ UNCHANGED failures
     \/ /\ failures < MaxFailedSaves
        /\ failures' = failures + 1
        /\ UNCHANGED saved

\* The two callers that restore memory when the save fails.
PersistOrRollback(next) ==
  \/ /\ ValidSnapshot(next, reward)
     /\ state' = next /\ saved' = next /\ UNCHANGED failures
  \/ /\ \/ ~ValidSnapshot(next, reward) /\ UNCHANGED failures
        \/ failures < MaxFailedSaves /\ failures' = failures + 1
     /\ UNCHANGED <<state, saved>>

Update(a, r) == [state EXCEPT !.records[a] = r]

Running == state # None
world == <<chain, funded, crashes>>

-----------------------------------------------------------------------------
(* Contacts, attribution and onboarding. *)

\* Mutant: an inbox may open a record for every wallet it uses.
IdentityNeverConflicts(inbox, a) == FALSE

\* One inbox keeps the wallet it was first seen with.
IdentityConflicts(inbox, a) ==
  \E b \in KnownAcolytes(state) \ {a} : state.records[b].inbox = inbox

RoomForRecord(a) ==
  a \in KnownAcolytes(state) \/ Cardinality(KnownAcolytes(state)) < MAX_RECORDS

\* A contact that returns on another inbox takes the notices of those it
\* referred along.
MovedContact(inbox, a) ==
  [state EXCEPT !.records =
     [b \in Address |->
        IF b = a THEN [@[a] EXCEPT !.inbox = inbox]
        ELSE IF @[b] # None /\ @[b].referrer = a /\ @[b].inbox # inbox
             THEN [@[b] EXCEPT !.referrer_inbox = inbox]
             ELSE @[b]]]

MarkContact(inbox, a) ==
  /\ Running /\ ~IdentityConflicts(inbox, a) /\ RoomForRecord(a)
  /\ IF a \in KnownAcolytes(state)
     THEN state.records[a].inbox # inbox /\ Persist(MovedContact(inbox, a))
     ELSE Persist(Update(a, NewRecord(inbox, "NewContact")))
  /\ UNCHANGED <<world, reward, accepted, inflight>>

\* The inbox of an established Acolyte, or else of an operator.
VerifiedReferrerInbox(r) ==
  IF r \in KnownAcolytes(state) /\ state.records[r].onboarded
  THEN state.records[r].inbox ELSE state.operators[r]

\* Mutant: a pinned referrer can be replaced until onboarding completes.
AttributableUntilOnboarded(a) ==
  a \in KnownAcolytes(state) => ~state.records[a].onboarded

Attributable(a) ==
  a \in KnownAcolytes(state) =>
    state.records[a].referrer = None /\ ~state.records[a].onboarded

\* An Acolyte whose referrer is pinned is told which it is.
HandleControl(inbox, a, referrer) ==
  /\ Running /\ ~IdentityConflicts(inbox, a)
  /\ minter \notin {a, referrer} /\ a # referrer
  /\ \/ /\ ~Attributable(a)
        /\ state.records[a].referrer # None
        /\ accepted' = [accepted EXCEPT ![a] = @ \cup {state.records[a].referrer}]
        /\ UNCHANGED <<state, saved, failures>>
     \/ /\ Attributable(a)
        /\ VerifiedReferrerInbox(referrer) \notin {None, inbox}
        /\ RoomForRecord(a)
        /\ LET r == IF a \in KnownAcolytes(state) THEN state.records[a]
                    ELSE NewRecord(inbox, "Attributed")
           IN Persist(Update(a, [r EXCEPT !.inbox = inbox, !.referrer = referrer,
                                    !.referrer_inbox = VerifiedReferrerInbox(referrer),
                                    !.phase = "Attributed"]))
        /\ accepted' = (IF saved' = state' THEN [accepted EXCEPT ![a] = @ \cup {referrer}]
                        ELSE accepted)
  /\ UNCHANGED <<world, reward, inflight>>

\* Earlier operators stay verified referrers; recruitment follows the new one.
RegisterOperator(inbox, a) ==
  /\ Running /\ a # minter /\ state.operator # <<inbox, a>>
  /\ PersistOrRollback(
       [state EXCEPT
          !.operators = [b \in Address |-> IF b = a THEN inbox
                                           ELSE IF @[b] = inbox THEN None ELSE @[b]],
          !.operator = <<inbox, a>>,
          !.prompt = IF @ = "pending" THEN "due" ELSE @,
          !.records = [b \in Address |->
             IF @[b] # None /\ @[b].referrer = a /\ @[b].inbox # inbox
             THEN [@[b] EXCEPT !.referrer_inbox = inbox] ELSE @[b]]])
  /\ UNCHANGED <<world, reward, accepted, inflight>>

\* The terminal event is saved before the bounty is prepared; the preparation
\* is a save of its own.
MarkOnboardingComplete(inbox, a) ==
  /\ Running /\ ~IdentityConflicts(inbox, a) /\ RoomForRecord(a)
  /\ a \in KnownAcolytes(state) => ~state.records[a].onboarded
  /\ LET r == IF a \in KnownAcolytes(state) THEN state.records[a]
              ELSE NewRecord(inbox, "Direct")
         done == [r EXCEPT !.inbox = inbox, !.onboarded = TRUE,
                    !.phase = IF r.referrer = None THEN "Direct" ELSE "OnboardingComplete",
                    !.next_attempt = IF r.referrer = None THEN "never" ELSE "now"]
         next == IF r.referrer = None THEN Update(a, done)
                 ELSE [Update(a, done) EXCEPT !.prompt = "due"]
         prepared == [next EXCEPT !.records[a].phase = "RewardPending"]
     IN IF r.referrer = None THEN Persist(next) /\ UNCHANGED crashes
        ELSE \/ Persist(next) /\ saved' # next /\ UNCHANGED crashes
             \/ /\ ValidSnapshot(next, reward)
                /\ \/ state' = prepared /\ saved' = prepared /\ UNCHANGED <<failures, crashes>>
                   \/ /\ failures < MaxFailedSaves /\ failures' = failures + 1
                      /\ state' = prepared /\ saved' = next /\ UNCHANGED crashes
                   \/ /\ crashes < MaxCrashes /\ crashes' = crashes + 1
                      /\ state' = None /\ saved' = next /\ UNCHANGED failures
  /\ inflight' = (IF state' = None THEN None ELSE inflight)
  /\ UNCHANGED <<chain, funded, reward, accepted>>

\* A decline or a finished Branding reports the inbox its action was made for,
\* which may be one the Acolyte has left.  When it was seen is abstracted.
NoteBrandingState(inbox, a) ==
  /\ Running /\ a \in KnownAcolytes(state)
  /\ state.records[a].inbox # inbox
  /\ Persist([state EXCEPT !.records[a].inbox = inbox])
  /\ UNCHANGED <<world, reward, accepted, inflight>>

-----------------------------------------------------------------------------
(* The signer.  An outcome is what it leaves behind and what it answers; it *)
(* may die, or its answer be lost, after any of its steps.                  *)

Outcome(j, h, p, answer) ==
  [journal |-> j, allocated |-> h, payments |-> p, answer |-> answer]

Stays(answer) == Outcome(journal, allocated, payments, answer)

TransferOf(a, r) == [acolyte |-> a, referrer |-> r.referrer, amount |-> r.amount]

\* The request is not the one the journal was written for.
Conflicts(a, r) ==
  LET j == journal[a] IN
    IF j = None THEN r.nonce # None
    ELSE \/ j.referrer # r.referrer \/ j.amount # r.amount
         \/ r.nonce # None /\ (~j.hash \/ j.nonce # r.nonce)

Receipt(nonce) == IF mined > nonce THEN "confirmed" ELSE "submitted"

\* Mutant: a reserved nonce is refused to its own action too.
SignerBusyForAll(a) == allocated # None

\* One transaction at a time; a reserved nonce belongs to its action.
SignerBusy(a) ==
  IF Len(payments) > mined THEN allocated # a ELSE allocated \notin {None, a}

\* The journal is durable before the broadcast, the hash after it.
Paid(a, r) ==
  LET n == IF journal[a] = None THEN mined ELSE journal[a].nonce
      entry == [referrer |-> r.referrer, amount |-> r.amount, nonce |-> n, hash |-> FALSE]
      written == [journal EXCEPT ![a] = entry]
      sent == IF Len(payments) > n THEN payments ELSE Append(payments, TransferOf(a, r))
  IN {Outcome(journal, a, payments, "error"), Outcome(written, a, payments, "error"),
      Outcome(written, a, sent, "error"),
      Outcome([written EXCEPT ![a].hash = TRUE], a, sent, "submitted")}

ExecuteReferralBounty(a, r) ==
  {Stays("error")} \cup
  IF Conflicts(a, r) THEN {}
  ELSE IF journal[a] # None /\ journal[a].hash
       THEN {Stays(Receipt(journal[a].nonce))}
  ELSE IF journal[a] # None /\ mined > journal[a].nonce
       THEN IF payments[journal[a].nonce + 1] = TransferOf(a, r)
            THEN {Outcome([journal EXCEPT ![a].hash = TRUE], allocated, payments, "confirmed")}
            ELSE {}
  ELSE IF ~funded THEN {Stays("funding")}
  ELSE IF SignerBusy(a) THEN {}
  ELSE Paid(a, r)

Mine ==
  /\ mined < Len(payments)
  /\ mined' = mined + 1 /\ allocated' = None
  /\ UNCHANGED <<state, saved, reward, accepted, inflight, journal, payments,
                 funded, crashes, failures>>

-----------------------------------------------------------------------------
(* One maintenance step of the supervisor, notices first. *)

PromptReady == state.operator # None /\ state.reminders
Notices == {a \in KnownAcolytes(state) : state.records[a].delivery # None}
DueRewards ==
  {a \in KnownAcolytes(state) : state.records[a].phase \in Rewarding
                           /\ state.records[a].next_attempt = "now"}

\* What the answer of the signer makes of the record.
Answered(r, nonce, answer) ==
  CASE answer = "error" -> [r EXCEPT !.next_attempt = "later"]
    [] answer = "funding" /\ r.noticed ->
         [r EXCEPT !.phase = "RewardPending", !.next_attempt = "later"]
    [] answer = "funding" /\ ~r.noticed ->
         [r EXCEPT !.phase = "RewardPending", !.delivery = "funding"]
    [] answer = "submitted" ->
         [r EXCEPT !.phase = "Submitted", !.nonce = nonce, !.next_attempt = "later"]
    [] answer = "confirmed" ->
         [r EXCEPT !.phase = "Confirmed", !.nonce = nonce, !.delivery = "confirmed",
                   !.next_attempt = "never"]

Hand(notice) == inflight' = notice

\* The process may also die between the signer's answer and the save.
ReconcileReward(a) ==
  \E o \in ExecuteReferralBounty(a, state.records[a]) :
    LET next == Update(a, Answered(state.records[a], o.journal[a].nonce, o.answer))
    IN /\ journal' = o.journal /\ allocated' = o.allocated /\ payments' = o.payments
       /\ \/ /\ Persist(next)
             /\ UNCHANGED crashes
             /\ Hand(IF next.records[a].delivery # None /\ saved' = next THEN a ELSE None)
          \/ /\ crashes < MaxCrashes /\ crashes' = crashes + 1
             /\ state' = None /\ inflight' = None /\ UNCHANGED <<saved, failures>>

MaintainOne ==
  /\ Running /\ inflight = None
  /\ IF PromptReady /\ state.prompt = "pending"
     THEN Hand("prompt") /\ UNCHANGED <<state, saved, failures, chain, crashes>>
     ELSE IF Notices # {}
     THEN (\E a \in Notices : Hand(a)) /\ UNCHANGED <<state, saved, failures, chain, crashes>>
     ELSE IF DueRewards # {}
     THEN \E a \in DueRewards :
            IF state.records[a].phase = "OnboardingComplete"
            THEN /\ Persist([state EXCEPT !.records[a].phase = "RewardPending"])
                 /\ UNCHANGED <<inflight, chain, crashes>>
            ELSE ReconcileReward(a) /\ UNCHANGED mined
     ELSE /\ PromptReady /\ state.prompt = "due"
          /\ Persist([state EXCEPT !.prompt = "pending"])
          /\ Hand(IF saved' = state' THEN "prompt" ELSE None)
          /\ UNCHANGED <<chain, crashes>>
  /\ UNCHANGED <<reward, accepted, funded>>

\* Without an active registration nothing is attempted yet.
DeferDue ==
  /\ Running /\ inflight = None /\ DueRewards # {}
  /\ Persist([state EXCEPT !.records =
                [a \in Address |-> IF a \in DueRewards
                                   THEN [@[a] EXCEPT !.next_attempt = "later"] ELSE @[a]]])
  /\ UNCHANGED <<world, reward, accepted, inflight>>

\* Any inbox may be unreachable, and there may be no active operator at all.
AcknowledgeDelivery(delivered) ==
  /\ Running /\ inflight # None
  /\ inflight' = None
  /\ IF inflight = "prompt"
     THEN IF state.prompt = "pending"
          THEN Persist([state EXCEPT !.prompt = IF delivered THEN "idle" ELSE @])
          ELSE UNCHANGED <<state, saved, failures>>
     ELSE LET r == state.records[inflight]
              told == [r EXCEPT !.delivery = None,
                         !.noticed = r.delivery = "funding" \/ @,
                         !.next_attempt = IF r.delivery = "funding" THEN "later" ELSE @]
          IN Persist(Update(inflight, IF delivered THEN told ELSE r))
  /\ UNCHANGED <<world, reward, accepted>>

\* daily, weekly, off, snooze and quiet hours: reminders are allowed or not.
ReminderPreferences(allowed) ==
  /\ Running /\ allowed # state.reminders
  /\ PersistOrRollback([state EXCEPT !.reminders = allowed,
                                     !.prompt = IF @ = "pending" THEN "due" ELSE @])
  /\ UNCHANGED <<world, reward, accepted, inflight>>

-----------------------------------------------------------------------------
(* Time, faults and restarts. *)

\* Retries and the next prompt come due, and the notice's cooldown ends.
AgedRecord(r) ==
  [r EXCEPT !.noticed = FALSE, !.next_attempt = IF @ = "later" THEN "now" ELSE @]

Aged(s) ==
  [s EXCEPT
     !.prompt = IF @ = "idle" THEN "due" ELSE @,
     !.records = [a \in Address |-> IF @[a] = None THEN None ELSE AgedRecord(@[a])]]

TimePasses ==
  /\ Running /\ Aged(state) # state
  /\ state' = Aged(state) /\ saved' = Aged(saved)
  /\ UNCHANGED <<world, reward, accepted, inflight, failures>>

Fund ==
  /\ ~funded /\ funded' = TRUE
  /\ UNCHANGED <<state, saved, reward, accepted, inflight, chain,
                 crashes, failures>>

Crash ==
  /\ Running /\ crashes < MaxCrashes
  /\ crashes' = crashes + 1
  /\ state' = None /\ inflight' = None
  /\ UNCHANGED <<saved, reward, accepted, chain, funded, failures>>

\* Records without a promised bounty adopt a new amount; anything else that
\* is invalid keeps the runtime from opening.
Migrated(amount) ==
  [saved EXCEPT !.records =
     [a \in Address |-> IF @[a] # None /\ @[a].phase \in Unrewarded
                        THEN [@[a] EXCEPT !.amount = amount] ELSE @[a]]]

Open(amount) ==
  /\ ~Running
  /\ ValidSnapshot(Migrated(amount), amount)
  /\ reward' = amount
  /\ state' = Migrated(amount) /\ saved' = Migrated(amount)
  /\ UNCHANGED <<world, accepted, inflight, failures>>

Fresh ==
  [records |-> [a \in Address |-> None], operators |-> [a \in Address |-> None],
   operator |-> None, prompt |-> "idle", reminders |-> TRUE]

GrowthInit ==
  /\ state = Fresh /\ saved = Fresh /\ reward \in Reward
  /\ accepted = [a \in Address |-> {}] /\ inflight = None
  /\ journal = [a \in Address |-> None] /\ allocated = None
  /\ payments = <<>> /\ mined = 0
  /\ funded = FALSE
  /\ crashes = 0 /\ failures = 0

GrowthNext ==
  \/ \E u \in ContactUses :
       \/ MarkContact(u[1], u[2]) \/ MarkOnboardingComplete(u[1], u[2])
       \/ NoteBrandingState(u[1], u[2])
       \/ \E r \in Address : HandleControl(u[1], u[2], r)
  \/ \E u \in OperatorUses : RegisterOperator(u[1], u[2])
  \/ MaintainOne \/ DeferDue
  \/ \E delivered \in BOOLEAN : AcknowledgeDelivery(delivered)
  \/ \E allowed \in BOOLEAN : ReminderPreferences(allowed)
  \/ Mine \/ TimePasses \/ Fund \/ Crash
  \/ \E amount \in Reward : Open(amount)

GrowthSpec == GrowthInit /\ [][GrowthNext]_growthVars

\* The signer answers.
SignerAnswers ==
  /\ MaintainOne
  /\ \E a \in DueRewards : Running' /\ state'.records[a].phase # state.records[a].phase

OperatorNotice ==
  inflight = "prompt" \/ (inflight # None /\ state.records[inflight].delivery = "funding")

\* The supervisor's loop maintains, hands over and waits thirty seconds for the
\* acknowledgement; transactions are mined; a signer asked again and again, with
\* the registration active, answers, an Acolyte's inbox takes a notice in the
\* end, and from some time on nobody changes reminders.  Operators acknowledge
\* only if OperatorsAnswer.
Interrupts == \E allowed \in BOOLEAN : ReminderPreferences(allowed)

Fairness ==
  /\ <>[][~Interrupts]_growthVars
  /\ WF_growthVars(MaintainOne)
  /\ WF_growthVars(\E d \in BOOLEAN : AcknowledgeDelivery(d))
  /\ WF_growthVars(TimePasses) /\ WF_growthVars(Mine)
  /\ WF_growthVars(\E amount \in Reward : Open(amount))
  /\ SF_growthVars(SignerAnswers)
  /\ SF_growthVars(AcknowledgeDelivery(TRUE) /\ (OperatorsAnswer \/ ~OperatorNotice))

FairGrowth == GrowthSpec /\ Fairness

-----------------------------------------------------------------------------
(* Properties. *)

\* No two transactions pay for the same Acolyte.
PaidOnce ==
  \A m, n \in DOMAIN payments : payments[m].acolyte = payments[n].acolyte => m = n

\* "The first accepted referrer for an acolyte address is canonical and
\* immutable" and "one acolyte can never create two rewards": an Acolyte is
\* told of one referrer only, whatever crashes in between, at most one transfer
\* is made for it, and that goes to the pinned referrer, for the promised
\* amount, after a completed onboarding that is on disk.
BountyAsPinned ==
  /\ \A a \in Address : Cardinality(accepted[a]) <= 1
  /\ PaidOnce
  /\ \A n \in DOMAIN payments :
       LET r == saved.records[payments[n].acolyte] IN
         /\ r # None /\ r.onboarded
         /\ r.referrer = payments[n].referrer /\ r.amount = payments[n].amount
         /\ accepted[payments[n].acolyte] \subseteq {r.referrer}

\* The snapshot in memory can always be saved, and the one on disk opened: no
\* order of contacts, moves and rebindings makes one the validation refuses.
SnapshotSavable ==
  /\ Running => ValidSnapshot(state, reward)
  /\ ValidSnapshot(saved, reward)

\* "Reconciliation resumes automatically after funding": once the treasury is
\* and stays funded, every promised bounty is confirmed and its referrer told,
\* whatever notices, prompts, lost answers and restarts come in between.
Promised(a) == a \in KnownAcolytes(saved) /\ saved.records[a].phase \in Rewarding
Settled(a) ==
  /\ a \in KnownAcolytes(saved)
  /\ saved.records[a].phase = "Confirmed" /\ saved.records[a].delivery = None

ResumesWhenFunded == <>[]funded => \A a \in Address : Promised(a) ~> Settled(a)
=============================================================================
