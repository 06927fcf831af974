---------------------------- MODULE Registration ----------------------------
(***************************************************************************)
(* The durable ERC-8004 registration of a Tentacle (cthuwu/src/erc8004.rs) *)
(* with the one-shot signer it starts for every write                      *)
(* (agent/src/erc8004.ts) and the wallet's part of the chain.              *)
(*                                                                         *)
(* The process runs one operation at a time; job says at which call of the *)
(* signer it waits.  Between any two calls the chain moves, a call fails,  *)
(* the process dies.  A signer left behind by a dead process runs on.      *)
(* The wallet's n-th transaction is chain[n]; its nonce is n - 1.  Reads   *)
(* go to providers whose heads lie between firm, below which no block is   *)
(* reorganized, and the newest block.  Discovery reads at final.           *)
(***************************************************************************)
EXTENDS Integers, Sequences, FiniteSets

CONSTANTS
  Fields,        \* what follow-up writes publish, in reconcile_agent's order
  Worlds,        \* registries and bindings a process may find first
  auto_register,
  NewAgent,      \* an identity minted by chain[n] is NewAgent + n
  MaxFaults, MaxLost, MaxCrashes, MaxReorgs, MaxReplacements, MaxReverts,
  MaxForeign, MaxCommands, MaxBlocks,  \* bounds of a run, and of all together:
  MaxTroubles,
  None

AllFields == <<"wallet", "uri", "allegiance", "protocol", "tentacle_id">>
Field == {Fields[i] : i \in DOMAIN Fields}
Values == [Field -> Nat]

ASSUME RegistrationAssumption ==
  /\ Fields \in Seq({AllFields[i] : i \in DOMAIN AllFields})
  /\ {"uri", "allegiance"} \subseteq Field
  /\ NewAgent \in Nat /\ auto_register \in BOOLEAN
  /\ \A w \in Worlds : /\ DOMAIN w.agents \subseteq 1..NewAgent
                       /\ \A a \in DOMAIN w.agents : w.agents[a] \in Values
                       /\ w.bound \in DOMAIN w.agents \cup {None}
  /\ {MaxFaults, MaxLost, MaxCrashes, MaxReorgs, MaxReplacements, MaxReverts,
      MaxForeign, MaxCommands, MaxBlocks, MaxTroubles} \subseteq Nat

VARIABLES
  \* The process.
  state,       \* RegistrationSnapshot in memory
  disk,        \* the snapshot the store holds
  audited,     \* startup_integrity_complete
  audits,      \* startup audits the process has still to make
  job,         \* the operation under way
  \* The signers and their journals.
  helpers,     \* signers running a write
  allocated,   \* [nonce, by]: the payload a nonce was given to
  mint_allocation,
  actions,     \* action ids drawn so far
  \* The chain.
  agents,      \* identities older than this installation, with their fields
  chain, firm, final,
  height,      \* the finalized block a discovery reads at
  mempool,
  sent,        \* transactions broadcast so far
  used         \* how much of every bound was spent

process == <<state, disk, audited, audits, job>>
signer == <<helpers, allocated, mint_allocation, actions>>
ledger == <<agents, chain, firm, final, height, mempool, sent>>
vars == <<process, signer, ledger, used>>

Spend(what, bound) ==
  /\ used[what] < bound /\ used.all < MaxTroubles
  /\ used' = [used EXCEPT ![what] = @ + 1, !.all = @ + 1]

Fault == Spend("faults", MaxFaults)
Calm == UNCHANGED used

-----------------------------------------------------------------------------
(* The registry as a reader at the k-th transaction sees it. *)

Latest == Len(chain)

\* What eth_getTransactionCount answers for the pending block.
Pending ==
  CHOOSE n \in Latest..(Latest + Cardinality(mempool)) :
    /\ \A t \in mempool : t.nonce # n
    /\ \A m \in Latest..(n - 1) : \E t \in mempool : t.nonce = m

Done(kind, k) == {i \in 1..k : chain[i].ok /\ chain[i].tx.kind = kind}

AgentsAt(k) == DOMAIN agents \cup {NewAgent + i : i \in Done("Register", k)}

FieldAt(a, f, k) ==
  LET writes == {i \in Done("Set", k) : chain[i].tx.agent = a /\ chain[i].tx.field = f}
  IN IF writes = {}
     THEN IF a \in DOMAIN agents THEN agents[a][f] ELSE 0
     ELSE chain[CHOOSE i \in writes : \A j \in writes : j <= i].tx.value

ValuesAt(a, k) == [f \in Field |-> FieldAt(a, f, k)]

Authorized(a, k) == \A i \in Done("Transfer", k) : chain[i].tx.agent # a

\* classifyDiscoveredAgent: the evidence of one identity at block k.
Classify(a, k) ==
  LET v == ValuesAt(a, k)
      current == Authorized(a, k)
      exact == v["uri"] # 0 \/ ("tentacle_id" \in Field /\ v["tentacle_id"] # 0)
      markers == v["allegiance"] # 0 /\ ("protocol" \in Field => v["protocol"] # 0)
      same == current /\ exact
  IN [id |-> a, same |-> same,
      ambiguous |-> ~same /\ (current \/ markers \/ exact),
      evidence |-> exact \/ (markers /\ current),
      seen |-> v, authorized |-> current]

\* The candidates of discoverAgents.
CandidatesAt(k) == {c \in {Classify(a, k) : a \in AgentsAt(k)} : c.same \/ c.ambiguous}

\* matchedRegistrationAgentIds.
Matched(nonce, k) == {NewAgent + i : i \in {j \in Done("Register", k) : j = nonce + 1}}

-----------------------------------------------------------------------------
(* The snapshot. *)

Register == [kind |-> "Register"]
SetField(f, v) == [kind |-> "Set", field |-> f, value |-> v]
FollowUp == [kind: {"Set"}, field: Field, value: Nat]

Optional(S) == S \cup {None}
Allocated == [aid: Nat, nonce: Nat]
Tx ==
  [nonce: Nat, aid: Optional(Nat), kind: {"Register", "Set", "Foreign", "Transfer"},
   field: Field \cup {"none"}, value: Nat, agent: Optional(Nat), proof: Optional(Nat),
   serial: Nat]

\* Whatever may be absent is told apart from its absence.
ASSUME NoneAssumption ==
  /\ None \notin Nat /\ None # Register
  /\ None \notin FollowUp /\ None \notin Allocated /\ None \notin Tx

\* RegistrationSnapshot::fresh, or a migrated record that names its identity.
Fresh(bound) ==
  [phase |-> IF bound = None THEN "Unconfigured" ELSE "ConfirmedIdentity",
   action |-> None, aid |-> None, nonce |-> None, hash |-> None,
   agent |-> bound, ignored |-> {}, adoption |-> None, candidates |-> {},
   mint |-> None, checkpoint |-> FALSE, failure |-> "none",
   desired |-> TRUE, revision |-> 1]

\* RegistrationSnapshot::validate.
Validate(s) ==
  /\ s.agent # None => \A d \in s.ignored : s.agent < d
  /\ s.mint # None => s.checkpoint
  /\ s.adoption # None => s.agent = s.adoption
  /\ s.hash # None => s.action # None
  /\ s.action # None <=> s.aid # None
  /\ s.hash = None /\ s.action # None =>
       \/ s.phase = "Preparing"
       \/ s.action = Register /\ s.phase \in {"Discovering", "DiscoveryIncomplete"}
  /\ s.nonce # None => s.action # None
  /\ s.hash # None => s.nonce # None

Idle ==
  [at |-> "idle", why |-> "none", exhaustive |-> FALSE, force |-> FALSE,
   observed |-> None, bound |-> None, agent |-> None, seen |-> None]

\* persist: a snapshot the validator refuses is kept in memory, not written,
\* and ends the operation.
Persist(s, next) ==
  /\ state' = s
  /\ IF Validate(s) THEN disk' = s /\ job' = next ELSE disk' = disk /\ job' = Idle

Continue(next) == job' = next /\ UNCHANGED <<state, disk>>
GiveUp == Continue(Idle)

Retire(s) == [s EXCEPT !.action = None, !.aid = None, !.nonce = None, !.hash = None]

\* fail.
Failed(s, kind) ==
  [s EXCEPT !.phase = IF kind = "recoverable" THEN "FailedRecoverable" ELSE "FailedPermanent",
            !.failure = kind]

\* record_gateway_failure.
GatewayFailure(s) ==
  IF s.hash = None /\ s.action # None
  THEN [s EXCEPT !.failure = "recoverable"] ELSE Failed(s, "recoverable")

\* discovery_incomplete.
DiscoveryIncomplete(s) ==
  [s EXCEPT !.phase = "DiscoveryIncomplete", !.mint = None, !.failure = "recoverable"]

\* suspend.
Suspend(s) ==
  [IF s.hash = None /\ s.action # Register THEN Retire(s) ELSE s
     EXCEPT !.phase = "Suspended", !.failure = "recoverable"]

\* adopt_confirmed_with_provenance.
AdoptConfirmed(s, a, receipt) ==
  [Retire(s) EXCEPT !.agent = a, !.ignored = {}, !.adoption = receipt,
                    !.phase = "ConfirmedIdentity", !.failure = "none", !.mint = None]

\* repair_canonical_binding.
RepairCanonicalBinding(s, a, duplicates) ==
  [Retire(s) EXCEPT !.agent = a, !.ignored = duplicates,
                    !.adoption = IF s.adoption = a THEN a ELSE None,
                    !.phase = "ConfirmedIdentity", !.failure = "none", !.mint = None]

\* retire_consumed_action.
RetireConsumed(s) ==
  [Retire(s) EXCEPT !.mint = IF s.action = Register THEN None ELSE s.mint,
                    !.failure = "none",
                    !.phase = IF s.agent # None THEN "ConfirmedIdentity" ELSE "Discovering"]

UnresolvedRegister == state.hash = None /\ state.action = Register

\* What the identity should publish: build_agent_uri, desired_allegiance.
\* Protocol and Tentacle ID are only written under a declared allegiance.
Wanted(s, f, found) ==
  CASE f = "uri" -> s.revision
    [] f = "allegiance" -> IF s.desired THEN 1 ELSE 0
    [] f = "wallet" -> 1
    [] OTHER -> IF s.desired THEN 1 ELSE found

\* The positions reconcile_agent still has to write.
Missing(s, seen) ==
  {i \in DOMAIN Fields : seen[Fields[i]] # Wanted(s, Fields[i], seen[Fields[i]])}

\* pending_action_is_satisfied.
Satisfied(s, seen) ==
  /\ s.action # Register
  /\ seen[s.action.field] = IF s.action.field = "uri" THEN s.revision ELSE s.action.value

Init ==
  \E w \in Worlds :
    /\ agents = w.agents
    /\ state = Fresh(w.bound)
    /\ disk = state
    /\ audited = FALSE /\ audits = 2 /\ job = Idle
    /\ helpers = {} /\ allocated = {} /\ mint_allocation = None /\ actions = 0
    /\ chain = <<>> /\ firm = 0 /\ final = 0 /\ height = 0 /\ mempool = {} /\ sent = 0
    /\ used = [faults |-> 0, lost |-> 0, crashes |-> 0, reorgs |-> 0, replacements |-> 0,
               reverts |-> 0, foreign |-> 0, commands |-> 0, blocks |-> 0,
               all |-> 0]

-----------------------------------------------------------------------------
(* maintain_with_discovery *)

MaintainFrom(s, exhaustive, force) ==
  LET next == [Idle EXCEPT !.at = "deployment", !.why = "maintain",
                           !.exhaustive = exhaustive, !.force = force]
  IN IF exhaustive
     THEN audited' = FALSE /\ Persist([s EXCEPT !.phase = "Discovering"], next)
     ELSE /\ UNCHANGED audited
          /\ IF s = state THEN Continue(next) ELSE Persist(s, next)

\* maintain_startup: once before the transport starts, once by the supervisor.
MaintainStartup ==
  /\ job = Idle /\ audits > 0
  /\ audits' = audits - 1
  /\ MaintainFrom(state, TRUE, FALSE)
  /\ Calm /\ UNCHANGED <<signer, ledger>>

\* The supervisor's loop.
Maintain ==
  /\ job = Idle /\ audits = 0
  /\ MaintainFrom(state, ~audited, FALSE)
  /\ Calm /\ UNCHANGED <<audits, signer, ledger>>

\* Discovering is persisted unless an unresolved registration is already there.
ToDiscovery(j) ==
  IF UnresolvedRegister /\ state.phase \in {"Preparing", "Discovering"}
  THEN Continue(j) ELSE Persist([state EXCEPT !.phase = "Discovering"], j)

\* inspect_registry answered; set_allegiance and republish_profile reconcile.
Deployment ==
  /\ job.at = "deployment"
  /\ \/ /\ Fault /\ UNCHANGED audited
        /\ IF job.why = "maintain" THEN Persist(GatewayFailure(state), Idle) ELSE GiveUp
     \/ /\ job.why = "command" /\ Calm
        /\ audited' = TRUE
        /\ Continue([job EXCEPT !.at = "reconcile", !.agent = state.agent])
     \/ /\ job.why = "maintain" /\ ~job.exhaustive /\ Calm /\ UNCHANGED audited
        /\ \/ state.hash # None /\ Continue([job EXCEPT !.at = "receipt"])
           \/ /\ state.hash = None /\ state.agent # None
              /\ Continue([job EXCEPT !.at = "reconcile", !.agent = state.agent])
           \/ /\ state.hash = None /\ state.agent = None
              /\ ToDiscovery([job EXCEPT !.at = "discover"])
     \/ /\ job.why = "maintain" /\ job.exhaustive /\ Calm /\ UNCHANGED audited
        /\ IF state.agent # None
           THEN Persist([state EXCEPT !.phase = "Discovering"], [job EXCEPT !.at = "bound"])
           ELSE ToDiscovery([job EXCEPT !.at = "discover"])
  /\ UNCHANGED <<audits, signer, ledger>>

\* The persisted binding is inspected directly, at the newest block.
InspectBinding ==
  /\ job.at = "bound"
  /\ \/ Fault /\ audited' = FALSE /\ Persist(DiscoveryIncomplete(state), Idle)
     \/ /\ Calm /\ UNCHANGED audited
        /\ ToDiscovery([job EXCEPT !.at = "discover",
             !.bound = IF state.agent \notin AgentsAt(Latest) THEN "absent"
                       ELSE IF Authorized(state.agent, Latest) THEN "ours" ELSE "lost"])
  /\ UNCHANGED <<audits, signer, ledger>>

\* Seeded fault: the proof is withheld as soon as it was used, for a replay too.
MintAuthorizationOnce(k) == IF CandidatesAt(k) = {} /\ mint_allocation = None THEN height ELSE None

\* The proof of absence discovery publishes: buildDiscoveryJournal and
\* selectDiscoveryMintAuthorization.
MintAuthorization(k) ==
  IF /\ CandidatesAt(k) = {}
     /\ mint_allocation # None =>
          /\ state.action = Register
          /\ mint_allocation = [aid |-> state.aid, nonce |-> state.nonce]
  THEN height ELSE None

\* The identities discovery takes for this Tentacle.
SameTentacle(s, matched) ==
  {c.id : c \in {x \in s.candidates :
                   x.same \/ x.id \in matched \/ (x.ambiguous /\ x.evidence /\ x.id = s.adoption)}}

Least(S) == CHOOSE x \in S : \A y \in S : x <= y

\* A canonical identity was found.
SelectCanonical(same) ==
  LET canonical == Least(same)
      duplicates == same \ {canonical}
      s == IF state.agent # canonical \/ state.ignored # duplicates
           THEN RepairCanonicalBinding(state, canonical, duplicates)
           ELSE [state EXCEPT !.mint = None, !.failure = "none"]
  IN Persist(s, IF s.hash # None THEN [job EXCEPT !.at = "receipt"]
                ELSE [job EXCEPT !.at = "reconcile", !.agent = canonical])

\* A persisted binding that discovery does not prove is never replaced.
KeepUnprovenBinding(ids) ==
  \/ /\ job.bound = "ours" /\ state.agent \notin ids
     /\ audited' = FALSE /\ Persist(DiscoveryIncomplete(state), Idle)
  \/ /\ job.bound = "ours" /\ state.agent \in ids
     /\ UNCHANGED audited /\ Persist(Failed(state, "recoverable"), Idle)
  \/ /\ job.bound = "lost"
     /\ UNCHANGED audited /\ Persist(Suspend(state), Idle)

\* No identity is proven and none is unaccounted for.  An unresolved
\* registration is resumed, a new one needs the proof of absence.
DecideMint ==
  \/ /\ UnresolvedRegister
     /\ audited' = TRUE
     /\ IF state.mint = None THEN GiveUp ELSE Continue([job EXCEPT !.at = "register_nonce"])
  \/ /\ ~UnresolvedRegister /\ state.mint = None
     /\ UNCHANGED audited /\ GiveUp
  \/ /\ ~UnresolvedRegister /\ state.mint # None
     /\ audited' = TRUE
     /\ Persist([state EXCEPT !.phase = "VerifiedNoExistingIdentity"],
                IF auto_register \/ job.force THEN [job EXCEPT !.at = "funding"] ELSE Idle)

\* discover; a stale checkpoint is dropped and the scan repeated in full.
Discover ==
  /\ job.at = "discover"
  /\ \/ Fault /\ audited' = FALSE /\ Persist(DiscoveryIncomplete(state), Idle)
     \/ /\ Fault /\ state.checkpoint /\ UNCHANGED audited
        /\ Persist([state EXCEPT !.checkpoint = FALSE, !.mint = None], job)
     \/ /\ Calm /\ UNCHANGED audited
        /\ Persist([state EXCEPT !.checkpoint = TRUE, !.candidates = CandidatesAt(final),
                                 !.mint = MintAuthorization(final)],
                   [job EXCEPT !.at = "decide", !.observed = final])
  /\ UNCHANGED <<audits, signer, ledger>>

\* What follows from a complete discovery.
Decide ==
  LET matched == IF state.action = Register /\ state.nonce # None
                 THEN Matched(state.nonce, job.observed) ELSE {}
      same == SameTentacle(state, matched)
      ids == {c.id : c \in state.candidates}
      outcome_known == UnresolvedRegister /\ matched # {}
  IN /\ job.at = "decide"
     /\ \/ same # {} /\ audited' = TRUE /\ SelectCanonical(same)
        \/ /\ same = {} /\ state.hash # None
           /\ audited' = TRUE /\ Continue([job EXCEPT !.at = "receipt"])
        \/ /\ same = {} /\ outcome_known
           /\ audited' = TRUE
           /\ Persist(AdoptConfirmed(state, Least(matched), None),
                      [job EXCEPT !.at = "reconcile", !.agent = Least(matched)])
        \/ /\ same = {} /\ state.hash = None /\ ~outcome_known
           /\ \/ KeepUnprovenBinding(ids)
              \/ /\ job.bound \in {"absent", None} /\ ids # {}
                 /\ audited' = (state.agent = None)
                 /\ Persist(Failed(state, "recoverable"), Idle)
              \/ job.bound \in {"absent", None} /\ ids = {} /\ DecideMint
     /\ Calm /\ UNCHANGED <<audits, signer, ledger>>

\* prepare_action: the intent is durable before the signer may broadcast.
PrepareAction(s, action, next) ==
  IF s.hash # None \/ s.action # None \/ s.nonce # None
  THEN /\ state' = s /\ job' = Idle /\ UNCHANGED <<disk, actions>>
  ELSE /\ actions' = actions + 1
       /\ Persist([s EXCEPT !.action = action, !.aid = actions, !.phase = "Preparing",
                            !.failure = "none"], next)

\* funding_estimate before registration; that the wallet is funded is saved first.
Funding ==
  /\ job.at = "funding"
  /\ \/ /\ Fault /\ UNCHANGED actions
        /\ \/ Persist(GatewayFailure(state), Idle)
           \/ Persist([state EXCEPT !.phase = "FundingRequired"], Idle)
     \/ /\ Calm /\ UNCHANGED actions
        /\ Persist([state EXCEPT !.phase = "ReadyToRegister"], [job EXCEPT !.at = "prepare"])
  /\ UNCHANGED <<audited, audits, helpers, allocated, mint_allocation, ledger>>

PrepareRegistration ==
  /\ job.at = "prepare" /\ Calm
  /\ PrepareAction(state, Register, [job EXCEPT !.at = "register_nonce"])
  /\ UNCHANGED <<audited, audits, helpers, allocated, mint_allocation, ledger>>

-----------------------------------------------------------------------------
(* resume_unknown_registration, submit_prepared *)

\* signer_nonces: the confirmed nonce, at the observed block if one is named.
ConfirmedNonces(observed) == IF observed = None THEN firm..Latest ELSE {observed}

Write(s, next) ==
  [aid |-> s.aid, nonce |-> s.nonce, kind |-> s.action.kind,
   field |-> IF s.action = Register THEN "none" ELSE s.action.field,
   value |-> IF s.action = Register THEN 0
             ELSE IF s.action.field = "uri" THEN s.revision ELSE s.action.value,
   agent |-> next.agent, proof |-> IF s.action = Register THEN s.mint ELSE None,
   live |-> TRUE, hash |-> None,
   step |-> IF s.action = Register THEN "authorize" ELSE "allocate"]

\* The write is handed to a signer once its nonce is durable.
StartWrite(s) ==
  LET next == [job EXCEPT !.at = "write", !.agent = IF s.action = Register THEN None ELSE s.agent]
  IN /\ IF s = state THEN Continue(next) ELSE Persist(s, next)
     /\ helpers' = IF s = state \/ Validate(s) THEN helpers \cup {Write(s, next)} ELSE helpers

RegisterNonce ==
  /\ job.at = "register_nonce"
  /\ \/ /\ state.mint = None /\ Calm /\ GiveUp /\ UNCHANGED <<audited, helpers>>
     \/ /\ state.mint # None /\ Fault
        /\ Persist(GatewayFailure(state), Idle) /\ UNCHANGED <<audited, helpers>>
     \/ /\ state.mint # None /\ Calm
        /\ \E latest \in ConfirmedNonces(job.observed) :
             \/ /\ state.nonce # None /\ latest > state.nonce
                /\ Persist(IF job.observed = None
                           THEN [state EXCEPT !.phase = "Discovering", !.failure = "recoverable"]
                           ELSE [Retire(state) EXCEPT !.phase = "Discovering",
                                                      !.mint = None, !.failure = "none"], Idle)
                /\ UNCHANGED <<audited, helpers>>
             \/ /\ state.nonce # None /\ latest <= state.nonce
                /\ StartWrite(state) /\ UNCHANGED audited
             \/ /\ state.nonce = None /\ Pending # latest
                /\ audited' = FALSE /\ UNCHANGED helpers
                /\ Persist(DiscoveryIncomplete(state), Idle)
             \/ /\ state.nonce = None /\ Pending = latest
                /\ StartWrite([state EXCEPT !.nonce = Pending]) /\ UNCHANGED audited
  /\ UNCHANGED <<audits, allocated, mint_allocation, actions, ledger>>

FollowUpNonce ==
  /\ job.at = "follow_up_nonce"
  /\ \/ Fault /\ Persist(GatewayFailure(state), Idle) /\ UNCHANGED helpers
     \/ /\ Calm
        /\ \E latest \in ConfirmedNonces(None) :
             \/ /\ state.nonce # None /\ latest > state.nonce
                /\ Persist(RetireConsumed(state), Idle) /\ UNCHANGED helpers
             \/ state.nonce # None /\ latest <= state.nonce /\ StartWrite(state)
             \/ state.nonce = None /\ StartWrite([state EXCEPT !.nonce = Pending])
  /\ UNCHANGED <<audited, audits, allocated, mint_allocation, actions, ledger>>

\* The signer's answer, or the time-out that kills it.
WriteAnswered ==
  /\ job.at = "write"
  /\ \E h \in helpers :
       /\ h.live
       /\ helpers' = helpers \ {h}
       /\ \/ /\ h.step = "sent" /\ Calm
             /\ Persist([state EXCEPT !.hash = h.hash, !.phase = "Submitted",
                                      !.failure = "none"], Idle)
          \/ /\ h.step \in {"recoverable", "permanent"} /\ Calm
             /\ Persist([state EXCEPT !.failure = h.step], Idle)
          \/ /\ Spend("lost", MaxLost)
             /\ Persist([state EXCEPT !.failure = "recoverable"], Idle)
  /\ UNCHANGED <<audited, audits, allocated, mint_allocation, actions, ledger>>

-----------------------------------------------------------------------------
(* resume_submitted, recover_unconfirmed_submission *)

\* The canonical, confirmed outcome of the submitted transaction.
Confirmed(entry, i) ==
  LET s == Retire(state)
  IN IF ~entry.ok THEN Failed(s, "recoverable")
     ELSE IF state.action = Register
     THEN [s EXCEPT !.agent = NewAgent + i, !.ignored = {}, !.mint = None,
                    !.phase = "ConfirmedIdentity", !.failure = "none"]
     ELSE [s EXCEPT !.failure = "none",
                    !.phase = CASE state.action.field = "uri" -> "PublishingProfile"
                                [] state.action.field = "allegiance" -> "DeclaringAllegiance"
                                [] OTHER -> "ConfirmedIdentity"]

Receipt ==
  /\ job.at = "receipt"
  /\ \/ Fault /\ Persist([state EXCEPT !.failure = "recoverable"], Idle)
     \/ /\ Calm
        /\ \E head \in firm..Latest :
             LET at == {i \in 1..head : chain[i].tx = state.hash}
             IN \/ at = {} /\ Continue([job EXCEPT !.at = "recover"])
                \/ at # {} /\ \A i \in at : i > firm /\ GiveUp
                \/ \E i \in at : i <= firm /\ Persist(Confirmed(chain[i], i), Idle)
  /\ UNCHANGED <<audited, audits, signer, ledger>>

\* resubmit_current_action.
Resubmit(s) ==
  IF s.action = Register THEN [job EXCEPT !.at = "register_nonce", !.observed = None]
  ELSE [job EXCEPT !.at = "follow_up_nonce"]

\* Seeded fault: the consumed nonce of a registration is taken for its failure.
ConsumedRetired(s) == RetireConsumed(s)

\* The nonce is used but no receipt shows it: a registration stays open until
\* discovery has explained it.
Consumed(s) ==
  IF s.action = Register
  THEN [s EXCEPT !.hash = None, !.phase = "Discovering", !.failure = "recoverable"]
  ELSE RetireConsumed(s)

\* No canonical receipt: whether it was never there or was reorganized away
\* only shows while the nonce is still pending.
Recover ==
  /\ job.at = "recover"
  /\ \/ Fault /\ Persist(GatewayFailure(state), Idle)
     \/ /\ Calm
        /\ \E latest \in ConfirmedNonces(None) :
             \/ latest > state.nonce /\ Persist(Consumed(state), Idle)
             \/ /\ latest <= state.nonce /\ Pending <= state.nonce
                /\ Persist([state EXCEPT !.hash = None, !.phase = "Preparing",
                                         !.failure = "recoverable"], Resubmit(state))
             \/ /\ latest <= state.nonce /\ Pending > state.nonce
                /\ \/ GiveUp
                   \/ used.reorgs > 0 /\ Persist(Failed(state, "recoverable"), Idle)
  /\ UNCHANGED <<audited, audits, signer, ledger>>

-----------------------------------------------------------------------------
(* reconcile_agent *)

\* The next field to write, or the end of the registration.
Publish(s, seen) ==
  IF Missing(s, seen) # {} THEN Persist(s, [job EXCEPT !.at = "remaining_funding", !.seen = seen])
  ELSE IF s.desired THEN Persist([s EXCEPT !.failure = "none", !.phase = "Active"], Idle)
  ELSE Persist(Suspend([s EXCEPT !.failure = "none"]), Idle)

Reconcile ==
  LET seen == ValuesAt(job.agent, Latest)
      lost_follow_up == /\ state.phase = "Preparing" /\ state.hash = None
                        /\ state.action \notin {None, Register}
  IN /\ job.at = "reconcile"
     /\ \/ Fault /\ Persist(GatewayFailure(state), Idle)
        \/ job.agent \notin AgentsAt(Latest) /\ Calm /\ GiveUp
        \/ /\ job.agent \in AgentsAt(Latest) /\ Calm
           /\ \/ ~Authorized(job.agent, Latest) /\ Persist(Suspend(state), Idle)
              \/ /\ Authorized(job.agent, Latest) /\ lost_follow_up
                 /\ IF Satisfied(state, seen)
                    THEN Publish([Retire(state) EXCEPT !.failure = "none",
                                                       !.phase = "ConfirmedIdentity"], seen)
                    ELSE Continue([job EXCEPT !.at = "follow_up_nonce"])
              \/ /\ Authorized(job.agent, Latest) /\ ~lost_follow_up
                 /\ IF Missing(state, seen) = {} THEN Publish(state, seen)
                    ELSE Continue([job EXCEPT !.at = "remaining_funding", !.seen = seen])
     /\ UNCHANGED <<audited, audits, signer, ledger>>

\* funding_estimate, then the first field that differs is prepared.
RemainingFunding ==
  LET f == Fields[Least(Missing(state, job.seen))]
  IN /\ job.at = "remaining_funding"
     /\ \/ /\ Fault /\ UNCHANGED actions
           /\ \/ Persist(Failed(state, "recoverable"), Idle)
              \/ Persist([state EXCEPT !.phase = "FundingRequired"], Idle)
        \/ /\ Calm
           /\ PrepareAction(
                [state EXCEPT !.phase = CASE f = "uri" -> "PublishingProfile"
                                          [] f = "allegiance" /\ state.desired -> "DeclaringAllegiance"
                                          [] OTHER -> @],
                SetField(f, IF f = "uri" THEN 0 ELSE Wanted(state, f, job.seen[f])),
                [job EXCEPT !.at = "follow_up_nonce"])
     /\ UNCHANGED <<audited, audits, helpers, allocated, mint_allocation, ledger>>

-----------------------------------------------------------------------------
(* The signer: executeWrite *)

\* What signerActionFingerprint covers, the proof of absence included.
Payload(x) ==
  [aid |-> x.aid, field |-> x.field, value |-> x.value, agent |-> x.agent, proof |-> x.proof]

\* A signer whose process died has nobody to answer.
Settle(h, step, hash) ==
  helpers' = (helpers \ {h}) \cup (IF h.live THEN {[h EXCEPT !.step = step, !.hash = hash]} ELSE {})

Advance(h, step) == helpers' = (helpers \ {h}) \cup {[h EXCEPT !.step = step]}

\* The installation's only registration is free or was given to this action.
MintFree(h) == mint_allocation \in {None, [aid |-> h.aid, nonce |-> h.nonce]}

\* Seeded fault: the proof is checked but never used up.
BindNothing(h) == UNCHANGED mint_allocation

\* bindMintAuthorizationUse.
BindMintAuthorizationUse(h) == mint_allocation' = [aid |-> h.aid, nonce |-> h.nonce]

\* authorizeRegistrationMint: one registration per installation, and none
\* when the newest block shows an identity or an uncovered transaction.
Authorize(h) ==
  LET exact == mint_allocation = [aid |-> h.aid, nonce |-> h.nonce]
  IN /\ h.step = "authorize"
     /\ \/ /\ ~MintFree(h)
           /\ Settle(h, "permanent", None) /\ Calm /\ UNCHANGED mint_allocation
        \/ Fault /\ Settle(h, "recoverable", None) /\ UNCHANGED mint_allocation
        \/ /\ MintFree(h) /\ Calm
           /\ IF \/ CandidatesAt(Latest) # {}
                 \/ ~exact /\ (Pending # Latest \/ h.nonce # Pending)
              THEN Settle(h, "recoverable", None) /\ UNCHANGED mint_allocation
              ELSE Advance(h, "allocate") /\ BindMintAuthorizationUse(h)
     /\ UNCHANGED <<process, allocated, actions, ledger>>

Allocation(h) == [nonce |-> h.nonce, by |-> Payload(h)]
Taken(n) == \E x \in allocated : x.nonce = n

\* Seeded fault: any allocation of the nonce permits its use.
PermittedByNonce(h) == h.nonce = Pending \/ Taken(h.nonce)

\* authorizeSignerNonce: a free pending nonce, or one given to this payload.
Permitted(h) == (h.nonce = Pending /\ ~Taken(h.nonce)) \/ Allocation(h) \in allocated

\* estimateGas, assertTransactionNonceWindow, authorizeSignerNonce.
Allocate(h) ==
  LET reverts == /\ h.kind = "Set"
                 /\ h.agent \notin AgentsAt(Latest) \/ ~Authorized(h.agent, Latest)
  IN /\ h.step = "allocate"
     /\ \/ /\ Fault \/ (Calm /\ (reverts \/ h.nonce < Latest))
           /\ Settle(h, "recoverable", None) /\ UNCHANGED allocated
        \/ /\ Calm /\ ~reverts /\ h.nonce >= Latest
           /\ h.nonce > Pending \/ ~Permitted(h)
           /\ Settle(h, "permanent", None) /\ UNCHANGED allocated
        \/ /\ Calm /\ ~reverts /\ h.nonce \in Latest..Pending
           /\ Permitted(h)
           /\ allocated' = allocated \cup {Allocation(h)}
           /\ Advance(h, "send")
     /\ UNCHANGED <<process, mint_allocation, actions, ledger>>

Transaction(h) ==
  [nonce |-> h.nonce, aid |-> h.aid, kind |-> h.kind, field |-> h.field, value |-> h.value,
   agent |-> h.agent, proof |-> h.proof, serial |-> sent]

\* sendTransaction: the provider may refuse it, and replaces a pending one
\* only for a better fee.
Send(h) ==
  LET tx == Transaction(h)
      rivals == {t \in mempool : t.nonce = h.nonce}
  IN /\ h.step = "send"
     /\ \/ /\ Fault \/ (Calm /\ (h.nonce < Latest \/ rivals # {}))
           /\ Settle(h, "recoverable", None) /\ UNCHANGED <<mempool, sent>>
        \/ /\ h.nonce >= Latest
           /\ used.replacements + Cardinality(rivals) <= MaxReplacements
           /\ used' = [used EXCEPT !.replacements = @ + Cardinality(rivals)]
           /\ mempool' = (mempool \ rivals) \cup {tx}
           /\ sent' = sent + 1
           /\ Settle(h, "sent", tx)
     /\ UNCHANGED <<process, allocated, mint_allocation, actions, agents, chain, firm, final, height>>

-----------------------------------------------------------------------------
(* The operator's commands *)

Commanded == job = Idle /\ audits < 2 /\ Spend("commands", MaxCommands)

Commands == [Idle EXCEPT !.at = "deployment", !.why = "command"]

SetAllegiance(declare) ==
  /\ Commanded /\ state.agent # None
  /\ Persist([state EXCEPT !.desired = declare], Commands)
  /\ UNCHANGED <<audited, audits, signer, ledger>>

RepublishProfile ==
  /\ Commanded /\ state.agent # None
  /\ Persist([state EXCEPT !.revision = @ + 1], Commands)
  /\ UNCHANGED <<audited, audits, signer, ledger>>

\* /registry-register forces a registration, /registry-refresh is one more pass.
RegisterCommand(force) ==
  /\ Commanded
  /\ MaintainFrom(state, ~audited, force)
  /\ UNCHANGED <<audits, signer, ledger>>

\* /registry-recover
RecoverCommand ==
  /\ Commanded
  /\ MaintainFrom(state, TRUE, FALSE)
  /\ UNCHANGED <<audits, signer, ledger>>

Retry ==
  LET follow_up == /\ state.phase = "Preparing" /\ state.hash = None
                   /\ state.action \notin {None, Register}
      known == state.hash # None /\ state.failure = "recoverable"
      again == [state EXCEPT !.hash = None, !.phase = "Preparing", !.failure = "none"]
      afresh == [state EXCEPT !.failure = "none",
                   !.phase = IF state.agent # None THEN "ConfirmedIdentity" ELSE "Discovering"]
  IN /\ Commanded
     /\ \/ known /\ ~audited /\ MaintainFrom(state, TRUE, FALSE)
        \/ known /\ audited /\ Persist(again, Resubmit(again)) /\ UNCHANGED audited
        \/ UnresolvedRegister /\ MaintainFrom(state, ~audited, FALSE)
        \/ follow_up /\ Continue(Resubmit(state)) /\ UNCHANGED audited
        \/ /\ state.phase = "FailedRecoverable" /\ state.hash = None
           /\ ~UnresolvedRegister /\ ~follow_up
           /\ IF Validate(afresh) THEN MaintainFrom(afresh, ~audited, FALSE)
              ELSE Persist(afresh, Idle) /\ UNCHANGED audited
     /\ UNCHANGED <<audits, signer, ledger>>

\* The candidate the operator may adopt: a migration candidate with evidence,
\* when no identity is proven and no outcome is open.
Adoptable(a) ==
  /\ state.hash = None /\ state.action = None /\ audited /\ state.checkpoint
  /\ \A c \in state.candidates : ~c.same
  /\ \E c \in state.candidates : c.id = a /\ c.ambiguous /\ c.evidence

Adopt(a) ==
  /\ Commanded /\ Adoptable(a)
  /\ Continue([Idle EXCEPT !.at = "adopt", !.agent = a])
  /\ UNCHANGED <<audited, audits, signer, ledger>>

\* inspect_agent for adopt: nothing may have changed since discovery.
AdoptInspected ==
  /\ job.at = "adopt"
  /\ \/ Fault /\ GiveUp /\ UNCHANGED audited
     \/ /\ Calm
        /\ IF \E c \in state.candidates :
                 /\ c.id = job.agent /\ c.id \in AgentsAt(Latest)
                 /\ c.authorized /\ Authorized(c.id, Latest) /\ c.seen = ValuesAt(c.id, Latest)
           THEN /\ audited' = TRUE
                /\ Persist(AdoptConfirmed(state, job.agent, job.agent), [job EXCEPT !.at = "reconcile"])
           ELSE GiveUp /\ UNCHANGED audited
  /\ UNCHANGED <<audits, signer, ledger>>

\* The process dies; the signer it started may run on.
Crash ==
  /\ Spend("crashes", MaxCrashes)
  /\ state' = disk /\ UNCHANGED disk
  /\ audited' = FALSE /\ audits' = 2 /\ job' = Idle
  /\ helpers' \in {{h \in helpers : ~h.live},
                   {[h EXCEPT !.live = FALSE] :
                      h \in {x \in helpers : x.step \in {"authorize", "allocate", "send"}}}}
  /\ UNCHANGED <<allocated, mint_allocation, actions, ledger>>

-----------------------------------------------------------------------------
(* The chain *)

Keep == UNCHANGED <<process, signer, agents>>

\* The wallet's next transaction is executed.
Execute ==
  \E t \in mempool :
    /\ t.nonce = Latest
    /\ \/ /\ Calm
          /\ chain' = Append(chain, [tx |-> t, ok |-> t.kind = "Set" =>
                       t.agent \in AgentsAt(Latest) /\ Authorized(t.agent, Latest)])
       \/ /\ t.kind = "Register" /\ Spend("reverts", MaxReverts)
          /\ chain' = Append(chain, [tx |-> t, ok |-> FALSE])
    /\ mempool' = {u \in mempool : u.nonce # t.nonce}
    /\ Keep /\ UNCHANGED <<firm, final, height, sent>>

Confirm ==
  /\ firm < Latest /\ firm' = firm + 1
  /\ Keep /\ Calm /\ UNCHANGED <<chain, final, height, mempool, sent>>

Finalize ==
  /\ final < firm /\ final' = final + 1 /\ height' = height + 1
  /\ Keep /\ Calm /\ UNCHANGED <<chain, firm, mempool, sent>>

\* A block without a transaction of the wallet becomes final.
FinalizeEmpty ==
  /\ Spend("blocks", MaxBlocks) /\ height' = height + 1
  /\ Keep /\ UNCHANGED <<chain, firm, final, mempool, sent>>

\* The newest block is replaced; its transaction is pending again or lost.
Reorg ==
  /\ Latest > firm /\ Spend("reorgs", MaxReorgs)
  /\ chain' = SubSeq(chain, 1, Latest - 1)
  /\ \/ UNCHANGED mempool
     \/ mempool' = mempool \cup {chain[Latest].tx}
  /\ Keep /\ UNCHANGED <<firm, final, height, sent>>

\* A pending transaction is forgotten.
Drop ==
  /\ Fault
  /\ \E t \in mempool : mempool' = mempool \ {t}
  /\ Keep /\ UNCHANGED <<chain, firm, final, height, sent>>

\* The wallet is also used elsewhere: for something else, or to give an
\* identity away.
Foreign ==
  /\ Spend("foreign", MaxForeign)
  /\ \E kind \in {"Foreign", "Transfer"}, a \in AgentsAt(Latest) \cup {None} :
       /\ kind = "Foreign" <=> a = None
       /\ mempool' = mempool \cup
            {[nonce |-> Pending, aid |-> None, kind |-> kind, field |-> "none", value |-> 0,
              agent |-> a, proof |-> None, serial |-> sent]}
  /\ sent' = sent + 1
  /\ Keep /\ UNCHANGED <<chain, firm, final, height>>

-----------------------------------------------------------------------------
Signer == \E h \in helpers : Authorize(h) \/ Allocate(h) \/ Send(h)

Runtime ==
  \/ MaintainStartup \/ Maintain
  \/ Deployment \/ InspectBinding \/ Discover \/ Decide \/ Funding
  \/ PrepareRegistration \/ RegisterNonce \/ FollowUpNonce \/ WriteAnswered \/ Receipt \/ Recover
  \/ Reconcile \/ RemainingFunding \/ AdoptInspected

Operator ==
  \/ \E declare \in BOOLEAN : SetAllegiance(declare)
  \/ \E force \in BOOLEAN : RegisterCommand(force)
  \/ RepublishProfile \/ RecoverCommand \/ Retry
  \/ \E a \in AgentsAt(Latest) : Adopt(a)

Chain == Execute \/ Confirm \/ Finalize

Next ==
  \/ Runtime \/ Operator \/ Signer \/ Crash
  \/ Chain \/ FinalizeEmpty \/ Reorg \/ Drop \/ Foreign

\* The supervisor's loop goes on, a signer runs to its end, blocks are made.
Fairness == WF_vars(Runtime) /\ WF_vars(Signer) /\ WF_vars(Chain)

Spec == Init /\ [][Next]_vars /\ Fairness

-----------------------------------------------------------------------------
(* Properties *)

Transactions == mempool \cup {chain[i].tx : i \in DOMAIN chain}

\* A registration that may still succeed is known: until an identity is
\* bound, the snapshot on disk names the action behind every registration
\* that is pending, executed, or about to be sent by any signer, so no later
\* pass can take the identity for absent and mint another.
GuardHeld ==
  disk.agent = None =>
    /\ \A t \in mempool : t.kind = "Register" => disk.aid = t.aid
    /\ \A i \in Done("Register", Latest) : disk.aid = chain[i].tx.aid

\* However often processes die, answers are lost and blocks are replaced, the
\* wallet sends registrations at one nonce only: one identity at most.
OneRegistration ==
  \A t, u \in {x \in Transactions : x.kind = "Register"} : t.nonce = u.nonce /\ t.aid = u.aid

\* One identity at most is minted, because the snapshot on disk names every
\* registration that may still succeed.
RegisteredOnce == GuardHeld /\ OneRegistration

\* What the signer sent at a nonce, pending or executed, is only ever followed
\* there by the same action with the same content: a replay cannot publish
\* something the process did not decide.
ReplacedByItself ==
  [][\A t \in Transactions, u \in Transactions' :
       t.nonce = u.nonce /\ t.aid # None /\ u.aid # None => Payload(t) = Payload(u)]_vars

\* Failed reads, lost answers, dropped transactions and replaced blocks only
\* delay the registration, except where the code gives up: the signer refuses
\* for good, the validator refuses what the process would store, or discovery
\* finds an identity that only the operator may adopt.
EventuallyActive ==
  <>(\/ disk.phase = "Active"
     \/ state.failure = "permanent" \/ ~Validate(state)
     \/ \E c \in state.candidates : c.ambiguous
     \/ used.reverts + used.foreign + used.commands > 0)

\* What reconcile_agent says of a follow-up whose answer was lost: replaying
\* it at the persisted nonce resolves it.
PreparedIsResolved ==
  (disk.action \notin {None, Register} /\ disk.hash = None)
    ~> (disk.action = None \/ disk.hash # None)

\* What the signer's tests say of a registration whose answer was lost: its
\* action stays replayable at its nonce under a newer proof of absence.
RegistrationReplayable ==
  \A h \in helpers :
    h.kind = "Register" /\ h.step = "permanent" =>
      \A x \in allocated : x.nonce = h.nonce => x.by.aid # h.aid
=============================================================================
