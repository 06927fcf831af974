# A TLA+ model of Cthuwu

This directory holds TLA+ specifications of the parts of Cthuwu where order,
failure and repeated calls decide correctness, the TLC configurations that
model-check them, and TLAPS proofs of the results that matter most. Module and
definition names follow the source; `PROJECT.json` maps every definition to the
lines it stands for and lists the hazards the properties are about.

## 1. Inventory

Cthuwu is a set of independently operated *Tentacles*. Each runs one Rust
process (`cthuwu/src`) that supervises a Node XMTP sidecar (`agent/src`);
Acolytes use a static browser client (`web/src`). Tentacles coordinate through
the *Council* (`cthuwu/crates/cthuwu-council` on the types of
`cthuwu-protocol`), and the paid relation of a Tentacle to an Acolyte is an
on-chain token (`contracts/src`).

### Council engines (`cthuwu-council`)

| Part | State | Operations | Hard behaviour | What makes it correct |
|---|---|---|---|---|
| Lease manager, `lease.rs` | leases, live lease per session, last generation per session | grant, accept, renew, release, revoke, expire, failover, authorize_work | late calls of a replaced holder, clock steps, full tables | only the newest generation works; one live lease per session; a restart can load every state |
| Liveness tracker, `liveness.rs`, `tentacle.rs` | one record per Tentacle | announce, heartbeat, assess | heartbeats late, repeated or of an old incarnation; sweeps racing them | never back to an older incarnation or heartbeat; Stopped is final |
| Routing engine, `routing.rs` | none (pure) | route | weights adding up, ties | the result does not depend on arrival order; the preference order is kept |
| Rendezvous, `rendezvous.rs` | the lease manager | request | tracker and manager disagree about incarnations | a lease names an incarnation the tracker has seen |
| Transport, `transport.rs`, replay guard in `envelope.rs` | retained messages, rate window per sender, ids and sequences seen | publish, subscribe | the clock is read before the lock; two threads; limits | no replay, bounded rate, each subscriber sees each message once in order |
| Governance, `governance.rs` | members and their history, proposals, votes, heads | membership, submit, argue, amend, vote, finalize | members change while votes are open; competing proposals | ratified only with evidence; one head per version; decisions final |
| Propagation, `propagation.rs` | campaigns, items, rules, acknowledgements, outcomes, credit | create, register, opt out, block, send, respond, acknowledge, claim, revoke | rules change between hops; revocation races answers; rate windows; caps | every branch stays valid, credit is backed and capped, revoked means quiet |
| State store, `persistence.rs` | one file and its temporaries | save, load | overlapping saves, failed calls, power loss | never torn, never older than an Ok |
| Registry, `registry.rs` | Tentacle records, migration provenance | register_or_update, migrate, save, reload | delayed updates, legacy documents | an inbox names one Tentacle; only newer replaces |
| Simulator, `simulator.rs` | a combined snapshot of all of these | one scripted run and a reload | consistency across engines | drives the order of `Council` |

The engines are synchronous Rust values: a caller holds `&mut`, so one call is
one atomic action. The exceptions are the transport, which locks inside the
call after reading the clock, and the store, whose calls reach the file system
one by one; there the model splits a call where other calls can come between.

### Chain

| Part | State | Operations | Hard behaviour | What makes it correct |
|---|---|---|---|---|
| Branding contract, `contracts/src/CthuwuAcolyteBranding.sol` | nonces, owner, declared and pending price, paid-through time, controller; traits with an index | mint, renew, setDeclaredPrice, buy, claimUnserved, traits | prepaid weeks and queued increases, calls prepared against state that changed, an identity registry that may not answer | a price is executable only in a week whose upkeep was paid at it; an owner is paid or the lapse is confirmed; the trait array is a map |
| Registration journal, `erc8004.rs`, `agent/src/erc8004.ts` | snapshot with phase, pending action, proof of absence; the signer's nonce and mint allocations | maintenance passes, discovery, submission, receipts, recovery, `/registry-*` | death between intent and broadcast, a signer that outlives the process, lost answers, reorganizations, foreign use of the wallet | one identity at most; a nonce only for the same content; ends in Active |
| Branding offers, `branding.rs` | queue of mint actions | offer, consent, mint, retry, deliver | consent that expires, is replaced or outlives a crash; a full queue | consent is binding; nobody is starved |
| Growth, `growth.rs` | records per Acolyte, notices, signer's journal | contact, onboarding, attribution, bounty | moved inboxes, failed saves, lost answers | first touch wins; one bounty, as promised; the snapshot is savable |
| Token observer and donated credentials, `token_eye.rs`, `base_rpc.rs` | balances with dates; the endpoint on disk and in use | observe, apply; provision, save, clear | overlapping reads answered in any order; two lanes provisioning at once | what economics rests on was true and vouched for |

### Runtime of a Tentacle (`cthuwu/src`)

| Part | State | Operations | Hard behaviour | What makes it correct |
|---|---|---|---|---|
| Supervisors, `main.rs`, `autonomy.rs`, `sidecar.rs` | the process, its transport, the executor at work | startup gates, drain, tick, execute, refresh, shutdown, notices | a deadline that expires anywhere; a transport that ends by itself | Shutdown is receipted last; a Death is carried out; notices are marked when delivered |
| Evolution life cycle, `evolution_runtime.rs`, `evolution.rs` | awakening log, metrics, judgments, lineage, outbox, each in its file | open, turns, close a day, spawn, reward, receipts | a crash between any two files | every day counted once; what a crash leaves opens again |
| Death ledger and lineage, `evolution.rs` | intents, receipts, projections; the family | schedule, burn, absorb, shut down; births and absorptions | receipts in any order and at any delay; clocks set back | the ledger and the family reload |
| Scales, `scales.rs`, `economics.rs` | metrics of the day, history | record, close, judge | limits of the counters, a crash between judgment and next day | a day can be judged and reloaded; richer is no worse |
| Awakening, `awakening.rs`, `personality.rs` | signed log, Nature file | generate, adjust, startup | a crash between log and file | the next open recovers |
| Operators and tasks, `principal.rs`, `dedupe.rs`, `operator.rs`, `operator_tasks.rs` | roles, claimed messages, lanes, tasks | deliver, classify, transfer, run tasks | redelivery, a transfer during a turn, a crash during a task | at most once; nothing replayed silently; stale authority is fenced |
| Inference, `inference.rs`, `environment.rs`, `deadline.rs`, `model.rs` | routes, slots, cooldowns, a request's time | attempt, switch, provision, repair | budgets divided among providers that hang | the local answer keeps its reserve |
| Memory, `mind.rs`, `conversation_history.rs` | transcript, notes, sessions | listen, reflect, recall, forget | a reflection in flight while somebody is forgotten | forgotten stays forgotten; scopes do not mix |
| Contacts and coaching, `contact.rs`, `bot.rs`, `coaching.rs` | notes with consent; goals and claims | onboarding, controls, forget; check-ins | a turn that saves its copy after a control command; restarts between claim and sending | consent is respected; check-ins keep their interval |
| Hermes, `hermes.rs` | knowledge, queues, views of peers | publish, offer, summarize, deliver, ban, save | loss, repetition, reordering, rollback | the state is savable; linked nodes converge |
| Maintenance, `repository_maintenance.rs` | checkout, remotes, fork, pull requests | update, commit, push, pull request | validation programs that change what they validate | published as validated, within the declared paths |
| Workspace journal, `workspace_runtime.rs`, `agent_context.rs` | files, index, head, snapshot of the last checkpoint | checkpoint, tools, helper, seed | an operator at the same files; a crash of process or power | the operator's work stays; nothing goes unnoticed |
| Token governance, `token_gov.rs` | one ballot box | vote, decide | integer thresholds and saturation | decides as the unrounded shares would |

The XMTP sidecar itself, the browser client, configuration, command line and
media are not modelled (section 6).

## 2. Modules

Council: `Leases`, `Liveness`, `Council` (EXTENDS `Leases`, INSTANCE `Liveness`,
one clock), `Routing`, `Transport`, `Governance`, `Propagation`, `StateStore`,
`Registry`. Chain: `Branding`, `BrandingTraits` (implements the abstract
`TraitMap`), `Registration`, `Offers`, `Growth`, `TokenEye`, `Donations`.
Runtime: `Supervisor`, `Lifecycle`, `Death`, `Lineage`, `Scales`, `Awakening`,
`Authority`, `Inference`, `Memory`, `Contacts`, `Coaching`, `Hermes`,
`Maintenance`, `Workspace`, `TokenGov`. `*Proofs` hold theorems and EXTEND the
modules they prove about: `LeasesProofs` those of the control plane (`Council`
and with it `Leases`, `Liveness`), `ServicesProofs` of `StateStore`, `Registry`,
`Transport`, `TokenEye`, `Donations` and `Workspace`, `EconomyProofs` of `Branding`
and `Growth`, `RuntimeProofs` of `Supervisor`, `Authority`, `Maintenance` and
`Coaching`; `BrandingTraits` and `Contacts` hold their own. `MC*` are instances for
TLC; `MCServices`, `MCEconomy` and `MCRuntime` EXTEND what the proofs extend
(`Coaching` they INSTANCE), so that a run and a theorem speak of the same definition.
There the modules keep their names apart (`GrowthInit`, `TransportNext`, ...);
`Authority` calls an inbox `Principal` and an absent value `Absent`, `Coaching` an
inbox `Acolyte`.

Conventions. A call that returns an error and leaves the state alone is a
disabled action; an early return that is a success without effect is a
stuttering step. Where the code keeps changed memory after a failed save, so
does the model. Identifiers, hashes and texts are model values: a hash stands
for what it hashes. The injected clock of the Council is a natural number that
may step back (`SetClock`), except in part `credit`, where `MonotoneClock` is
TRUE: the rate window that SendersBounded is about means nothing to a clock that
repeats itself. Runtime modules leave the clock out and let a deadline fall due
at any step, or count days. `u64` saturation and `i64` scores cannot be reached
within the limits the code checks first, so integers are unbounded there; where
widths matter (`TokenGov`'s basis points, `Scales`' `u32` counters) they are
kept. The scores of `Routing` are at their real weights, kept as a pair of the
number of 100,000,000s and the rest so that they stay within TLC's 32 bits.

Per module:

* **Leases.** `leases`, `active_by_session` and `generations` are the fields of
  `LeaseManager`. `Failover` is revoke and grant on a staged copy, so one step.
* **Liveness.** A record keeps incarnation, lifecycle, health and last
  heartbeat. `Assess` is the whole sweep.
* **Council.** `Eligible` is the part of the hard requirements that depends on
  the tracker; any eligible Tentacle may be selected.
* **Routing.** The hard requirements other than load, trust and protocol are
  labels in one set, as each is a subset or membership test.
* **Transport.** `BeginPublish` reads the clock and validates, `Publish` and
  `Refuse` happen under the lock. Signature verification has succeeded.
* **Governance.** Documents are records of kind, version, parent and hash. The
  hashed histories are compared directly. Argument and amendment texts are
  counts; `MaxEdits` bounds them and the replaced votes together. `Reloads` asks
  for a restart time at which the decided deadlines have passed, since
  validate_loaded_state compares them with its clock.
* **Propagation.** Items carry their hops, which stand for the chain hash. A
  profile is what `strategy_allows` tells apart. `Send` is `send_initial` and
  `forward`.
* **StateStore.** `renames` are the renames not yet flushed to the directory;
  `Crash` keeps a prefix of them. Directory flushes do nothing where the platform
  is not Unix; OkIsDurable is claimed for Unix. A save that fails after its
  rename reports an error although the new state is visible; so does the model.
* **Registry.** `Reload` is deserialisation, which validates.
* **Branding.** `charged` is a history variable: the weeks paid for and the
  price they were charged at. `RegistryChange` and `Block` are the environment.
* **Registration.** One process; `job` names the call of the signer it waits
  for: every `gateway.invoke` is a point where the chain moves, the call fails
  or the process dies, and what precedes and follows it is one step, because
  commands and the supervisor hold the same mutex; where two saves follow each
  other, a process may die between them (`Funding`, `PrepareRegistration`).
  `Persist` is `persist`: a snapshot the validator refuses stays in memory and ends
  the operation. A write is a record in `helpers` that walks through
  authorizeRegistrationMint, authorizeSignerNonce and sendTransaction; a crash
  leaves it running or kills it. `chain` is the wallet's part of Base: its n-th transaction has nonce n - 1.
  Reads answer from any head between `firm` (confirmed) and the newest block,
  discovery from `final`; a proof of absence is the `height` it was observed at.
  The instances have two of the five follow-up fields (URI and allegiance, whose
  wanted value the operator can change).
* **Offers, Growth.** Queue or state in memory, a copy on disk, explicit failed
  saves and crashes. Prices, signatures and wording are abstracted to what tells
  them apart; clock comparisons to what the clock makes of them. `ContactUses` and
  `OperatorUses` are the pairs of inbox and wallet that people use; `InboxesApart`
  says which of them share an inbox. `MaxFailedSaves` bounds the saves that fail
  for want of disk; a save that fails because the snapshot is refused is not
  counted.
* **Supervisor.** Seconds are left out. The ledger is what the supervisor asks
  of it; `Absorb` and `Spend` intents are kept although production never creates
  a burn. Other supervisors are aborted, not joined.
* **Lifecycle.** A failed save leaves the runtime fail-closed until it restarts,
  so it is a crash at that save. Stores start initialised.
* **Death, Lineage.** The crate's public API in any order: production only
  schedules a Death for a killed awakening. The revision counter is left out of
  `Death`.
* **Scales.** Counter width is `U32_MAX`; `u64` saturation is left out.
* **Awakening.** Production accepts the generated Nature at once unless it
  recovers a binding Death; the model allows both.
* **Authority.** What a message asks is chosen when it is handled. Lanes are
  fair semaphores of one permit, so sequences. Time is left out. A scheduled
  request that itself asks for an update, which registers one more task, is left
  out: a task comes from a message or from the daily review.
* **Inference.** A request counts down the time it has left; one step is one
  attempt, which spends any part of its budget.
* **Memory.** One action is what runs under one hold of a store's lock; a model
  call lies between two actions. Notes carry, as ghosts, whose words they saw.
* **Contacts, Coaching.** A turn works on its own copy of the note and saves it
  at the end; a text is what the matchers of `bot.rs` make of it. Days only.
* **Hermes.** Signatures, pinning and text validation hold for what is exchanged.
* **Maintenance.** A commit is the set of changes its history holds. The checkout
  is always on a branch, bounded lists never overflow, the canonical repository
  only grows. Meddling is by validation children, and the operator edits between
  workflows: a change of the checkout between the last snapshot and the `git push`
  that follows it (`repository_maintenance.rs:982-988`) is not explored, so
  PublishedAsValidated says nothing of that window.
* **Workspace.** A checkpoint is its steps (lock, log, build, move head, finish),
  between which tools, the operator and crashes come. Snapshot and dirty read are
  one step.
* **TokenEye.** Reads overlap and are applied in any order. **Donations.** A
  validation awaits the network; file and running endpoint are two writes.
  **TokenGov.** Weights are `u16` basis points; nothing in production calls it.

## 3. Runs

A run exercises several components that share no state: `part` chooses the one
a behaviour exercises, the others keep one initial state, and each keeps its own
next-state relation, so a run is as many independent checks as it has parts. A
property of a part is guarded with its name. Where identifiers are
interchangeable a state constraint takes them in order (`IdentifiersInOrder`,
`ConversationsInOrder`), which stands for every other order; no symmetry sets are
used.

| Run | Parts and bounds | Shows |
|---|---|---|
| `council` | *leases*: 3 sessions, 4 lease ids, 2 Tentacles, tables of 3 leases and 2 sessions, an incarnation validate refuses, time 0..2 both ways; *plane*: a restart, an impostor of its generation, every lifecycle, 2 leases, timeouts 1 and 2 | Fencing, TablesSound, EndedForGood; CouncilInOrder |
| `deliberation` | *governance*: 2 members, 2 proposals over 5 documents of every kind, one membership change, one edit, clock both ways; *hops*: 3 participants, 2 items, 2 rule changes; *credit*: 2 items, acknowledgements and outcomes against caps of 2 and 3 and two rates; *ballot*: 2 voters around every rounding | HeadsReload, DecisionsStand; BranchesReload, CampaignBounded; DecisionExact |
| `services` | *store*: 3 overlapping saves of 4, failures and power loss; *routing*: 3 offers in any order at each weight's boundary; *transport*: 2 threads, 2 senders, 2 Councils, 6 envelopes against limits of 4; *registry*: 3 Tentacles, 2 inboxes, legacy documents of every kind, tables of 2; *traits*: 4 names for 3 places; *workspace*: a file, a helper of two releases and the log, one write, one Git call, one crash; *eye*: 2 overlapping reads, 3 instants; *donations*: 3 endpoints, 2 keys, 4 commands, one crash | DurableState; SelectionSound; DeliveredOnce; RegistrySound; ImplementsMap; OperatorsWorkStays, JournalKeepsUp; ChainIsVouched |
| `economy` | *branding*: 1 Acolyte, 2 controllers, 3 prices, 4 half-weeks, a registry that moves and fails; *growth*: 3 Acolytes, an operator, 3 inboxes, 2 records, one crash; *offers*: 3 offers for a queue of 2, one crash or failed save | PricePaidFor, OwnerCompensated; BountyAsPinned, SnapshotSavable; ConsentIsBinding |
| `progress` | *registration*: 2 fields, any two troubles; *offers*: 2 conversations | EventuallyActive; EveryDueActionServed |
| `convergence` | *death*: a Death in grace or expired, a spawn, one crash; *growth*: 1 Acolyte; *hermes*: 3 nodes in a line, the last banned, 3 revisions of 2 items | DeathArrives; ResumesWhenFunded; Converges |
| `runtime` | *death*, *notices* (2 operators, one transfer), *maintenance* (2 changes on 2 paths), *memory* (2 Acolytes, an operator, a group, 3 messages), *authority* (2 inboxes, 4 messages, a task, one crash), *inference* (a remote with two slots and the local model), *hermes* (2 nodes, a fault), *contacts* (4 messages, a fault), *coaching* (5 days, 4 commands, a fault) | ReceiptedAfterTheTransport, NoChildAfterDeath; MarkedAfterDelivery; PublishedAsValidated; PrivacyKept (consent, forgetting and scope, check-ins); TasksOnce; LocalFallbackKept; Savable |
| `life` | *registration*: an empty registry, a migration candidate, a duplicate pair; any two of nine kinds of trouble; *spawning* and *rewarding*: 3 days, a child, an event, a turn, a crash between any two saves; *awakening*: 2 messages, log of 3, a fault; *lineage*: 3 Tentacles, 3 Natures; *death*: a judgment, a burn, a relative, a transaction, one failed receipt; *scales*: counters of 1, 2 days | RegisteredOnce, ReplacedByItself; PeriodsAccount; LifeReloads; JudgmentsSound |

Why the bounds suffice: three leases are a grant, its failover and a grant after
that; two proposals and a membership change are what competing for a head and
a moving electorate need; two troubles in registration are a lost or
reorganized outcome and a second event (a crash, an orphan, a newer block) that
hides it; every limit of a table, queue or counter is reached. State constraints
bound parts further where their comment says so: `DiscussionBound` (only the
first proposal is argued about), `OffersBound` (one fault; registration and
treasury move while there is one offer), `RuntimeBound` (notices without
economics beside them, one change upstream, no third message after a second
reflection, no new message after a crash, no operator request after a route
command), `LifeBound` (one action of the ledger fails for good). Bounds that end
a behaviour make a run say CHECK_DEADLOCK FALSE.

Each property has a seeded fault: an operator placed before the definition it
would replace, marked "Seeded fault" or named as a variation of it, which breaks
that property.

Four runs show a disagreement of the code with a text of the repository.

* `leases_reload` (ValidateLoadedState): a lease renewed legally past 24 hours
  after its issue makes the persisted manager unloadable. `renew` bounds
  `expires_at - now`, `Lease::validate` bounds `expires_at - issued_at`.
* `registration_prepared` (PreparedIsResolved): after a crash between the intent
  of a follow-up write and its broadcast the startup audit sets the phase to
  Discovering (`erc8004.rs:1193`), which the validator refuses beside such an
  action, so no later pass gets as far as replaying it. The comment at
  `erc8004.rs:1942` says that replaying at the persisted nonce resolves it.
* `memory_derived` (DerivedForgotten): a note rewritten after the forgotten person
  dropped out of the transcript no longer names the person but still derives
  from what was told (`mind.rs:619`); `docs/agent-workspace.md:63` says all
  derived notes are removed.
* `supervisor_absorb` (AbsorptionIsTried): an absorption is intended only at the
  deadline, after which no executor is polled (`main.rs:1456`);
  `README.md:403` says the outbox keeps draining absorption.

Further divergences met while translating the code. The model has the code's
behaviour, and no property claims otherwise.

| Where | What the code does | What the text says |
|---|---|---|
| `lease.rs:217` | `renew` accepts an earlier expiry | `leases.md:46` "Later bounded expiry" |
| `lease.rs:409` | a lease of the old incarnation authorizes work until it is revoked, replaced or expires | `tentacles.md:95` "leases bound to the old incarnation cannot authorize new work" |
| `liveness.rs:113` | only heartbeats from the future are refused | `tentacles.md:114` "expired heartbeats ... are rejected" |
| `routing.rs:452` | 1001 units of free capacity outweigh the owned-Tentacle bonus | `routing.md:96` puts ownership before capacity |
| `transport.rs:160` | a call overtaken by a later one of its sender reports ClockMovedBackwards under a clock that never did | `transport.rs:66` "the injected Council clock moved backwards" |
| `governance.rs:690` | of two competing Agendas that both have the votes, the one finalized first wins | `governance.md:122` "not resolved by arrival order" |
| `governance.rs:696` | a Constitution needs no larger quorum | `governance.md:17` "stricter quorum and approval threshold" |
| `propagation.rs:1838` | an item sent in the second of the revocation makes the snapshot unloadable | `propagation.md:217` "persistence reload" |
| `erc8004.ts:1182` | the signer's fingerprint of a registration covers the proof of absence, which discovery renews with every finalized block, so a replay after a lost answer is refused (`RegistrationReplayable`) | `erc8004.test.ts:1068`, `erc8004.ts:2927` call it replayable |
| `erc8004.rs:2446`, `erc8004.rs:2477` | set_allegiance and republish_profile mark the startup audit complete having checked the deployment only | `main.rs:932` "fail-closed identity-integrity pass" |
| `erc8004.rs:1570` | a restart between a confirmed registration and its first publication leaves the new identity without evidence; adopt refuses the candidate | `docs/erc-8004.md:219` "and then resumes the next stage" |
| `erc8004.ts:2786` | the proof stays allocated when the registration reverts, so no other registration is ever possible from that installation | `erc8004.rs:1788` keeps the failure recoverable |
| `registry.rs:465` | a registry migrated from an empty document cannot be reloaded once used | `identity.md:117` |
| `main.rs:1781` | a whole batch of notices is marked delivered when any one answer is positive (`EachNoticeIsDelivered`) | `main.rs:1808` losing an answer cannot suppress a notice |
| `evolution.rs:1796` | the growth credit of a spawn is replayed with the current period at every open, which a restart in a later period refuses (`RestartRecovers`) | `docs/evolution.md:219` receipts are treated idempotently |
| `base_rpc.rs:104` | a public message validated before the operator's may overwrite the operator's endpoint (`OperatorsEndpointStands`) | `docs/token.md:58` only the operator may replace it |
| `environment.rs:133` | a rejected answer disables the slot of that name, whatever key it holds by then (`RejectedSlotsOnly`) | `docs/agent-workspace.md:393` disables the rejected slot |
| `growth.rs:1003` | the bounties wait for an operator's acknowledgement of the funding notice | `docs/acolyte-branding.md:100` resumes automatically after funding |
| `branding.rs:1105` | a full queue evicts a failed action whose consent is still executable | `branding.rs:1070` never cancels execution that carries authority |
| `bot.rs:552` | a direct command runs under the role pinned at classification, after a transfer too | `docs/operator.md:25` |
| `workspace_runtime.rs:456` | a file written while a checkpoint reads is not journaled until it changes again | `docs/agent-workspace.md:128` |
| `growth.rs:744` | a Branding's notice puts its Acolyte at an inbox another record may have; memory then holds a snapshot every save refuses (without `InboxesApart`, TLC refutes SnapshotSavable in three steps) | `growth.rs:1412` "one XMTP inbox cannot create multiple acolyte reward records" |
| `growth.rs:480`, `growth.rs:404` | a referrer whose save failed is acknowledged and forgotten by a restart, after which another is accepted (with `MaxFailedSaves = 1`, TLC refutes BountyAsPinned) | `docs/acolyte-branding.md:53` "canonical and immutable" |
| `operator.rs:653` | an operator's turn pins the memory's revision after it recalled from it; a person forgotten in between is still in what the turn adds to the operator's session (`SessionsForgotten`, which TLC refutes in six steps) | `docs/agent-workspace.md:65-66` "so they cannot silently reintroduce deleted data" |
| `operator.rs:485` | the tool of a scheduled request that needs no model starts under the generation the inbox has then, before the cancellation is polled: also after authority left and came back, or after a pause (`StartDirectly`) | `operator_tasks.rs:487` "Use /task pause {} to cancel" |
| `scales.rs:472` | the bonus is weighed as the code computes it | comment `scales.rs:269` |

## 4. Fairness and liveness

* **Registration**: weak fairness of the runtime (the supervisor's loop in
  `main.rs` calls maintain for ever and every call has a time-out), of the
  signers (a subprocess runs to its end) and of the chain (blocks are made,
  confirmed, finalized). Troubles are bounded instead. EventuallyActive excepts
  a signer that refused for good, a snapshot the validator refuses (finding
  `registration_prepared`) and identities only the operator may adopt.
* **Offers**: the loop reopens after a crash, gives an unanswered delivery up
  after thirty seconds, and serves when something is due; from some time on the
  registration is active, so a due action is put off only by the loop itself.
* **Growth**: the loop maintains and waits thirty seconds, transactions are
  mined, a signer asked again and again answers, an inbox takes a notice in the
  end, reminders are left alone from some time on. ResumesWhenFunded needs
  `OperatorsAnswer`: see the divergence at `growth.rs:1003`.
* **Supervisor**: the process is started again, the clock runs, tokio runs what
  is ready. Executors and RPC servers need not answer: time limits end the wait.
* **Hermes**: linked nodes connect and keep meeting, whatever else is lost.

`ProgressSpec` and `PartsSpec` state the fairness of the part a behaviour
exercises. The other specifications state none: the Council engines have no
scheduler (nothing in the repository promises that anybody calls `assess` or
`expire`), and the contract depends on whoever sends a transaction.


## 5. Proofs

TLC covers the instances above; the theorems below hold for every value of the
constants that satisfies the module's ASSUMEs, which state what the constructors
of the code enforce (limits are naturals, thresholds lie in 1..10000, Councils
have members, prices are positive, tables are finite) and which TLC evaluates in
each run. `PROJECT.json` lists the theorems. In each module an inductive
invariant is proved first (it holds initially, and each action keeps each of its
parts, one step per action); the properties of the runs follow from it.

* **LeasesProofs.** Fencing speaks of the lease in the index only and says nothing
  of the leases the next grant or sweep touches. `IInv` ties the three maps:
  `IndexPoints` (the index names a live lease of its session, of the recorded
  generation), `LiveIndexed` (and every live lease is in it),
  `GenerationBound`, `GenerationUnique`, `GenerationPresent`. Every operation
  is a store of one lease, a sweep that ends some, or a grant on top of a sweep,
  so the three helper lemmas carry the actions. Proved: Fencing, TablesSound
  (with its parts OneLiveLease, IndexReloads, HistoryReloads), EndedForGood.
  The second half is the control plane. `Council` refines both of its components:
  each of its steps is a step of `Leases` or a stutter (PlaneIsManager), and a step
  of `Liveness` or a stutter (PlaneIsTracker). The first is not immediate: the
  manager's callers name generations up to `MAX_LEASES`, so a holder's call is one
  of them only because a session has had a lease for every generation up to its
  own, which a count of the table bounds (`GenerationsFit`, from `TableBounded`).
  Fencing and the rest carry over (PlaneFences). `CouncilInv` adds `LeaseNotAhead`,
  kept by request and failover because offers are made of the tracker's present
  record, and by the tracker because `MovesOn` orders what one step may do to a
  record. Proved of it: LeaseNotAhead, RecordsMoveForward and StoppedForGood, the
  three parts of CouncilInOrder, under `CouncilParameters` (time-outs in order; an
  incarnation is named by identifier and generation).
* **GovernanceProofs.** That a ratified proposal keeps its evidence is not
  inductive, as the electorate has moved on. `GovernanceInv` says of every
  proposal what `finalize` relies on: `MembersSound`, `ProposalsSound` (its
  electorate is the recorded one, its votes in order and in time, ratified ones
  with quorum and threshold), `LogSound` (the log binds each submitted proposal
  once), `HeadsSound` (each head is the one newest ratified document of its
  kind). Proved: DecisionsStand, HeadsReload.
* **ServicesProofs** holds five independent arguments.
  *StateStore*: OkIsDurable compares two counters; `IInv` adds that only flushed
  files are renamed (`FlushedFirst`), that the renames at risk are exactly what was
  visible after the durable state (`Accounted`), and that a call past its rename
  finds its value among them (`RenamedVisible`). Proved: DurableState with its
  parts. *Registry*: `RegistryInv` adds to the validation of a snapshot what an
  update relies on (`RecordsSound`). Proved: RegistrySound.
  *Transport*: a message is counted in the window in which it was published, and
  the window may end before the message does; `RatesAccount` relates what is
  retained to the present window and the one before, `SubscribersFollow` relates a
  cursor to what its subscriber has received. Proved: DeliveredOnce.
  *Observer and donations*: `EyeInv` follows a balance from the chain through a read
  under way to the view and the answer (`ReadsTrue`, `ViewTrue`, `AnswerTrue`),
  `DonationInv` says the same of endpoint, file and validations. Proved:
  ChainIsVouched.
  *Workspace*: `OperatorInv` says that a checkpoint that holds the lock remembers
  what was dirty and staged (`LockHeld`, `KeptIsRemembered`) and stages nothing else
  (`LeavesAlone`), for OperatorsWorkStays; `JournalInv` relates the head, the
  snapshot of the last checkpoint and what it knew (`TipIsBorn`, `SnapshotKeepsUp`,
  `CheckpointKnows`). Proved: JournalKeepsUp.
* **EconomyProofs.** *Branding*: PricePaidFor speaks of the present; `IInv` covers
  every paid moment to come (`PricesCovered`), keeps a queued price above the
  declared one and inside the paid interval (`PendingSound`), and caps what is
  prepaid. Proved: PricePaidFor, PrepaidCapped, OwnerCompensated.
  *Growth*: two facts that hold at different moments had to be found. `Fits` is what
  the validation asks of a snapshot plus what keeps the next handler from breaking
  it: a referrer really uses the inbox recorded for it (`Reachable`).
  `ChainSound` ties the signer's journal, the nonces it allocated and the chain's
  transactions: each transaction is the one its Acolyte's entry reserved a nonce
  for, so that a lost answer is followed by the same transaction or none. `Backed`
  ties both to the disk: whoever was acknowledged or journalled is in the snapshot
  on disk with that referrer and amount. Proved: PaidOnce without any hypothesis;
  SnapshotSavable under `InboxesApart` and BountyAsPinned under `InboxesApart` while
  no save has failed. The hypotheses are needed: without the one or the other TLC
  refutes the property, and section 3 describes both as divergences. The instance
  of MCEconomy satisfies them.
* **BrandingTraits** holds its refinement of `TraitMap` itself. The array and the
  index determine each other (`Agree`): a name is stored exactly where it is
  indexed, so looking a name up (`LookedUp`) gives the first entry of that name,
  and the array is as long as the map has names. `PushKeeps`, `StoreKeeps` and
  `RemoveKeeps` say of the three array operations that they keep this and change
  the map at one name; each step of the contract is then that step of the map, or
  a stutter. Proved from `TraitsAssumption` (the limit is a natural number, and
  the absent value is none of the values): IndexAgrees, ImplementsMap.
* **RuntimeProofs.** *Supervisor*: the three properties are of steps; what makes a
  step right was established earlier. `ProcessSound` says which halves of the process
  live together, `BatchSound` what a batch of notices still owes to its answers.
  Proved: ReceiptedAfterTheTransport, NoChildAfterDeath, MarkedAfterDelivery.
  *Authority*: a message is answered once because it waits once (`LanesSound`: what
  waits was claimed, waits in one place of one lane and has not been answered, and
  work has begun for none but the one whose turn it is). That a tool never starts
  without current authority looks local, since the harness compares the generation
  it began with (a task's, except for the tool that `StartDirectly` starts, which has
  the inbox's present one); but the role of a message was pinned when it was
  admitted, and an operator may lose authority and get it back in between. `OrderSound` is why this
  does no harm: at most one inbox has authority; what was admitted as an operator's
  still is trusted, or its writer has no authority any more; and what is still trusted
  comes last in the lane, so that a transfer, asked for by the first of the lane, leaves
  nothing trusted of its source behind it. `NeverSilentlyReplayed` is
  part of the invariant. TLC checked it before it was proved.
  `AuthorityAssumption` says that the limits are naturals and that `Absent` is none
  of the values. Proved: AuthoritySound, TasksOnce.
  *Maintenance*: after the last check of the snapshot only the workflow's own steps
  touch the checkout, so what is pushed is what was validated (`ReviewSound`); and a
  pull request shows no change outside its paths because it was compared with what
  had been fetched, all of which the canonical repository still holds. No assumption
  on the constants is needed. Proved: MaintenanceSound, PublishedAsValidated.
  *Coaching*: the day an Acolyte is due lies an interval after its last claim
  (`ClaimsDue`); a change of the interval sets the day anew. `CoachingParameters`
  says that intervals are positive. Proved: ClaimsSpaced, a part of PrivacyKept.
* **Contacts** holds its proof itself. `WordKept` says that what is on disk shares
  only with a standing yes, and the same of the copy a waiting turn will save, since
  it is saved long after it was read; a turn that hears a refusal will save a note
  that does not share. Every update of a note is a note (`SettledNote` to
  `HeardNote`), and changes sharing only where its caller says so too. `ContactsInv`
  was checked by TLC on the instance of MCRuntime first. `ContactsParameters` says
  that what an earlier run left are notes, and that the absent note is none of them.
  Proved: ConsentRespected, a part of PrivacyKept.
* **RegistrationProofs.** That one identity at most is minted rests on three
  parties none of which sees the others' state: the signer's journal gives the
  installation's only registration to one action and one nonce (`MintBound`),
  the chain spends a nonce below the confirmed height for good (`ChainSound`),
  and a snapshot forgets its action only for an identity or once the confirmed
  chain shows that the nonce minted none (`Claims`, of memory and of disk, since a
  crash puts one in the place of the other). `NonceGivenOnce` gives every nonce one
  payload, `SnapshotsSound`, `WriterSound` and `JobSound` say what belongs together
  in a snapshot, between a waiting job and its signer, and what each call relies on
  when its answer comes late. TLC checked `RegistrationInv` on the instance of
  MCLife before it was proved. `NoneAssumption` only says that an absent value
  differs from the values it is absent from. The bounds (MaxFaults, MaxReorgs, ...)
  are any naturals. Proved: RegisteredOnce, ReplacedByItself.

Every other property of section 3 is only model-checked. Out of the prover's
reach are

* liveness under fairness (EventuallyActive, EveryDueActionServed, DeathArrives,
  ResumesWhenFunded, Converges) and anything about ENABLED;
* what a fold or a sum is on every input, which needs induction over data:
  SelectionSound (the scores of `Routing`), CampaignBounded and BranchesReload
  (credit and hops of `Propagation`), DecisionExact (`TokenGov`), JudgmentsSound
  (`Scales`);
* what SelectSeq and a recursive function keep of a sequence, for the same reason:
  ConsentIsBinding (`Offers` drops old actions), Savable (the pending items of
  `Hermes`), forgetting in PrivacyKept (the lines of `Memory`) and LocalFallbackKept
  (the candidates of `Inference`).

Within its reach, and not proved so far: PeriodsAccount and LifeReloads. Of
PrivacyKept the parts of `Contacts` and `Coaching` are proved, that of `Memory`
is not.

## 6. What is not modelled

* Throughout: wording, formats, label and URL syntax, sizes in bytes, JSON,
  signatures and hash functions, event logs, permissions and symbolic links,
  wall-clock schedules except where a deadline matters.
* Protocol message types (`cthuwu-protocol` except `tentacle.rs` and
  `envelope.rs`), configuration and names, the command line, health, doctor,
  avatars, image generation and web search: stateless values, files and I/O.
* The XMTP sidecar (`agent/src`) except its signer: it appears as the transport
  that starts, serves and ends, and as the client whose answers are late or lost.
* The browser client (`web/src`): an interface to the contract and the chat, the
  parties whose calls the models take in any order.
* `rank_candidates` (`propagation.rs`), `authorize_action` (`governance.rs`) and
  the read adapter `Erc8004Registry` (`registry.rs`): pure, or pure reads.
* Token metadata and the reentrancy lock of the contract (its functions call no
  untrusted code before their effects except the registry's read).
* Profile text, the avatar, inbox and name fields, the configured agent id
  (`erc8004.rs:1585`, which ends a pass before it registers) and the
  migration of legacy documents of the registration journal.
* Prompts and what models answer: any answer the parsers accept may come.

Hazards without a property of their own, known from reading: the stale lock file
of the workspace (`main.rs:1005`), a Death whose burn receipt arrives after its
projection was rebuilt (`evolution_runtime.rs:368`), a change of configured
weights between two days of the scales, a redelivered message within one
awakening ritual, a refused consent lost in a crash (`contact.rs`), and a
revision that reaches a Hermes node at MAX_PATH_HOPS.

## 7. Plan

Done: every module of section 2, the runs of section 3 and the proofs of
section 5. Next, in this order:

1. the properties section 5 lists as within the prover's reach: the ledger of
   `Lifecycle` and `Death`, whose invariants must range over every crash between
   two files;
2. the sidecar's chat control and the browser client's assignment of Tentacles.

`map` in `PROJECT.json` names the definitions that translate code. An operator that
only abbreviates part of such a definition is covered by its lines.
