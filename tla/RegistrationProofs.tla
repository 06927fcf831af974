------------------------- MODULE RegistrationProofs -------------------------
(***************************************************************************)
(* Proofs about the ERC-8004 registration, for every registry a process    *)
(* may find, every order of the published fields and any number of         *)
(* failures, lost answers, crashes, reorganizations, replacements, foreign *)
(* transactions and commands.                                              *)
(*                                                                         *)
(* That one identity at most is minted rests on three parties at once: the *)
(* signer's journal, which gives the installation's only registration to   *)
(* one action and one nonce (MintBound), the chain, on which a nonce below *)
(* the confirmed height is spent for good (ChainSound), and the process,   *)
(* which forgets the action it registered with only for an identity or     *)
(* once the confirmed chain shows that it minted none (Claims).            *)
(***************************************************************************)
EXTENDS Registration, FiniteSetTheorems, SequenceTheorems, WellFoundedInduction, TLAPS

Phase ==
    {"Unconfigured", "ConfirmedIdentity", "Preparing", "Discovering", "DiscoveryIncomplete",
     "VerifiedNoExistingIdentity", "FundingRequired", "ReadyToRegister", "Submitted",
     "PublishingProfile", "DeclaringAllegiance", "Active", "Suspended", "FailedRecoverable",
     "FailedPermanent"}

Failure == {"none", "recoverable", "permanent"}

Entry == [tx: Tx, ok: BOOLEAN]

Candidate ==
    [id: Nat, same: BOOLEAN, ambiguous: BOOLEAN, evidence: BOOLEAN, seen: Values,
     authorized: BOOLEAN]

Snapshot ==
    [phase: Phase, action: {None, Register} \cup FollowUp, aid: Optional(Nat),
     nonce: Optional(Nat), hash: Optional(Tx), agent: Optional(Nat), ignored: SUBSET Nat,
     adoption: Optional(Nat), candidates: SUBSET Candidate, mint: Optional(Nat),
     checkpoint: BOOLEAN, failure: Failure, desired: BOOLEAN, revision: Nat]

Job ==
    [at: {"idle", "deployment", "bound", "discover", "decide", "funding", "prepare", "register_nonce",
          "follow_up_nonce", "write", "receipt", "recover", "reconcile",
          "remaining_funding", "adopt"},
     why: {"none", "maintain", "command"}, exhaustive: BOOLEAN, force: BOOLEAN,
     observed: Optional(Nat), bound: {None, "absent", "ours", "lost"},
     agent: Optional(Nat), seen: Optional(Values)]

Helper ==
    [aid: Nat, nonce: Nat, kind: {"Register", "Set"}, field: Field \cup {"none"},
     value: Nat, agent: Optional(Nat), proof: Optional(Nat), live: BOOLEAN,
     hash: Optional(Tx),
     step: {"authorize", "allocate", "send", "sent", "recoverable", "permanent"}]

ProcessType ==
    /\ state \in Snapshot /\ disk \in Snapshot
    /\ audited \in BOOLEAN /\ audits \in 0..2 /\ job \in Job

SignerType ==
    /\ helpers \in SUBSET Helper
    /\ mint_allocation \in Optional(Allocated)
    /\ actions \in Nat

LedgerType ==
    /\ DOMAIN agents \subseteq 1..NewAgent
    /\ \A a \in DOMAIN agents : agents[a] \in Values
    /\ chain \in Seq(Entry)
    /\ firm \in Nat /\ final \in Nat /\ height \in Nat /\ sent \in Nat
    /\ mempool \in SUBSET Tx /\ IsFiniteSet(mempool)

RegistrationType == ProcessType /\ SignerType /\ LedgerType

-----------------------------------------------------------------------------
(* The parts of the invariant, each with what it speaks of as parameters. *)

\* Block k of chain c shows that the transaction at nonce n minted an identity.
MintedAt(c, n, k) ==
    n + 1 \in 1..k /\ c[n + 1].ok /\ c[n + 1].tx.kind = "Register"

\* Nonce n was used for good and minted nothing.
Spent(c, n, confirmed) == n < confirmed /\ ~MintedAt(c, n, Len(c))

\* The i-th transaction has nonce i - 1, and no registration waits at a nonce
\* that was used.
ChainFits(c, pool, confirmed, finalized) ==
    /\ finalized <= confirmed /\ confirmed <= Len(c)
    /\ \A i \in 1..Len(c) : c[i].tx.nonce = i - 1
    /\ \A t \in pool : t.kind = "Register" => t.nonce >= Len(c)

Sent(c, pool) == pool \cup {c[i].tx : i \in DOMAIN c}

\* A nonce belongs to one payload, and what is or was sent has its nonce.
NoncesFit(given, transactions, signers) ==
    /\ \A x, y \in given : x.nonce = y.nonce => x = y
    /\ \A t \in transactions : t.aid # None =>
           [nonce |-> t.nonce, by |-> Payload(t)] \in given
    /\ \A h \in signers : h.step = "send" => Allocation(h) \in given

\* Whoever registers, or has registered, has the installation's only registration.
MintFits(mint, transactions, signers) ==
    /\ \A h \in signers : h.kind = "Register" /\ h.step \in {"allocate", "send"} =>
           mint # None /\ mint = [aid |-> h.aid, nonce |-> h.nonce]
    /\ \A t \in transactions : t.kind = "Register" =>
           mint # None /\ mint = [aid |-> t.aid, nonce |-> t.nonce]

\* What belongs together in a snapshot, in memory as on disk.
SnapshotFits(s) ==
    /\ s.action = None <=> s.aid = None
    /\ s.action = None => s.nonce = None /\ s.hash = None
    /\ s.action \in FollowUp => s.agent # None
    /\ s.hash # None => s.nonce = s.hash.nonce

\* A live signer works for the waiting job, and there is one.
WriterFits(signers, j, s) ==
    /\ \A h \in signers : h.live =>
           /\ j.at = "write"
           /\ h.nonce = s.nonce
    /\ \A h, g \in signers : h.live /\ g.live => h = g
    /\ \A h \in signers : h.step = "sent" => h.hash # None /\ h.hash.nonce = h.nonce
    /\ \A h \in signers : h.step = "authorize" => h.kind = "Register"

\* Where a job stands, what it relies on.
JobFits(j, s, saved, c, confirmed) ==
    /\ j.at \in {"decide", "register_nonce"} => s = saved
    /\ j.at \in {"decide", "funding", "prepare", "register_nonce"} /\ j.observed # None =>
           j.observed <= confirmed
    /\ j.at = "decide" => j.observed # None
    /\ j.at = "register_nonce" =>
           /\ s.action = Register
           /\ s.nonce # None /\ j.observed # None => ~MintedAt(c, s.nonce, j.observed)
    /\ j.at = "follow_up_nonce" => s.action \in FollowUp
    /\ j.at = "write" => s.nonce # None /\ s.action # None
    /\ j.at \in {"receipt", "recover"} => s.hash # None
    /\ j.at = "deployment" /\ j.why = "command" => s.agent # None
    /\ j.at = "bound" => s.agent # None
    /\ j.at \in {"reconcile", "remaining_funding"} => s.agent # None /\ j.agent # None
    /\ j.at = "remaining_funding" => j.seen \in Values /\ Missing(s, j.seen) # {}

\* Until it names an identity, a snapshot names the action the registration was
\* given to, and the one that a signer asks it for, unless their nonce is spent.
ClaimFits(s, mint, signers, c, confirmed) ==
    s.agent = None =>
        /\ mint # None =>
               \/ s.aid = mint.aid /\ s.nonce = mint.nonce
               \/ Spent(c, mint.nonce, confirmed)
        /\ \A h \in signers : h.kind = "Register" /\ h.step = "authorize" =>
               \/ s.aid = h.aid /\ s.nonce = h.nonce
               \/ h.nonce < confirmed

ChainSound == ChainFits(chain, mempool, firm, final)
NonceGivenOnce == NoncesFit(allocated, Sent(chain, mempool), helpers)
MintBound == MintFits(mint_allocation, Sent(chain, mempool), helpers)
SnapshotsSound == SnapshotFits(state) /\ SnapshotFits(disk)
WriterSound == WriterFits(helpers, job, state)
JobSound == JobFits(job, state, disk, chain, firm)
Claims ==
    /\ ClaimFits(state, mint_allocation, helpers, chain, firm)
    /\ ClaimFits(disk, mint_allocation, helpers, chain, firm)

RegistrationInv ==
    /\ RegistrationType
    /\ ChainSound
    /\ NonceGivenOnce
    /\ MintBound
    /\ SnapshotsSound
    /\ WriterSound
    /\ JobSound
    /\ Claims

-----------------------------------------------------------------------------
(* The operators of the model. *)

\* Numbers have a least element: nothing smaller than the first interval.
LEMMA Minimum ==
    ASSUME NEW S \in SUBSET Nat, S # {}
    PROVE  \E x \in S : \A y \in S : x <= y
    <1> DEFINE T == {0..m : m \in S}
    <1>1. T # {} /\ T \subseteq FiniteSubsetsOf(Nat)
      <2>1. \A m \in S : IsFiniteSet(0..m) /\ 0..m \in SUBSET Nat
        BY FS_Interval
      <2> QED
        BY <2>1 DEF FiniteSubsetsOf
    <1>2. IsWellFoundedOn(StrictSubsetOrdering(Nat), FiniteSubsetsOf(Nat))
      BY FS_StrictSubsetOrderingWellFounded
    <1>3. \E t \in T : \A u \in T : ~(<<u, t>> \in StrictSubsetOrdering(Nat))
      <2> HIDE DEF T
      <2> QED
        BY <1>1, <1>2, WFMin
    <1>4. PICK x \in S : \A y \in S : ~(<<0..y, 0..x>> \in StrictSubsetOrdering(Nat))
      BY <1>3
    <1>5. ASSUME NEW y \in S, y < x PROVE FALSE
      <2>1. /\ 0..y \in SUBSET Nat /\ 0..x \in SUBSET Nat /\ 0..y \subseteq 0..x
            /\ x \in 0..x /\ x \notin 0..y
        BY <1>5
      <2>2. <<0..y, 0..x>> \in StrictSubsetOrdering(Nat)
        BY <2>1 DEF StrictSubsetOrdering
      <2> QED
        BY <1>4, <2>2
    <1> QED
      BY <1>5

\* And so a bounded set of numbers has a greatest one.
LEMMA Maximum ==
    ASSUME NEW n \in Nat, NEW S \in SUBSET (1..n), S # {}
    PROVE  \E x \in S : \A y \in S : y <= x
    <1> DEFINE T == {n - x : x \in S}
    <1>1. T \in SUBSET Nat /\ T # {}
      <2>1. \A x \in S : n - x \in Nat
        OBVIOUS
      <2> QED
        BY <2>1
    <1> HIDE DEF T
    <1>2. PICK t \in T : \A u \in T : t <= u
      BY <1>1, Minimum
    <1>3. PICK x \in S : t = n - x
      BY DEF T
    <1>4. \A y \in S : n - x <= n - y
      BY <1>2, <1>3 DEF T
    <1> QED
      BY <1>3, <1>4

\* The canonical identity, and the next field, is one of those there are.
LEMMA LeastType ==
    ASSUME NEW S \in SUBSET Nat, S # {}
    PROVE  Least(S) \in S /\ Least(S) \in Nat /\ Least(S) # None
    <1>1. Least(S) \in S
      BY Minimum DEF Least
    <1> QED
      BY <1>1, NoneAssumption

\* The entries of the chain.
LEMMA LedgerFacts ==
    ASSUME LedgerType
    PROVE  /\ Latest \in Nat /\ Latest = Len(chain) /\ DOMAIN chain = 1..Latest
           /\ \A i \in 1..Latest : chain[i] \in Entry
           /\ \A i \in 1..Latest : chain[i].tx \in Tx /\ chain[i].ok \in BOOLEAN
    <1>1. chain \in Seq(Entry)
      BY DEF LedgerType
    <1>2. /\ Len(chain) \in Nat /\ DOMAIN chain = 1..Len(chain)
          /\ \A i \in 1..Len(chain) : chain[i] \in Entry
      BY <1>1, LenProperties, ElementOfSeq
    <1>3. \A e \in Entry : e.tx \in Tx /\ e.ok \in BOOLEAN
      BY DEF Entry
    <1> QED
      BY <1>2, <1>3 DEF Latest

\* There is a first nonce that no pending transaction has taken.
LEMMA PendingType ==
    ASSUME LedgerType
    PROVE  Pending \in Nat /\ Pending >= Latest
    <1> DEFINE k == Cardinality(mempool)
               N == {t.nonce : t \in mempool}
               free == (Latest..(Latest + k)) \ N
    <1>1. Latest \in Nat /\ k \in Nat /\ IsFiniteSet(mempool)
      BY LedgerFacts, FS_CardinalityType DEF LedgerType
    <1>2. IsFiniteSet(N) /\ Cardinality(N) <= k
      <2> DEFINE f == [t \in mempool |-> t.nonce]
      <2>1. f \in Surjection(mempool, N)
        BY DEF Surjection
      <2> QED
        BY <1>1, <2>1, FS_Surjection
    <1>3. free # {}
      <2> SUFFICES ASSUME free = {} PROVE FALSE
        OBVIOUS
      <2>1. Latest..(Latest + k) \in SUBSET N
        OBVIOUS
      <2>2. Cardinality(Latest..(Latest + k)) = k + 1
        BY <1>1, FS_Interval
      <2>3. Cardinality(Latest..(Latest + k)) <= Cardinality(N)
        BY <1>2, <2>1, FS_Subset
      <2>4. Cardinality(N) \in Nat
        BY <1>2, FS_CardinalityType
      <2> QED
        BY <1>1, <1>2, <2>2, <2>3, <2>4
    <1>4. free \in SUBSET Nat
      BY <1>1
    <1>5. PICK n \in free : \A m \in free : n <= m
      <2> HIDE DEF free
      <2> QED
        BY <1>3, <1>4, Minimum
    <1>6. /\ n \in Latest..(Latest + k)
          /\ \A t \in mempool : t.nonce # n
          /\ \A m \in Latest..(n - 1) : \E t \in mempool : t.nonce = m
      <2>1. n \in Latest..(Latest + k) /\ \A t \in mempool : t.nonce # n
        BY <1>5
      <2>2. \A m \in Latest..(n - 1) : m \in N
        BY <1>1, <1>5
      <2> QED
        BY <2>1, <2>2
    <1>7. Pending \in Latest..(Latest + k)
      BY <1>6 DEF Pending
    <1> QED
      BY <1>1, <1>7

\* What the registry shows is well formed at every block.
LEMMA FieldType ==
    ASSUME LedgerType, NEW k \in 0..Latest, NEW a, NEW f \in Field
    PROVE  FieldAt(a, f, k) \in Nat
    <1> DEFINE writes == {i \in Done("Set", k) : chain[i].tx.agent = a /\ chain[i].tx.field = f}
    <1>1. Latest \in Nat /\ \A i \in 1..Latest : chain[i].tx.value \in Nat
      <2>1. \A t \in Tx : t.value \in Nat
        BY DEF Tx
      <2> QED
        BY <2>1, LedgerFacts
    <1>2. writes \in SUBSET (1..k) /\ k \in Nat
      BY <1>1 DEF Done
    <1>3. CASE writes = {}
      <2>1. a \in DOMAIN agents => agents[a] \in [Field -> Nat]
        BY DEF LedgerType, Values
      <2>2. FieldAt(a, f, k) = IF a \in DOMAIN agents THEN agents[a][f] ELSE 0
        BY <1>3 DEF FieldAt
      <2> QED
        BY <2>1, <2>2
    <1>4. CASE writes # {}
      <2> DEFINE last == CHOOSE i \in writes : \A j \in writes : j <= i
      <2>1. FieldAt(a, f, k) = chain[last].tx.value
        BY <1>4, Zenon DEF FieldAt
      <2> HIDE DEF writes, last
      <2>2. \E i \in writes : \A j \in writes : j <= i
        BY <1>2, <1>4, Maximum
      <2>3. last \in writes
        BY <2>2 DEF last
      <2>4. last \in 1..Latest
        BY <1>1, <1>2, <2>3
      <2> QED
        BY <1>1, <2>1, <2>4
    <1> QED
      BY <1>3, <1>4

\* The fields a reader sees.
LEMMA ValuesType ==
    ASSUME LedgerType, NEW k \in 0..Latest, NEW a
    PROVE  ValuesAt(a, k) \in Values
    BY FieldType DEF ValuesAt, Values

\* The identities a reader sees.
LEMMA AgentsType ==
    ASSUME LedgerType, NEW k \in 0..Latest
    PROVE  AgentsAt(k) \in SUBSET Nat
    <1>1. Latest \in Nat /\ Done("Register", k) \in SUBSET Nat
      BY LedgerFacts DEF Done
    <1>2. DOMAIN agents \in SUBSET Nat /\ NewAgent \in Nat
      BY RegistrationAssumption DEF LedgerType
    <1>3. \A i \in Nat : NewAgent + i \in Nat
      BY <1>2
    <1> QED
      BY <1>1, <1>2, <1>3 DEF AgentsAt

\* The candidates of a discovery.
LEMMA CandidatesType ==
    ASSUME LedgerType, NEW k \in 0..Latest
    PROVE  CandidatesAt(k) \in SUBSET Candidate
    <1>1. \A a \in AgentsAt(k) : a \in Nat /\ ValuesAt(a, k) \in Values
      BY AgentsType, ValuesType
    <1>2. ASSUME NEW a \in AgentsAt(k) PROVE Classify(a, k) \in Candidate
      BY <1>1, <1>2 DEF Classify, Candidate, Authorized
    <1> QED
      BY <1>2 DEF CandidatesAt

\* A nonce matches an identity when its transaction minted one.
LEMMA MatchedType ==
    ASSUME LedgerType, NEW k \in 0..Latest, NEW n \in Nat
    PROVE  /\ Matched(n, k) \in SUBSET Nat
           /\ Matched(n, k) = {} <=> ~MintedAt(chain, n, k)
    <1>1. Latest \in Nat /\ NewAgent \in Nat
      BY LedgerFacts, RegistrationAssumption
    <1>2. Done("Register", k) \in SUBSET Nat
      BY <1>1 DEF Done
    <1>3. Matched(n, k) = IF n + 1 \in Done("Register", k) THEN {NewAgent + (n + 1)} ELSE {}
      BY <1>2 DEF Matched
    <1> QED
      BY <1>1, <1>3 DEF Done, MintedAt

-----------------------------------------------------------------------------
(* Snapshots. *)

\* r names the same action and the same identity as s.
SameAction(r, s) ==
    /\ r.action = s.action /\ r.aid = s.aid /\ r.nonce = s.nonce /\ r.hash = s.hash
    /\ r.agent = s.agent

\* r names an identity and no action.
Settled(r) ==
    /\ r.agent # None
    /\ r.action = None /\ r.aid = None /\ r.nonce = None /\ r.hash = None

\* A snapshot with the same action and identity keeps what another keeps.
LEMMA SameActionFits ==
    ASSUME NEW s, NEW r, SameAction(r, s)
    PROVE  /\ SnapshotFits(s) => SnapshotFits(r)
           /\ \A mint, hs, c, f : ClaimFits(s, mint, hs, c, f) => ClaimFits(r, mint, hs, c, f)
    BY DEF SameAction, SnapshotFits, ClaimFits

\* A snapshot with an identity and no action claims nothing.
LEMMA SettledFits ==
    ASSUME NEW r, Settled(r)
    PROVE  /\ SnapshotFits(r)
           /\ \A mint, hs, c, f : ClaimFits(r, mint, hs, c, f)
    BY DEF Settled, SnapshotFits, ClaimFits

\* The ways in which the process rewrites a snapshot without touching its action.
LEMMA RetoldSnapshots ==
    ASSUME NEW s \in Snapshot
    PROVE  /\ GatewayFailure(s) \in Snapshot /\ SameAction(GatewayFailure(s), s)
           /\ DiscoveryIncomplete(s) \in Snapshot /\ SameAction(DiscoveryIncomplete(s), s)
           /\ Failed(s, "recoverable") \in Snapshot /\ SameAction(Failed(s, "recoverable"), s)
           /\ \A p \in Phase :
                  /\ [s EXCEPT !.phase = p] \in Snapshot
                  /\ SameAction([s EXCEPT !.phase = p], s)
           /\ \A k \in Failure :
                  /\ [s EXCEPT !.failure = k] \in Snapshot
                  /\ SameAction([s EXCEPT !.failure = k], s)
           /\ \A p \in Phase, k \in Failure :
                  /\ [s EXCEPT !.failure = k, !.phase = p] \in Snapshot
                  /\ SameAction([s EXCEPT !.failure = k, !.phase = p], s)
                  /\ [s EXCEPT !.phase = p, !.failure = k] \in Snapshot
                  /\ SameAction([s EXCEPT !.phase = p, !.failure = k], s)
    <1>1. Failed(s, "recoverable") \in Snapshot /\ SameAction(Failed(s, "recoverable"), s)
      BY DEF Failed, Snapshot, Phase, Failure, SameAction
    <1>2. DiscoveryIncomplete(s) \in Snapshot /\ SameAction(DiscoveryIncomplete(s), s)
      <2>1. ASSUME NEW p \in Phase, NEW k \in Failure, NEW m \in Optional(Nat)
            PROVE  LET q == [s EXCEPT !.phase = p, !.mint = m, !.failure = k]
                   IN q \in Snapshot /\ SameAction(q, s)
        BY DEF Snapshot, SameAction
      <2>2. "DiscoveryIncomplete" \in Phase /\ "recoverable" \in Failure /\ None \in Optional(Nat)
        BY DEF Phase, Failure, Optional
      <2> QED
        BY <2>1, <2>2, Zenon DEF DiscoveryIncomplete
    <1>3. ASSUME NEW p \in Phase
          PROVE  [s EXCEPT !.phase = p] \in Snapshot /\ SameAction([s EXCEPT !.phase = p], s)
      BY DEF Snapshot, SameAction
    <1>4. ASSUME NEW k \in Failure
          PROVE  [s EXCEPT !.failure = k] \in Snapshot /\ SameAction([s EXCEPT !.failure = k], s)
      BY DEF Snapshot, SameAction
    <1>5. ASSUME NEW p \in Phase, NEW k \in Failure
          PROVE  /\ [s EXCEPT !.failure = k, !.phase = p] \in Snapshot
                 /\ SameAction([s EXCEPT !.failure = k, !.phase = p], s)
                 /\ [s EXCEPT !.phase = p, !.failure = k] \in Snapshot
                 /\ SameAction([s EXCEPT !.phase = p, !.failure = k], s)
      BY DEF Snapshot, SameAction
    <1>6. GatewayFailure(s) \in Snapshot /\ SameAction(GatewayFailure(s), s)
      <2>1. CASE s.hash = None /\ s.action # None
        BY <1>4, <2>1, Zenon DEF GatewayFailure, Failure
      <2>2. CASE ~(s.hash = None /\ s.action # None)
        BY <1>1, <2>2, Zenon DEF GatewayFailure
      <2> QED
        BY <2>1, <2>2
    <1> QED
      BY <1>1, <1>2, <1>3, <1>4, <1>5, <1>6

\* The ways in which it lets an action go, and takes an identity.
LEMMA RetiredSnapshots ==
    ASSUME NEW s \in Snapshot
    PROVE  /\ Retire(s) \in Snapshot
           /\ Retire(s).agent = s.agent
           /\ Retire(s).action = None /\ Retire(s).aid = None
           /\ Retire(s).nonce = None /\ Retire(s).hash = None
    BY DEF Retire, Snapshot, Optional

\* An identity is adopted, or replaces another.
LEMMA AdoptedSnapshots ==
    ASSUME NEW s \in Snapshot, NEW a \in Nat, NEW receipt \in Optional(Nat),
           NEW duplicates \in SUBSET Nat
    PROVE  /\ AdoptConfirmed(s, a, receipt) \in Snapshot
           /\ Settled(AdoptConfirmed(s, a, receipt))
           /\ AdoptConfirmed(s, a, receipt).agent = a
           /\ RepairCanonicalBinding(s, a, duplicates) \in Snapshot
           /\ Settled(RepairCanonicalBinding(s, a, duplicates))
           /\ RepairCanonicalBinding(s, a, duplicates).agent = a
    <1>1. /\ Retire(s) \in Snapshot /\ a # None
          /\ Retire(s).action = None /\ Retire(s).aid = None
          /\ Retire(s).nonce = None /\ Retire(s).hash = None
      BY RetiredSnapshots, RegistrationAssumption, NoneAssumption
    <1>2. ASSUME NEW r \in Snapshot, NEW x \in Optional(Nat), NEW d \in SUBSET Nat,
                 r.action = None, r.aid = None, r.nonce = None, r.hash = None
          PROVE  LET q == [r EXCEPT !.agent = a, !.ignored = d, !.adoption = x,
                                    !.phase = "ConfirmedIdentity", !.failure = "none",
                                    !.mint = None]
                 IN q \in Snapshot /\ Settled(q) /\ q.agent = a
      BY <1>1, <1>2 DEF Snapshot, Settled, Optional, Phase, Failure
    <1>3. {} \in SUBSET Nat /\ (IF s.adoption = a THEN a ELSE None) \in Optional(Nat)
      BY DEF Optional
    <1>4. /\ AdoptConfirmed(s, a, receipt) \in Snapshot
          /\ Settled(AdoptConfirmed(s, a, receipt))
          /\ AdoptConfirmed(s, a, receipt).agent = a
      BY <1>1, <1>2, <1>3 DEF AdoptConfirmed
    <1>5. /\ RepairCanonicalBinding(s, a, duplicates) \in Snapshot
          /\ Settled(RepairCanonicalBinding(s, a, duplicates))
          /\ RepairCanonicalBinding(s, a, duplicates).agent = a
      <2> DEFINE x == IF s.adoption = a THEN a ELSE None
                 q == [Retire(s) EXCEPT !.agent = a, !.ignored = duplicates, !.adoption = x,
                                        !.phase = "ConfirmedIdentity", !.failure = "none",
                                        !.mint = None]
      <2>1. x \in Optional(Nat)
        BY DEF Optional
      <2>2. q = RepairCanonicalBinding(s, a, duplicates)
        BY Zenon DEF RepairCanonicalBinding
      <2> HIDE DEF x
      <2>3. q \in Snapshot /\ Settled(q) /\ q.agent = a
        BY <1>1, <1>2, <2>1
      <2> QED
        BY <2>2, <2>3
    <1> QED
      BY <1>4, <1>5

\* Suspend drops an unsent follow-up only.
LEMMA SuspendedSnapshots ==
    ASSUME NEW s \in Snapshot, SnapshotFits(s)
    PROVE  /\ Suspend(s) \in Snapshot
           /\ SameAction(Suspend(s), s) \/ Settled(Suspend(s))
    <1> DEFINE r == IF s.hash = None /\ s.action # Register THEN Retire(s) ELSE s
    <1>1. s.action \in {None, Register} \cup FollowUp
      BY DEF Snapshot
    <1>2. r \in Snapshot /\ (SameAction(r, s) \/ Settled(r))
      BY <1>1, RetiredSnapshots DEF SnapshotFits, SameAction, Settled
    <1> HIDE DEF r
    <1>3. LET q == [r EXCEPT !.phase = "Suspended", !.failure = "recoverable"]
          IN q \in Snapshot /\ SameAction(q, r)
      BY <1>2, RetoldSnapshots DEF Phase, Failure
    <1>4. Suspend(s) = [r EXCEPT !.phase = "Suspended", !.failure = "recoverable"]
      BY DEF Suspend, r
    <1> QED
      BY <1>2, <1>3, <1>4 DEF SameAction, Settled

-----------------------------------------------------------------------------
(* Steps of the process that leave signers and chain alone. *)

\* The invariant of the next state, from its parts.
LEMMA InvPrimed ==
    ASSUME RegistrationType',
           ChainFits(chain', mempool', firm', final'),
           NoncesFit(allocated', Sent(chain', mempool'), helpers'),
           MintFits(mint_allocation', Sent(chain', mempool'), helpers'),
           SnapshotFits(state'), SnapshotFits(disk'),
           WriterFits(helpers', job', state'),
           JobFits(job', state', disk', chain', firm'),
           ClaimFits(state', mint_allocation', helpers', chain', firm'),
           ClaimFits(disk', mint_allocation', helpers', chain', firm')
    PROVE  RegistrationInv'
    <1>1. ChainSound'
      BY DEF ChainSound, ChainFits
    <1>2. NonceGivenOnce'
      BY DEF NonceGivenOnce, NoncesFit, Sent, Payload, Allocation
    <1>3. MintBound'
      BY DEF MintBound, MintFits, Sent
    <1>4. SnapshotsSound'
      BY DEF SnapshotsSound, SnapshotFits
    <1>5. WriterSound'
      BY DEF WriterSound, WriterFits
    <1>6. JobSound'
      BY DEF JobSound, JobFits, MintedAt, Missing, Wanted
    <1>7. Claims'
      BY DEF Claims, ClaimFits, Spent, MintedAt
    <1> QED
      BY <1>1, <1>2, <1>3, <1>4, <1>5, <1>6, <1>7 DEF RegistrationInv

\* What a step of the process leaves alone; no signer works for it afterwards.
ProcessOnly ==
    /\ audited' \in BOOLEAN /\ audits' \in 0..2 /\ actions' \in Nat
    /\ helpers' \subseteq helpers /\ \A h \in helpers' : ~h.live
    /\ UNCHANGED <<allocated, mint_allocation, ledger>>

\* A step of the process keeps the invariant if its snapshots and its job fit.
LEMMA ProcessStep ==
    ASSUME RegistrationInv, ProcessOnly,
           state' \in Snapshot, disk' \in Snapshot, job' \in Job, job'.at # "write",
           SnapshotFits(state'), SnapshotFits(disk'),
           JobFits(job', state', disk', chain, firm),
           ClaimFits(state', mint_allocation, helpers, chain, firm),
           ClaimFits(disk', mint_allocation, helpers, chain, firm)
    PROVE  RegistrationInv'
    <1>1. /\ allocated' = allocated /\ mint_allocation' = mint_allocation
          /\ agents' = agents /\ chain' = chain /\ firm' = firm /\ final' = final
          /\ height' = height /\ mempool' = mempool /\ sent' = sent
          /\ helpers' \subseteq helpers /\ \A h \in helpers' : ~h.live
      BY DEF ProcessOnly, ledger
    <1>2. RegistrationType'
      BY <1>1 DEF RegistrationInv, RegistrationType, ProcessType, SignerType, LedgerType,
                  ProcessOnly
    <1>3. ChainFits(chain', mempool', firm', final')
      BY <1>1 DEF RegistrationInv, ChainSound
    <1>4. NoncesFit(allocated', Sent(chain', mempool'), helpers')
      BY <1>1 DEF RegistrationInv, NonceGivenOnce, NoncesFit
    <1>5. MintFits(mint_allocation', Sent(chain', mempool'), helpers')
      BY <1>1 DEF RegistrationInv, MintBound, MintFits
    <1>6. WriterFits(helpers', job', state')
      BY <1>1 DEF RegistrationInv, WriterSound, WriterFits
    <1>7. JobFits(job', state', disk', chain', firm')
      BY <1>1
    <1>8. /\ ClaimFits(state', mint_allocation', helpers', chain', firm')
          /\ ClaimFits(disk', mint_allocation', helpers', chain', firm')
      BY <1>1 DEF ClaimFits
    <1> QED
      BY <1>2, <1>3, <1>4, <1>5, <1>6, <1>7, <1>8, InvPrimed

\* No job relies on nothing.
LEMMA IdleFits ==
    /\ Idle \in Job /\ Idle.at # "write" /\ Idle.at = "idle"
    /\ \A s, saved, c, confirmed : JobFits(Idle, s, saved, c, confirmed)
    BY DEF Idle, Job, Optional, JobFits

\* A snapshot that fits is persisted.
LEMMA PersistStep ==
    ASSUME RegistrationInv, ProcessOnly,
           NEW s \in Snapshot, NEW next \in Job, next.at # "write", Persist(s, next),
           SnapshotFits(s), ClaimFits(s, mint_allocation, helpers, chain, firm),
           JobFits(next, s, s, chain, firm)
    PROVE  RegistrationInv'
    <1>1. /\ disk \in Snapshot /\ SnapshotFits(disk)
          /\ ClaimFits(disk, mint_allocation, helpers, chain, firm)
      BY DEF RegistrationInv, RegistrationType, ProcessType, SnapshotsSound, Claims
    <1>2. CASE Validate(s)
      <2>1. state' = s /\ disk' = s /\ job' = next
        BY <1>2 DEF Persist
      <2> QED
        BY <2>1, ProcessStep
    <1>3. CASE ~Validate(s)
      <2>1. state' = s /\ disk' = disk /\ job' = Idle
        BY <1>3 DEF Persist
      <2> QED
        BY <1>1, <2>1, IdleFits, ProcessStep
    <1> QED
      BY <1>2, <1>3

\* The operation goes on with the same snapshot.
LEMMA ContinueStep ==
    ASSUME RegistrationInv, ProcessOnly, NEW next \in Job, next.at # "write", Continue(next),
           JobFits(next, state, disk, chain, firm)
    PROVE  RegistrationInv'
    <1>1. /\ state \in Snapshot /\ SnapshotFits(state)
          /\ ClaimFits(state, mint_allocation, helpers, chain, firm)
          /\ disk \in Snapshot /\ SnapshotFits(disk)
          /\ ClaimFits(disk, mint_allocation, helpers, chain, firm)
      BY DEF RegistrationInv, RegistrationType, ProcessType, SnapshotsSound, Claims
    <1>2. state' = state /\ disk' = disk /\ job' = next
      BY DEF Continue
    <1> QED
      BY <1>1, <1>2, ProcessStep

\* The operation ends with the same snapshot.
LEMMA GiveUpStep ==
    ASSUME RegistrationInv, ProcessOnly, GiveUp
    PROVE  RegistrationInv'
    BY ContinueStep, IdleFits DEF GiveUp

\* The action is kept.
LEMMA RetoldStep ==
    ASSUME RegistrationInv, ProcessOnly,
           NEW s \in Snapshot, NEW next \in Job, next.at # "write", Persist(s, next),
           SameAction(s, state), JobFits(next, s, s, chain, firm)
    PROVE  RegistrationInv'
    <1>1. SnapshotFits(s) /\ ClaimFits(s, mint_allocation, helpers, chain, firm)
      BY SameActionFits DEF RegistrationInv, SnapshotsSound, Claims
    <1> QED
      BY <1>1, PersistStep

\* An identity is taken, or kept without an action.
LEMMA SettledStep ==
    ASSUME RegistrationInv, ProcessOnly,
           NEW s \in Snapshot, NEW next \in Job, next.at # "write", Persist(s, next),
           Settled(s), JobFits(next, s, s, chain, firm)
    PROVE  RegistrationInv'
    BY SettledFits, PersistStep

\* While no call of a signer is awaited, no signer is alive.
LEMMA NoWriter ==
    ASSUME RegistrationInv, job.at # "write"
    PROVE  \A h \in helpers : ~h.live
    BY DEF RegistrationInv, WriterSound, WriterFits

\* A step outside a write that leaves signers and chain alone.
LEMMA Apart ==
    ASSUME RegistrationInv, job.at # "write",
           audited' \in BOOLEAN, audits' \in 0..2, actions' \in Nat,
           UNCHANGED <<helpers, allocated, mint_allocation, ledger>>
    PROVE  ProcessOnly
    BY NoWriter DEF ProcessOnly

\* What every step starts from.
LEMMA ProcessFacts ==
    ASSUME RegistrationInv
    PROVE  /\ state \in Snapshot /\ SnapshotFits(state)
           /\ disk \in Snapshot /\ job \in Job
           /\ audited \in BOOLEAN /\ audits \in 0..2 /\ actions \in Nat
           /\ JobFits(job, state, disk, chain, firm)
           /\ ClaimFits(state, mint_allocation, helpers, chain, firm)
           /\ ClaimFits(disk, mint_allocation, helpers, chain, firm)
           /\ LedgerType
           /\ firm \in Nat /\ final \in Nat /\ Latest \in Nat /\ final <= firm /\ firm <= Latest
           /\ SameAction(state, state)
    BY LedgerFacts DEF RegistrationInv, RegistrationType, ProcessType, SignerType, LedgerType,
       SnapshotsSound, JobSound, Claims, ChainSound, ChainFits, SameAction

-----------------------------------------------------------------------------
(* maintain_with_discovery, action by action. *)

\* A pass starts; an exhaustive one shows it in the phase.
LEMMA MaintainFromStep ==
    ASSUME RegistrationInv, job.at # "write",
           NEW s \in Snapshot, SameAction(s, state),
           NEW exhaustive \in BOOLEAN, NEW force \in BOOLEAN,
           MaintainFrom(s, exhaustive, force), audits' \in 0..2, UNCHANGED <<signer, ledger>>
    PROVE  RegistrationInv'
    <1> DEFINE next == [Idle EXCEPT !.at = "deployment", !.why = "maintain",
                                    !.exhaustive = exhaustive, !.force = force]
               told == [s EXCEPT !.phase = "Discovering"]
    <1>1. /\ next \in Job /\ next.at # "write"
          /\ \A q, saved, c, confirmed : JobFits(next, q, saved, c, confirmed)
      BY DEF Idle, Job, Optional, JobFits
    <1>2. told \in Snapshot /\ SameAction(told, state)
      <2>1. told \in Snapshot /\ SameAction(told, s)
        BY RetoldSnapshots DEF Phase
      <2> QED
        BY <2>1 DEF SameAction
    <1> HIDE DEF next, told
    <1>3. ProcessOnly
      <2>1. audited' \in BOOLEAN
        BY ProcessFacts DEF MaintainFrom
      <2> QED
        BY <2>1, Apart, ProcessFacts DEF signer
    <1>4. CASE exhaustive
      <2>1. Persist(told, next)
        BY <1>4 DEF MaintainFrom, told, next
      <2> QED
        BY <1>1, <1>2, <1>3, <2>1, RetoldStep
    <1>5. CASE ~exhaustive
      <2>1. Continue(next) \/ Persist(s, next)
        BY <1>5 DEF MaintainFrom, next
      <2> QED
        BY <1>1, <1>3, <2>1, RetoldStep, ContinueStep
    <1> QED
      BY <1>4, <1>5

\* The startup audits and the supervisor's passes.
LEMMA MaintainKeeps ==
    ASSUME RegistrationInv, MaintainStartup \/ Maintain
    PROVE  RegistrationInv'
    <1>0. audits \in 0..2
      BY ProcessFacts
    <1>1. job.at # "write" /\ audits' \in 0..2 /\ UNCHANGED <<signer, ledger>>
      <2>1. job.at # "write" /\ UNCHANGED <<signer, ledger>>
        BY IdleFits DEF MaintainStartup, Maintain
      <2>2. audits' = audits \/ (audits > 0 /\ audits' = audits - 1)
        BY DEF MaintainStartup, Maintain
      <2>3. audits' \in 0..2
        BY <1>0, <2>2
      <2> QED
        BY <2>1, <2>3
    <1>2. MaintainFrom(state, TRUE, FALSE) \/ MaintainFrom(state, ~audited, FALSE)
      BY DEF MaintainStartup, Maintain
    <1> QED
      BY <1>1, <1>2, ProcessFacts, MaintainFromStep

\* The phase tells that discovery is under way.
LEMMA ToDiscoveryStep ==
    ASSUME RegistrationInv, ProcessOnly, NEW j \in Job, j.at = "discover", ToDiscovery(j)
    PROVE  RegistrationInv'
    <1>1. \A s, saved, c, confirmed : JobFits(j, s, saved, c, confirmed)
      BY DEF JobFits
    <1>2. Continue(j) \/ Persist([state EXCEPT !.phase = "Discovering"], j)
      BY DEF ToDiscovery
    <1>3. /\ [state EXCEPT !.phase = "Discovering"] \in Snapshot
          /\ SameAction([state EXCEPT !.phase = "Discovering"], state)
      BY RetoldSnapshots, ProcessFacts DEF Phase
    <1> QED
      BY <1>1, <1>2, <1>3, RetoldStep, ContinueStep

\* The deployment is inspected first.
LEMMA DeploymentKeeps ==
    ASSUME RegistrationInv, Deployment
    PROVE  RegistrationInv'
    <1>0. /\ job \in Job /\ job.at = "deployment" /\ state \in Snapshot
          /\ JobFits(job, state, disk, chain, firm)
          /\ UNCHANGED <<audits, signer, ledger>>
      BY ProcessFacts DEF Deployment
    <1>1. ProcessOnly
      BY <1>0, Apart, ProcessFacts DEF Deployment, signer
    <1>2. CASE Persist(GatewayFailure(state), Idle) \/ GiveUp
      BY <1>0, <1>1, <1>2, RetoldStep, RetoldSnapshots, IdleFits, GiveUpStep
    <1>3. CASE job.why = "command" /\ Continue([job EXCEPT !.at = "reconcile", !.agent = state.agent])
      <2> DEFINE next == [job EXCEPT !.at = "reconcile", !.agent = state.agent]
      <2>1. next \in Job /\ next.at = "reconcile" /\ next.agent = state.agent /\ state.agent # None
        BY <1>0, <1>3 DEF Job, Snapshot, JobFits
      <2> HIDE DEF next
      <2>2. JobFits(next, state, disk, chain, firm)
        BY <2>1 DEF JobFits
      <2> QED
        BY <1>1, <1>3, <2>1, <2>2, ContinueStep DEF next
    <1>4. CASE state.hash # None /\ Continue([job EXCEPT !.at = "receipt"])
      <2> DEFINE next == [job EXCEPT !.at = "receipt"]
      <2>1. next \in Job /\ next.at = "receipt"
        BY <1>0 DEF Job
      <2> HIDE DEF next
      <2>2. JobFits(next, state, disk, chain, firm)
        BY <1>4, <2>1 DEF JobFits
      <2> QED
        BY <1>1, <1>4, <2>1, <2>2, ContinueStep DEF next
    <1>5. CASE state.agent # None /\ Continue([job EXCEPT !.at = "reconcile", !.agent = state.agent])
      <2> DEFINE next == [job EXCEPT !.at = "reconcile", !.agent = state.agent]
      <2>1. next \in Job /\ next.at = "reconcile" /\ next.agent = state.agent
        BY <1>0 DEF Job, Snapshot
      <2> HIDE DEF next
      <2>2. JobFits(next, state, disk, chain, firm)
        BY <1>5, <2>1 DEF JobFits
      <2> QED
        BY <1>1, <1>5, <2>1, <2>2, ContinueStep DEF next
    <1>6. CASE ToDiscovery([job EXCEPT !.at = "discover"])
      <2>1. [job EXCEPT !.at = "discover"] \in Job /\ [job EXCEPT !.at = "discover"].at = "discover"
        BY <1>0 DEF Job
      <2> QED
        BY <1>1, <1>6, <2>1, ToDiscoveryStep
    <1>7. CASE state.agent # None /\ Persist([state EXCEPT !.phase = "Discovering"], [job EXCEPT !.at = "bound"])
      <2> DEFINE next == [job EXCEPT !.at = "bound"]
                 told == [state EXCEPT !.phase = "Discovering"]
      <2>1. next \in Job /\ next.at = "bound"
        BY <1>0 DEF Job
      <2>2. told \in Snapshot /\ SameAction(told, state)
        BY <1>0, RetoldSnapshots DEF Phase
      <2> HIDE DEF next, told
      <2>3. JobFits(next, told, told, chain, firm)
        BY <1>7, <2>1, <2>2 DEF JobFits, SameAction
      <2> QED
        BY <1>1, <1>7, <2>1, <2>2, <2>3, RetoldStep DEF next, told
    <1> QED
      BY <1>2, <1>3, <1>4, <1>5, <1>6, <1>7 DEF Deployment

\* What is read of the binding is only noted.
LEMMA InspectBindingKeeps ==
    ASSUME RegistrationInv, InspectBinding
    PROVE  RegistrationInv'
    <1>0. /\ job \in Job /\ job.at = "bound" /\ state \in Snapshot
          /\ UNCHANGED <<audits, signer, ledger>>
      BY ProcessFacts DEF InspectBinding
    <1>1. ProcessOnly
      BY <1>0, Apart, ProcessFacts DEF InspectBinding, signer
    <1>2. CASE Persist(DiscoveryIncomplete(state), Idle)
      BY <1>0, <1>1, <1>2, RetoldStep, RetoldSnapshots, IdleFits
    <1>3. ASSUME NEW b \in {"absent", "ours", "lost"},
                 ToDiscovery([job EXCEPT !.at = "discover", !.bound = b])
          PROVE  RegistrationInv'
      <2> DEFINE next == [job EXCEPT !.at = "discover", !.bound = b]
      <2>1. next \in Job /\ next.at = "discover"
        BY <1>0 DEF Job
      <2> QED
        BY <1>1, <1>3, <2>1, ToDiscoveryStep
    <1> QED
      BY <1>2, <1>3 DEF InspectBinding

\* What is discovered was final, so it was confirmed.
LEMMA DiscoverKeeps ==
    ASSUME RegistrationInv, Discover
    PROVE  RegistrationInv'
    <1>0. /\ job \in Job /\ job.at = "discover" /\ state \in Snapshot
          /\ final \in Nat /\ final <= firm /\ final \in 0..Latest
          /\ LedgerType /\ height \in Nat
          /\ UNCHANGED <<audits, signer, ledger>>
      BY ProcessFacts DEF Discover, LedgerType
    <1>1. ProcessOnly
      BY <1>0, Apart, ProcessFacts DEF Discover, signer
    <1>2. CASE Persist(DiscoveryIncomplete(state), Idle)
      BY <1>0, <1>1, <1>2, RetoldStep, RetoldSnapshots, IdleFits
    <1>3. CASE Persist([state EXCEPT !.checkpoint = FALSE, !.mint = None], job)
      <2> DEFINE told == [state EXCEPT !.checkpoint = FALSE, !.mint = None]
      <2>1. told \in Snapshot /\ SameAction(told, state)
        BY <1>0 DEF Snapshot, SameAction, Optional
      <2> HIDE DEF told
      <2>2. JobFits(job, told, told, chain, firm)
        BY <1>0 DEF JobFits
      <2> QED
        BY <1>0, <1>1, <1>3, <2>1, <2>2, RetoldStep DEF told
    <1>4. CASE Persist([state EXCEPT !.checkpoint = TRUE, !.candidates = CandidatesAt(final),
                                     !.mint = MintAuthorization(final)],
                       [job EXCEPT !.at = "decide", !.observed = final])
      <2> DEFINE next == [job EXCEPT !.at = "decide", !.observed = final]
                 found == CandidatesAt(final)
                 proof == MintAuthorization(final)
                 told == [state EXCEPT !.checkpoint = TRUE, !.candidates = found, !.mint = proof]
      <2>1. found \in SUBSET Candidate
        BY <1>0, CandidatesType
      <2>2. proof \in Optional(Nat)
        BY <1>0 DEF MintAuthorization, Optional
      <2>3. next \in Job /\ next.at = "decide" /\ next.observed = final
        BY <1>0 DEF Job, Optional
      <2> HIDE DEF next, found, proof
      <2>4. told \in Snapshot /\ SameAction(told, state)
        BY <1>0, <2>1, <2>2 DEF Snapshot, SameAction
      <2>5. JobFits(next, told, told, chain, firm)
        BY <1>0, <2>3, NoneAssumption DEF JobFits
      <2> QED
        BY <1>1, <1>4, <2>3, <2>4, <2>5, RetoldStep DEF next, found, proof
    <1> QED
      BY <1>2, <1>3, <1>4 DEF Discover

\* What discovery found decides: an identity is taken, the open outcome is looked
\* for, or a registration is resumed or begun.
LEMMA DecideKeeps ==
    ASSUME RegistrationInv, Decide
    PROVE  RegistrationInv'
    <1> DEFINE matched == IF state.action = Register /\ state.nonce # None
                          THEN Matched(state.nonce, job.observed) ELSE {}
               same == SameTentacle(state, matched)
               ids == {c.id : c \in state.candidates}
               outcome_known == UnresolvedRegister /\ matched # {}
    <1>0. /\ job \in Job /\ job.at = "decide" /\ state \in Snapshot /\ SnapshotFits(state)
          /\ audits' = audits /\ UNCHANGED <<signer, ledger>>
          /\ state = disk /\ job.observed # None /\ job.observed <= firm
          /\ LedgerType
      BY ProcessFacts DEF Decide, JobFits
    <1>1. ProcessOnly
      <2>1. audited' \in BOOLEAN
        BY ProcessFacts DEF Decide, KeepUnprovenBinding, DecideMint
      <2> QED
        BY <1>0, <2>1, Apart, ProcessFacts DEF signer
    <1>2. job.observed \in Nat /\ job.observed \in 0..Latest
      <2>1. job.observed \in Nat
        BY <1>0 DEF Job, Optional
      <2> QED
        BY <1>0, <2>1, ProcessFacts
    <1>3. /\ matched \in SUBSET Nat
          /\ state.action = Register /\ state.nonce # None /\ matched = {} =>
                 ~MintedAt(chain, state.nonce, job.observed)
      <2>1. state.nonce \in Nat \/ state.nonce = None
        BY <1>0 DEF Snapshot, Optional
      <2> QED
        BY <1>0, <1>2, <2>1, MatchedType
    <1>4. same \in SUBSET Nat
      <2>1. \A c \in state.candidates : c.id \in Nat
        BY <1>0 DEF Snapshot, Candidate
      <2> QED
        BY <2>1 DEF SameTentacle
    <1> HIDE DEF matched, same
    <1>5. CASE same # {} /\ SelectCanonical(same)
      <2> DEFINE canonical == Least(same)
                 duplicates == same \ {canonical}
                 kept == [state EXCEPT !.mint = None, !.failure = "none"]
                 repaired == RepairCanonicalBinding(state, canonical, duplicates)
                 receipt == [job EXCEPT !.at = "receipt"]
                 reconcile == [job EXCEPT !.at = "reconcile", !.agent = canonical]
      <2>1. canonical \in Nat /\ canonical # None /\ duplicates \in SUBSET Nat
        BY <1>4, <1>5, LeastType
      <2>2. \/ state.agent = canonical /\ Persist(kept, IF kept.hash # None THEN receipt ELSE reconcile)
            \/ Persist(repaired, IF repaired.hash # None THEN receipt ELSE reconcile)
        BY <1>5 DEF SelectCanonical
      <2>3. /\ receipt \in Job /\ receipt.at = "receipt"
            /\ reconcile \in Job /\ reconcile.at = "reconcile" /\ reconcile.agent = canonical
        BY <1>0, <2>1 DEF Job, Optional
      <2>4. kept \in Snapshot /\ SameAction(kept, state)
        BY <1>0 DEF Snapshot, SameAction, Optional, Failure
      <2>5. repaired \in Snapshot /\ Settled(repaired) /\ repaired.agent = canonical
        <3>1. 0 \in Optional(Nat)
          BY DEF Optional
        <3> QED
          BY <1>0, <2>1, <3>1, AdoptedSnapshots
      <2> HIDE DEF canonical, duplicates, kept, repaired, receipt, reconcile
      <2>6. CASE state.agent = canonical /\ Persist(kept, IF kept.hash # None THEN receipt ELSE reconcile)
        <3>1. CASE kept.hash # None
          <4>1. JobFits(receipt, kept, kept, chain, firm)
            BY <2>3, <3>1 DEF JobFits
          <4> QED
            BY <1>1, <2>3, <2>4, <2>6, <3>1, <4>1, RetoldStep
        <3>2. CASE kept.hash = None
          <4>1. JobFits(reconcile, kept, kept, chain, firm)
            BY <2>1, <2>3, <2>4, <2>6 DEF JobFits, SameAction
          <4> QED
            BY <1>1, <2>3, <2>4, <2>6, <3>2, <4>1, RetoldStep
        <3> QED
          BY <3>1, <3>2
      <2>7. CASE Persist(repaired, IF repaired.hash # None THEN receipt ELSE reconcile)
        <3>1. JobFits(reconcile, repaired, repaired, chain, firm)
          BY <2>1, <2>3, <2>5 DEF JobFits
        <3>2. Persist(repaired, reconcile)
          BY <2>5, <2>7 DEF Settled
        <3> QED
          BY <1>1, <2>3, <2>5, <3>1, <3>2, SettledStep
      <2> QED
        BY <2>2, <2>6, <2>7
    <1>6. CASE state.hash # None /\ Continue([job EXCEPT !.at = "receipt"])
      <2> DEFINE next == [job EXCEPT !.at = "receipt"]
      <2>1. next \in Job /\ next.at = "receipt"
        BY <1>0 DEF Job
      <2> HIDE DEF next
      <2>2. JobFits(next, state, disk, chain, firm)
        BY <1>6, <2>1 DEF JobFits
      <2> QED
        BY <1>1, <1>6, <2>1, <2>2, ContinueStep DEF next
    <1>7. CASE matched # {} /\ Persist(AdoptConfirmed(state, Least(matched), None),
                                       [job EXCEPT !.at = "reconcile", !.agent = Least(matched)])
      <2> DEFINE least == Least(matched)
                 next == [job EXCEPT !.at = "reconcile", !.agent = least]
                 taken == AdoptConfirmed(state, least, None)
      <2>1. least \in Nat /\ least # None
        BY <1>3, <1>7, LeastType
      <2>2. next \in Job /\ next.at = "reconcile" /\ next.agent = least
        BY <1>0, <2>1 DEF Job, Optional
      <2>3. taken \in Snapshot /\ Settled(taken)
        <3>1. None \in Optional(Nat) /\ {} \in SUBSET Nat
          BY DEF Optional
        <3> QED
          BY <1>0, <2>1, <3>1, AdoptedSnapshots
      <2> HIDE DEF least, next, taken
      <2>4. JobFits(next, taken, taken, chain, firm)
        BY <2>1, <2>2, <2>3 DEF JobFits, Settled
      <2>5. Persist(taken, next)
        BY <1>7 DEF taken, next, least
      <2> QED
        BY <1>1, <2>2, <2>3, <2>4, <2>5, SettledStep
    <1>8. CASE KeepUnprovenBinding(ids)
      <2>1. CASE Persist(DiscoveryIncomplete(state), Idle) \/ Persist(Failed(state, "recoverable"), Idle)
        BY <1>0, <1>1, <2>1, RetoldStep, RetoldSnapshots, IdleFits
      <2>2. CASE Persist(Suspend(state), Idle)
        BY <1>0, <1>1, <2>2, SuspendedSnapshots, RetoldStep, SettledStep, IdleFits
      <2> QED
        BY <1>8, <2>1, <2>2 DEF KeepUnprovenBinding
    <1>9. CASE Persist(Failed(state, "recoverable"), Idle)
      BY <1>0, <1>1, <1>9, RetoldStep, RetoldSnapshots, IdleFits
    <1>10. CASE ~outcome_known /\ DecideMint
      <2> DEFINE resumed == [job EXCEPT !.at = "register_nonce"]
                 funding == [job EXCEPT !.at = "funding"]
                 told == [state EXCEPT !.phase = "VerifiedNoExistingIdentity"]
      <2>1. /\ resumed \in Job /\ resumed.at = "register_nonce" /\ resumed.observed = job.observed
            /\ funding \in Job /\ funding.at = "funding" /\ funding.observed = job.observed
        BY <1>0 DEF Job
      <2>2. told \in Snapshot /\ SameAction(told, state)
        BY <1>0, RetoldSnapshots DEF Phase
      <2> HIDE DEF resumed, funding, told
      <2>3. CASE GiveUp
        BY <1>1, <2>3, GiveUpStep
      <2>4. CASE UnresolvedRegister /\ Continue(resumed)
        <3>1. state.action = Register /\ matched = {}
          BY <1>10, <2>4 DEF UnresolvedRegister
        <3>2. JobFits(resumed, state, disk, chain, firm)
          BY <1>0, <1>3, <2>1, <3>1 DEF JobFits
        <3> QED
          BY <1>1, <2>1, <2>4, <3>2, ContinueStep
      <2>5. CASE Persist(told, funding) \/ Persist(told, Idle)
        <3>1. JobFits(funding, told, told, chain, firm)
          BY <1>0, <2>1 DEF JobFits
        <3> QED
          BY <1>1, <2>1, <2>2, <2>5, <3>1, RetoldStep, IdleFits
      <2>6. \/ GiveUp
            \/ UnresolvedRegister /\ Continue(resumed)
            \/ Persist(told, funding)
            \/ Persist(told, Idle)
        <3>0. DecideMint
          BY <1>10
        <3> QED
          BY <3>0 DEF DecideMint, resumed, funding, told
      <2> QED
        BY <2>3, <2>4, <2>5, <2>6
    <1>11. \/ same # {} /\ SelectCanonical(same)
           \/ state.hash # None /\ Continue([job EXCEPT !.at = "receipt"])
           \/ matched # {} /\ Persist(AdoptConfirmed(state, Least(matched), None),
                                      [job EXCEPT !.at = "reconcile", !.agent = Least(matched)])
           \/ KeepUnprovenBinding(ids)
           \/ Persist(Failed(state, "recoverable"), Idle)
           \/ ~outcome_known /\ DecideMint
      BY Zenon DEF Decide, matched, same
    <1> QED
      BY <1>5, <1>6, <1>7, <1>8, <1>9, <1>10, <1>11

\* The claims of a snapshot that has no action, or whose action has no nonce yet,
\* rest on spent nonces alone, and so hold of any other snapshot of that identity.
LEMMA UnclaimedFits ==
    ASSUME RegistrationInv, state.nonce = None, NEW s, s.agent = state.agent
    PROVE  ClaimFits(s, mint_allocation, helpers, chain, firm)
    <1>1. None \notin Nat
      BY NoneAssumption
    <1>2. /\ mint_allocation # None => mint_allocation.nonce \in Nat
          /\ \A h \in helpers : h.nonce \in Nat
      BY DEF RegistrationInv, RegistrationType, SignerType, Optional, Allocated, Helper
    <1>3. ClaimFits(state, mint_allocation, helpers, chain, firm)
      BY ProcessFacts
    <1> QED
      BY <1>1, <1>2, <1>3 DEF ClaimFits

\* An intent is prepared only while there is no other.
LEMMA PreparedStep ==
    ASSUME RegistrationInv, job.at # "write",
           NEW s \in Snapshot, SameAction(s, state), NEW action \in {Register} \cup FollowUp,
           action \in FollowUp => s.agent # None,
           NEW next \in Job, next.at # "write",
           PrepareAction(s, action, next),
           UNCHANGED <<audited, audits, helpers, allocated, mint_allocation, ledger>>,
           \A q \in Snapshot :
               q.action = action /\ q.agent = s.agent /\ q.nonce = None => JobFits(next, q, q, chain, firm)
    PROVE  RegistrationInv'
    <1> DEFINE q == [s EXCEPT !.action = action, !.aid = actions, !.phase = "Preparing",
                              !.failure = "none"]
    <1>1. CASE s.hash # None \/ s.action # None \/ s.nonce # None
      <2>1. state' = s /\ disk' = disk /\ job' = Idle /\ actions' = actions
        BY <1>1 DEF PrepareAction
      <2>2. ProcessOnly
        BY <2>1, Apart, ProcessFacts
      <2>3. SnapshotFits(s) /\ ClaimFits(s, mint_allocation, helpers, chain, firm)
        BY SameActionFits, ProcessFacts
      <2>4. SnapshotFits(disk)
        BY DEF RegistrationInv, SnapshotsSound
      <2> QED
        BY <2>1, <2>2, <2>3, <2>4, ProcessFacts, IdleFits, ProcessStep
    <1>2. CASE ~(s.hash # None \/ s.action # None \/ s.nonce # None)
      <2>1. actions' = actions + 1 /\ Persist(q, next)
        BY <1>2 DEF PrepareAction
      <2>2. actions \in Nat
        BY ProcessFacts
      <2>3. ProcessOnly
        BY <2>1, <2>2, Apart, ProcessFacts
      <2>4. /\ q \in Snapshot /\ q.action = action /\ q.aid = actions
            /\ q.nonce = s.nonce /\ q.hash = s.hash /\ q.agent = s.agent
        BY <2>2 DEF Snapshot, Optional, Phase, Failure
      <2> HIDE DEF q
      <2>5. action # None /\ (action \in FollowUp => s.agent # None)
        BY NoneAssumption
      <2>6. SnapshotFits(q)
        BY <1>2, <2>2, <2>4, <2>5, NoneAssumption DEF SnapshotFits
      <2>7. ClaimFits(q, mint_allocation, helpers, chain, firm)
        BY <1>2, <2>4, UnclaimedFits DEF SameAction
      <2> QED
        BY <1>2, <2>1, <2>3, <2>4, <2>6, <2>7, PersistStep
    <1> QED
      BY <1>1, <1>2

\* Whether the wallet is funded is only told.
LEMMA FundingKeeps ==
    ASSUME RegistrationInv, Funding
    PROVE  RegistrationInv'
    <1>0. /\ job \in Job /\ job.at = "funding" /\ state \in Snapshot
          /\ JobFits(job, state, disk, chain, firm)
          /\ UNCHANGED <<audited, audits, helpers, allocated, mint_allocation, ledger>>
      BY ProcessFacts DEF Funding
    <1>1. CASE actions' = actions /\ Persist(GatewayFailure(state), Idle)
      <2>1. ProcessOnly
        BY <1>0, <1>1, Apart, ProcessFacts
      <2> QED
        BY <1>0, <1>1, <2>1, RetoldStep, RetoldSnapshots, IdleFits
    <1>2. CASE actions' = actions /\ Persist([state EXCEPT !.phase = "FundingRequired"], Idle)
      <2>1. ProcessOnly
        BY <1>0, <1>2, Apart, ProcessFacts
      <2>2. "FundingRequired" \in Phase
        BY DEF Phase
      <2> QED
        BY <1>0, <1>2, <2>1, <2>2, RetoldStep, RetoldSnapshots, IdleFits
    <1>3. CASE actions' = actions /\ Persist([state EXCEPT !.phase = "ReadyToRegister"],
                                            [job EXCEPT !.at = "prepare"])
      <2> DEFINE s == [state EXCEPT !.phase = "ReadyToRegister"]
                 next == [job EXCEPT !.at = "prepare"]
      <2>1. s \in Snapshot /\ SameAction(s, state)
        BY <1>0, RetoldSnapshots DEF Phase
      <2>2. next \in Job /\ next.at = "prepare" /\ next.observed = job.observed
        BY <1>0 DEF Job
      <2>3. actions' = actions /\ Persist(s, next)
        BY <1>3
      <2> HIDE DEF s, next
      <2>4. JobFits(next, s, s, chain, firm)
        BY <1>0, <2>2 DEF JobFits
      <2>5. ProcessOnly
        BY <1>0, <2>3, Apart, ProcessFacts
      <2> QED
        BY <2>1, <2>2, <2>3, <2>4, <2>5, RetoldStep
    <1> QED
      BY <1>1, <1>2, <1>3 DEF Funding

\* A registration is prepared only by a snapshot without an action.
LEMMA PrepareRegistrationKeeps ==
    ASSUME RegistrationInv, PrepareRegistration
    PROVE  RegistrationInv'
    <1> DEFINE next == [job EXCEPT !.at = "register_nonce"]
    <1>1. /\ job \in Job /\ job.at = "prepare" /\ state \in Snapshot
          /\ JobFits(job, state, disk, chain, firm)
          /\ UNCHANGED <<audited, audits, helpers, allocated, mint_allocation, ledger>>
          /\ PrepareAction(state, Register, next)
      BY ProcessFacts DEF PrepareRegistration
    <1>2. next \in Job /\ next.at = "register_nonce" /\ next.observed = job.observed
      BY <1>1 DEF Job
    <1> HIDE DEF next
    <1>3. ASSUME NEW q \in Snapshot, q.action = Register, q.nonce = None
          PROVE  JobFits(next, q, q, chain, firm)
      BY <1>1, <1>2, <1>3 DEF JobFits
    <1>4. Register \notin FollowUp /\ SameAction(state, state)
      BY DEF Register, FollowUp, SameAction
    <1> QED
      BY <1>1, <1>2, <1>3, <1>4, PreparedStep

\* The writer started for a snapshot carries its action, and is the only one alive.
LEMMA StartWriteStep ==
    ASSUME RegistrationInv, job.at # "write",
           NEW s \in Snapshot, SnapshotFits(s), s.action # None, s.nonce \in Nat,
           ClaimFits(s, mint_allocation, helpers, chain, firm),
           s = state /\ s.action = Register => disk = state,
           StartWrite(s),
           UNCHANGED <<audited, audits, allocated, mint_allocation, actions, ledger>>
    PROVE  RegistrationInv'
    <1> DEFINE a == IF s.action = Register THEN None ELSE s.agent
               next == [job EXCEPT !.at = "write", !.agent = a]
               h == Write(s, next)
    <1>0. a \in Optional(Nat) /\ job \in Job
      BY ProcessFacts DEF Snapshot, Optional
    <1> HIDE DEF a
    <1>1. next \in Job /\ next.at = "write" /\ next.agent \in Optional(Nat)
      BY <1>0 DEF Job
    <1>2. \/ s.action = Register
          \/ s.action \in FollowUp /\ s.action # Register
      BY DEF Snapshot, Register, FollowUp
    <1>3. s.aid \in Nat /\ s.mint \in Optional(Nat) /\ s.revision \in Nat
      BY DEF Snapshot, SnapshotFits, Optional
    <1> HIDE DEF next
    <1>4. /\ h \in Helper /\ h.live /\ h.aid = s.aid /\ h.nonce = s.nonce
          /\ h.step = IF s.action = Register THEN "authorize" ELSE "allocate"
          /\ h.kind = IF s.action = Register THEN "Register" ELSE "Set"
      <2>1. CASE s.action = Register
        BY <1>1, <1>3, <2>1 DEF Write, Helper, Optional, Register
      <2>2. CASE s.action \in FollowUp /\ s.action # Register
        <3>1. s.action.kind = "Set" /\ s.action.field \in Field /\ s.action.value \in Nat
          BY <2>2 DEF FollowUp
        <3>2. (IF s.action.field = "uri" THEN s.revision ELSE s.action.value) \in Nat
          BY <1>3, <3>1
        <3> QED
          BY <1>1, <1>3, <2>2, <3>1, <3>2 DEF Write, Helper, Optional
      <2> QED
        BY <1>2, <2>1, <2>2
    <1> HIDE DEF h
    <1>5. JobFits(next, s, disk, chain, firm) /\ JobFits(next, s, s, chain, firm)
      BY <1>1, NoneAssumption DEF JobFits
    <1>6. \/ /\ state' = s /\ disk' = disk /\ job' = Idle /\ helpers' = helpers
          \/ /\ state' = s /\ job' = next /\ helpers' = helpers \cup {h}
             /\ disk' = s \/ (disk' = disk /\ s = state)
      <2>1. CASE s = state
        BY <2>1 DEF StartWrite, Continue, h, next, a
      <2>2. CASE s # state /\ Validate(s)
        BY <2>2 DEF StartWrite, Persist, h, next, a
      <2>3. CASE s # state /\ ~Validate(s)
        BY <2>3 DEF StartWrite, Persist, h, next, a
      <2> QED
        BY <2>1, <2>2, <2>3
    <1>7. /\ disk \in Snapshot /\ SnapshotFits(disk) /\ SnapshotFits(state)
          /\ ClaimFits(disk, mint_allocation, helpers, chain, firm)
          /\ \A g \in helpers : ~g.live
      BY NoWriter, ProcessFacts DEF RegistrationInv, SnapshotsSound
    <1>8. CASE state' = s /\ disk' = disk /\ job' = Idle /\ helpers' = helpers
      <2>1. ProcessOnly
        BY <1>8, Apart, ProcessFacts
      <2> QED
        BY <1>7, <1>8, <2>1, IdleFits, ProcessStep
    <1>9. CASE /\ state' = s /\ job' = next /\ helpers' = helpers \cup {h}
               /\ disk' = s \/ (disk' = disk /\ s = state)
      <2>1. /\ allocated' = allocated /\ mint_allocation' = mint_allocation /\ actions' = actions
            /\ agents' = agents /\ chain' = chain /\ firm' = firm /\ final' = final
            /\ height' = height /\ mempool' = mempool /\ sent' = sent
            /\ audited' = audited /\ audits' = audits
        BY DEF ledger
      <2>2. RegistrationType'
        BY <1>1, <1>4, <1>7, <1>9, <2>1
           DEF RegistrationInv, RegistrationType, ProcessType, SignerType, LedgerType
      <2>3. ChainFits(chain', mempool', firm', final')
        BY <2>1 DEF RegistrationInv, ChainSound
      <2>4. NoncesFit(allocated', Sent(chain', mempool'), helpers')
        BY <1>4, <1>9, <2>1 DEF RegistrationInv, NonceGivenOnce, NoncesFit
      <2>5. MintFits(mint_allocation', Sent(chain', mempool'), helpers')
        BY <1>4, <1>9, <2>1 DEF RegistrationInv, MintBound, MintFits
      <2>6. SnapshotFits(state') /\ SnapshotFits(disk')
        BY <1>7, <1>9
      <2>7. WriterFits(helpers', job', state')
        BY <1>1, <1>4, <1>7, <1>9 DEF RegistrationInv, WriterSound, WriterFits
      <2>8. JobFits(job', state', disk', chain', firm')
        BY <1>5, <1>9, <2>1
      <2>9. ClaimFits(state', mint_allocation', helpers', chain', firm')
        BY <1>4, <1>9, <2>1 DEF ClaimFits
      <2>10. ClaimFits(disk', mint_allocation', helpers', chain', firm')
        <3>1. CASE s.action = Register
          BY <1>9, <2>9, <3>1
        <3>2. CASE s.action # Register
          BY <1>4, <1>7, <1>9, <2>1, <2>9, <3>2 DEF ClaimFits
        <3> QED
          BY <3>1, <3>2
      <2> QED
        BY <2>2, <2>3, <2>4, <2>5, <2>6, <2>7, <2>8, <2>9, <2>10, InvPrimed
    <1> QED
      BY <1>6, <1>8, <1>9

\* A snapshot without its action, whose nonce was used for good and minted nothing.
LEMMA SpentFits ==
    ASSUME RegistrationInv, NEW s, s.agent = state.agent,
           state.nonce \in Nat => Spent(chain, state.nonce, firm)
    PROVE  ClaimFits(s, mint_allocation, helpers, chain, firm)
    <1>1. /\ mint_allocation # None => mint_allocation.nonce \in Nat
          /\ \A h \in helpers : h.nonce \in Nat
      BY DEF RegistrationInv, RegistrationType, SignerType, Optional, Allocated, Helper
    <1>2. ClaimFits(state, mint_allocation, helpers, chain, firm)
      BY ProcessFacts
    <1> QED
      BY <1>1, <1>2 DEF ClaimFits, Spent

\* The action of a follow-up is let go beside the identity it was for.
LEMMA ConsumedSettled ==
    ASSUME NEW s \in Snapshot, SnapshotFits(s), s.action \in FollowUp
    PROVE  RetireConsumed(s) \in Snapshot /\ Settled(RetireConsumed(s))
    <1> DEFINE m == IF s.action = Register THEN None ELSE s.mint
               p == IF s.agent # None THEN "ConfirmedIdentity" ELSE "Discovering"
               q == [Retire(s) EXCEPT !.mint = m, !.failure = "none", !.phase = p]
    <1>1. m \in Optional(Nat) /\ p \in Phase /\ "none" \in Failure
      BY DEF Snapshot, Optional, Phase, Failure
    <1>2. q = RetireConsumed(s)
      BY Zenon DEF RetireConsumed
    <1>3. s.agent # None
      BY DEF SnapshotFits
    <1> HIDE DEF m, p
    <1>4. q \in Snapshot /\ Settled(q)
      BY <1>1, <1>3, RetiredSnapshots DEF Snapshot, Settled
    <1> QED
      BY <1>2, <1>4

\* The confirmed nonce is the one at the observed block if one is named.
LEMMA ConfirmedNoncesType ==
    ASSUME RegistrationInv, NEW observed \in Optional(Nat), NEW latest \in ConfirmedNonces(observed)
    PROVE  latest \in Nat /\ (observed # None => latest = observed)
    BY ProcessFacts, NoneAssumption DEF ConfirmedNonces, Optional

\* A nonce is durable, and is the pending one, before the writer starts.
LEMMA FirstWriteStep ==
    ASSUME RegistrationInv, job.at # "write", state.action # None, state.nonce = None,
           StartWrite([state EXCEPT !.nonce = Pending]),
           UNCHANGED <<audited, audits, allocated, mint_allocation, actions, ledger>>
    PROVE  RegistrationInv'
    <1> DEFINE n == Pending
               s == [state EXCEPT !.nonce = n]
    <1>1. n \in Nat /\ state \in Snapshot /\ SnapshotFits(state)
      BY PendingType, ProcessFacts
    <1> HIDE DEF n
    <1>2. /\ s \in Snapshot /\ s.nonce = n /\ s.action = state.action /\ s.aid = state.aid
          /\ s.hash = state.hash /\ s.agent = state.agent
      BY <1>1 DEF Snapshot, Optional
    <1> HIDE DEF s
    <1>3. s # state
      BY <1>1, <1>2, NoneAssumption
    <1>4. SnapshotFits(s)
      <2>1. state.hash = None
        BY <1>1, NoneAssumption DEF SnapshotFits, Snapshot, Optional, Tx
      <2> QED
        BY <1>1, <1>2, <2>1 DEF SnapshotFits
    <1>5. ClaimFits(s, mint_allocation, helpers, chain, firm)
      BY <1>2, UnclaimedFits
    <1> QED
      BY <1>1, <1>2, <1>3, <1>4, <1>5, StartWriteStep DEF s, n

\* An action is forgotten only when the observed block, which was confirmed, shows that
\* its nonce was used and minted nothing.
LEMMA RegisterNonceKeeps ==
    ASSUME RegistrationInv, RegisterNonce
    PROVE  RegistrationInv'
    <1>0. /\ job \in Job /\ job.at = "register_nonce" /\ state \in Snapshot /\ SnapshotFits(state)
          /\ JobFits(job, state, disk, chain, firm)
          /\ UNCHANGED <<audits, allocated, mint_allocation, actions, ledger>>
          /\ job.observed \in Optional(Nat) /\ state.nonce \in Optional(Nat)
          /\ firm \in Nat /\ Latest \in Nat /\ firm <= Latest
      BY ProcessFacts DEF RegisterNonce, Job, Snapshot
    <1>1. state = disk /\ state.action = Register /\ state.action # None
      BY <1>0, NoneAssumption DEF JobFits
    <1>2. helpers' = helpers /\ audited' \in BOOLEAN => ProcessOnly
      BY <1>0, Apart, ProcessFacts
    <1>3. CASE UNCHANGED <<audited, helpers>> /\ (GiveUp \/ Persist(GatewayFailure(state), Idle))
      <2>1. ProcessOnly
        BY <1>2, <1>3, ProcessFacts
      <2> QED
        BY <1>0, <1>3, <2>1, GiveUpStep, RetoldStep, RetoldSnapshots, IdleFits
    <1>4. ASSUME NEW latest \in ConfirmedNonces(job.observed),
                 state.nonce # None, latest > state.nonce, UNCHANGED <<audited, helpers>>,
                 Persist(IF job.observed = None
                         THEN [state EXCEPT !.phase = "Discovering", !.failure = "recoverable"]
                         ELSE [Retire(state) EXCEPT !.phase = "Discovering",
                                                    !.mint = None, !.failure = "none"], Idle)
          PROVE  RegistrationInv'
      <2>1. ProcessOnly
        BY <1>2, <1>4, ProcessFacts
      <2>2. CASE job.observed = None
        <3> DEFINE told == [state EXCEPT !.phase = "Discovering", !.failure = "recoverable"]
        <3>1. told \in Snapshot /\ SameAction(told, state)
          BY <1>0 DEF Snapshot, SameAction, Phase, Failure
        <3>2. Persist(told, Idle)
          BY <1>4, <2>2
        <3> QED
          BY <2>1, <3>1, <3>2, RetoldStep, IdleFits
      <2>3. CASE job.observed # None
        <3> DEFINE q == [Retire(state) EXCEPT !.phase = "Discovering", !.mint = None,
                                              !.failure = "none"]
        <3>1. /\ q \in Snapshot /\ q.agent = state.agent
              /\ q.action = None /\ q.aid = None /\ q.nonce = None /\ q.hash = None
          BY <1>0, RetiredSnapshots DEF Snapshot, Phase, Failure, Optional
        <3>2. Persist(q, Idle)
          BY <1>4, <2>3
        <3> HIDE DEF q
        <3>3. SnapshotFits(q)
          BY <3>1, NoneAssumption DEF SnapshotFits
        <3>4. Spent(chain, state.nonce, firm)
          <4>1. /\ state.nonce \in Nat /\ job.observed \in Nat
                /\ state.nonce < job.observed /\ job.observed <= firm
            BY <1>0, <1>4, <2>3, ConfirmedNoncesType DEF JobFits, Optional
          <4>2. ~MintedAt(chain, state.nonce, job.observed)
            BY <1>0, <1>4, <2>3 DEF JobFits
          <4> QED
            BY <1>0, <4>1, <4>2 DEF Spent, MintedAt
        <3>5. ClaimFits(q, mint_allocation, helpers, chain, firm)
          BY <3>1, <3>4, SpentFits
        <3> QED
          BY <2>1, <3>1, <3>2, <3>3, <3>5, PersistStep, IdleFits
      <2> QED
        BY <2>2, <2>3
    <1>5. CASE state.nonce # None /\ StartWrite(state) /\ UNCHANGED audited
      <2>1. state.nonce \in Nat
        BY <1>0, <1>5 DEF Optional
      <2>2. ClaimFits(state, mint_allocation, helpers, chain, firm)
        BY ProcessFacts
      <2> QED
        BY <1>0, <1>1, <1>5, <2>1, <2>2, StartWriteStep
    <1>6. CASE audited' = FALSE /\ UNCHANGED helpers /\ Persist(DiscoveryIncomplete(state), Idle)
      <2>1. ProcessOnly
        BY <1>2, <1>6
      <2> QED
        BY <1>0, <1>6, <2>1, RetoldStep, RetoldSnapshots, IdleFits
    <1>7. CASE state.nonce = None /\ StartWrite([state EXCEPT !.nonce = Pending]) /\ UNCHANGED audited
      BY <1>0, <1>1, <1>7, FirstWriteStep
    <1> QED
      BY <1>3, <1>4, <1>5, <1>6, <1>7 DEF RegisterNonce

\* A follow-up is forgotten beside the identity it was for.
LEMMA FollowUpNonceKeeps ==
    ASSUME RegistrationInv, FollowUpNonce
    PROVE  RegistrationInv'
    <1>0. /\ job \in Job /\ job.at = "follow_up_nonce" /\ state \in Snapshot /\ SnapshotFits(state)
          /\ JobFits(job, state, disk, chain, firm)
          /\ UNCHANGED <<audited, audits, allocated, mint_allocation, actions, ledger>>
      BY ProcessFacts DEF FollowUpNonce
    <1>1. state.action \in FollowUp /\ state.action # None /\ state.action # Register
      BY <1>0, NoneAssumption DEF JobFits, FollowUp, Register
    <1>2. helpers' = helpers => ProcessOnly
      BY <1>0, Apart, ProcessFacts
    <1>3. CASE helpers' = helpers /\ Persist(GatewayFailure(state), Idle)
      BY <1>0, <1>2, <1>3, RetoldStep, RetoldSnapshots, IdleFits
    <1>4. CASE helpers' = helpers /\ Persist(RetireConsumed(state), Idle)
      BY <1>0, <1>1, <1>2, <1>4, ConsumedSettled, SettledStep, IdleFits
    <1>5. CASE state.nonce # None /\ StartWrite(state)
      <2>1. state.nonce \in Nat
        BY <1>0, <1>5 DEF Snapshot, Optional
      <2>2. ClaimFits(state, mint_allocation, helpers, chain, firm)
        BY ProcessFacts
      <2> QED
        BY <1>0, <1>1, <1>5, <2>1, <2>2, StartWriteStep
    <1>6. CASE state.nonce = None /\ StartWrite([state EXCEPT !.nonce = Pending])
      BY <1>0, <1>1, <1>6, FirstWriteStep
    <1> QED
      BY <1>3, <1>4, <1>5, <1>6 DEF FollowUpNonce

\* The answer belongs to the one writer, which worked with the nonce of the snapshot.
LEMMA WriteAnsweredKeeps ==
    ASSUME RegistrationInv, WriteAnswered
    PROVE  RegistrationInv'
    <1>0. /\ job.at = "write" /\ state \in Snapshot /\ SnapshotFits(state)
          /\ UNCHANGED <<audited, audits, allocated, mint_allocation, actions, ledger>>
          /\ state.nonce # None /\ state.action # None
      BY ProcessFacts DEF WriteAnswered, JobFits
    <1>1. PICK h \in helpers :
            /\ h.live
            /\ helpers' = helpers \ {h}
            /\ \/ /\ h.step = "sent"
                  /\ Persist([state EXCEPT !.hash = h.hash, !.phase = "Submitted",
                                           !.failure = "none"], Idle)
               \/ /\ h.step \in {"recoverable", "permanent"}
                  /\ Persist([state EXCEPT !.failure = h.step], Idle)
               \/ Persist([state EXCEPT !.failure = "recoverable"], Idle)
      BY DEF WriteAnswered
    <1>2. /\ h.nonce = state.nonce /\ h.hash \in Optional(Tx)
          /\ \A g \in helpers : g.live => h = g
          /\ h.step = "sent" => h.hash # None /\ h.hash.nonce = h.nonce
      BY <1>1 DEF RegistrationInv, RegistrationType, SignerType, Helper, WriterSound, WriterFits
    <1>3. ProcessOnly
      BY <1>0, <1>1, <1>2, ProcessFacts DEF ProcessOnly
    <1>4. CASE /\ h.step = "sent"
               /\ Persist([state EXCEPT !.hash = h.hash, !.phase = "Submitted",
                                        !.failure = "none"], Idle)
      <2> DEFINE s == [state EXCEPT !.hash = h.hash, !.phase = "Submitted", !.failure = "none"]
      <2>1. /\ s \in Snapshot /\ s.hash = h.hash /\ s.action = state.action /\ s.aid = state.aid
            /\ s.nonce = state.nonce /\ s.agent = state.agent
        BY <1>0, <1>2 DEF Snapshot, Phase, Failure
      <2>2. Persist(s, Idle)
        BY <1>4
      <2> HIDE DEF s
      <2>3. SnapshotFits(s)
        BY <1>0, <1>2, <1>4, <2>1 DEF SnapshotFits
      <2>4. ClaimFits(s, mint_allocation, helpers, chain, firm)
        BY <2>1, ProcessFacts DEF ClaimFits
      <2> QED
        BY <1>3, <2>1, <2>2, <2>3, <2>4, PersistStep, IdleFits
    <1>5. ASSUME NEW k \in Failure, Persist([state EXCEPT !.failure = k], Idle)
          PROVE  RegistrationInv'
      BY <1>0, <1>3, <1>5, RetoldSnapshots, RetoldStep, IdleFits
    <1>6. {"recoverable", "permanent"} \subseteq Failure
      BY DEF Failure
    <1> QED
      BY <1>1, <1>4, <1>5, <1>6

\* A confirmed block has the submitted transaction at its nonce: it minted, it
\* published, or its nonce is spent.
LEMMA ReceiptKeeps ==
    ASSUME RegistrationInv, Receipt
    PROVE  RegistrationInv'
    <1>0. /\ job \in Job /\ job.at = "receipt" /\ state \in Snapshot /\ SnapshotFits(state)
          /\ state.hash # None
          /\ UNCHANGED <<audited, audits, signer, ledger>>
      BY ProcessFacts DEF Receipt, JobFits
    <1>1. ProcessOnly
      BY <1>0, Apart, ProcessFacts DEF signer
    <1>2. CASE Persist([state EXCEPT !.failure = "recoverable"], Idle)
      <2>1. "recoverable" \in Failure
        BY DEF Failure
      <2> QED
        BY <1>0, <1>1, <1>2, <2>1, RetoldSnapshots, RetoldStep, IdleFits
    <1>3. CASE Continue([job EXCEPT !.at = "recover"])
      <2> DEFINE next == [job EXCEPT !.at = "recover"]
      <2>1. next \in Job /\ next.at = "recover"
        BY <1>0 DEF Job
      <2> HIDE DEF next
      <2>2. JobFits(next, state, disk, chain, firm)
        BY <1>0, <2>1 DEF JobFits
      <2> QED
        BY <1>1, <1>3, <2>1, <2>2, ContinueStep DEF next
    <1>4. CASE GiveUp
      BY <1>1, <1>4, GiveUpStep
    <1>5. ASSUME NEW i \in 1..Latest, chain[i].tx = state.hash, i <= firm,
                 Persist(Confirmed(chain[i], i), Idle)
          PROVE  RegistrationInv'
      <2> DEFINE r == Retire(state)
                 s == Confirmed(chain[i], i)
      <2>0. /\ r \in Snapshot /\ r.agent = state.agent
            /\ r.action = None /\ r.aid = None /\ r.nonce = None /\ r.hash = None
        BY <1>0, RetiredSnapshots
      <2>1. CASE ~chain[i].ok
        <3>1. s = Failed(r, "recoverable")
          BY <2>1 DEF Confirmed
        <3>2. s \in Snapshot /\ SameAction(s, r)
          BY <2>0, <3>1, RetoldSnapshots
        <3>3. /\ s.agent = state.agent
              /\ s.action = None /\ s.aid = None /\ s.nonce = None /\ s.hash = None
          BY <2>0, <3>2 DEF SameAction
        <3> HIDE DEF s
        <3>4. SnapshotFits(s)
          BY <3>3, NoneAssumption DEF SnapshotFits
        <3>5. state.nonce = i - 1 /\ i \in Nat /\ firm \in Nat
          <4>1. chain[i].tx.nonce = i - 1
            BY DEF RegistrationInv, ChainSound, ChainFits, Latest
          <4> QED
            BY <1>0, <1>5, <4>1, ProcessFacts DEF SnapshotFits
        <3>6. Spent(chain, state.nonce, firm)
          BY <1>5, <2>1, <3>5 DEF Spent, MintedAt
        <3>7. ClaimFits(s, mint_allocation, helpers, chain, firm)
          BY <3>3, <3>6, SpentFits
        <3> QED
          BY <1>1, <1>5, <3>2, <3>4, <3>7, PersistStep, IdleFits DEF s
      <2>2. CASE chain[i].ok /\ state.action = Register
        <3> DEFINE a == NewAgent + i
                   q == [r EXCEPT !.agent = a, !.ignored = {}, !.mint = None,
                                  !.phase = "ConfirmedIdentity", !.failure = "none"]
        <3>1. a \in Nat /\ a # None
          BY ProcessFacts, RegistrationAssumption, NoneAssumption
        <3>2. s = q
          BY <2>2, Zenon DEF Confirmed
        <3> HIDE DEF r, a
        <3>3. q \in Snapshot /\ Settled(q)
          BY <2>0, <3>1 DEF Snapshot, Settled, Optional, Phase, Failure
        <3> QED
          BY <1>1, <1>5, <3>2, <3>3, SettledStep, IdleFits
      <2>3. CASE chain[i].ok /\ state.action # Register
        <3> DEFINE p == CASE state.action.field = "uri" -> "PublishingProfile"
                          [] state.action.field = "allegiance" -> "DeclaringAllegiance"
                          [] OTHER -> "ConfirmedIdentity"
                   q == [r EXCEPT !.failure = "none", !.phase = p]
        <3>1. state.agent # None
          BY <1>0, <2>3 DEF Snapshot, SnapshotFits
        <3>2. p \in Phase /\ "none" \in Failure
          BY DEF Phase, Failure
        <3>3. s = q
          BY <2>3, Zenon DEF Confirmed
        <3> HIDE DEF r, p
        <3>4. q \in Snapshot /\ SameAction(q, r)
          BY <2>0, <3>2, RetoldSnapshots
        <3>5. Settled(q)
          BY <2>0, <3>1, <3>4 DEF SameAction, Settled
        <3> QED
          BY <1>1, <1>5, <3>3, <3>4, <3>5, SettledStep, IdleFits
      <2> QED
        BY <2>1, <2>2, <2>3
    <1>6. \/ Persist([state EXCEPT !.failure = "recoverable"], Idle)
          \/ Continue([job EXCEPT !.at = "recover"])
          \/ GiveUp
          \/ \E head \in firm..Latest : \E i \in {k \in 1..head : chain[k].tx = state.hash} :
                 i <= firm /\ Persist(Confirmed(chain[i], i), Idle)
      BY DEF Receipt
    <1>7. \A head \in firm..Latest : 1..head \subseteq 1..Latest
      BY ProcessFacts
    <1> QED
      BY <1>2, <1>3, <1>4, <1>5, <1>6, <1>7

\* A submission is tried again with its action and its nonce.
LEMMA ResubmitFits ==
    ASSUME NEW s \in Snapshot, s.action # None, job \in Job
    PROVE  /\ Resubmit(s) \in Job /\ Resubmit(s).at # "write"
           /\ JobFits(Resubmit(s), s, s, chain, firm)
    <1>1. s.action = Register \/ s.action \in FollowUp
      BY DEF Snapshot
    <1>2. CASE s.action = Register
      <2> DEFINE next == [job EXCEPT !.at = "register_nonce", !.observed = None]
      <2>1. next \in Job /\ next.at = "register_nonce" /\ next.observed = None
        BY DEF Job, Optional
      <2>2. Resubmit(s) = next
        BY <1>2 DEF Resubmit
      <2> HIDE DEF next
      <2> QED
        BY <1>2, <2>1, <2>2 DEF JobFits
    <1>3. CASE s.action # Register
      <2> DEFINE next == [job EXCEPT !.at = "follow_up_nonce"]
      <2>1. next \in Job /\ next.at = "follow_up_nonce"
        BY DEF Job
      <2>2. Resubmit(s) = next
        BY <1>3 DEF Resubmit
      <2> HIDE DEF next
      <2> QED
        BY <1>1, <1>3, <2>1, <2>2 DEF JobFits
    <1> QED
      BY <1>2, <1>3

\* A snapshot that forgets its transaction only.
LEMMA UnsentFits ==
    ASSUME RegistrationInv, NEW p \in Phase, NEW k \in Failure
    PROVE  LET s == [state EXCEPT !.hash = None, !.phase = p, !.failure = k]
           IN /\ s \in Snapshot /\ s.action = state.action
              /\ SnapshotFits(s) /\ ClaimFits(s, mint_allocation, helpers, chain, firm)
    <1> DEFINE s == [state EXCEPT !.hash = None, !.phase = p, !.failure = k]
    <1>1. /\ s \in Snapshot /\ s.hash = None /\ s.action = state.action /\ s.aid = state.aid
          /\ s.nonce = state.nonce /\ s.agent = state.agent
      BY ProcessFacts DEF Snapshot, Optional
    <1> HIDE DEF s
    <1>2. SnapshotFits(s) /\ ClaimFits(s, mint_allocation, helpers, chain, firm)
      BY <1>1, ProcessFacts DEF SnapshotFits, ClaimFits
    <1> QED
      BY <1>1, <1>2 DEF s

\* A registration whose nonce was used keeps its action until discovery explains it.
LEMMA RecoverKeeps ==
    ASSUME RegistrationInv, Recover
    PROVE  RegistrationInv'
    <1>0. /\ job \in Job /\ job.at = "recover" /\ state \in Snapshot /\ SnapshotFits(state)
          /\ state.hash # None /\ state.action # None
          /\ UNCHANGED <<audited, audits, signer, ledger>>
      BY ProcessFacts DEF Recover, JobFits, SnapshotFits
    <1>1. ProcessOnly
      BY <1>0, Apart, ProcessFacts DEF signer
    <1>2. CASE Persist(GatewayFailure(state), Idle) \/ Persist(Failed(state, "recoverable"), Idle)
               \/ GiveUp
      BY <1>0, <1>1, <1>2, RetoldSnapshots, RetoldStep, GiveUpStep, IdleFits
    <1>3. CASE Persist(Consumed(state), Idle)
      <2>1. CASE state.action = Register
        <3>1. Consumed(state) =
                [state EXCEPT !.hash = None, !.phase = "Discovering", !.failure = "recoverable"]
          BY <2>1 DEF Consumed
        <3>2. "Discovering" \in Phase /\ "recoverable" \in Failure
          BY DEF Phase, Failure
        <3> QED
          BY <1>1, <1>3, <3>1, <3>2, UnsentFits, PersistStep, IdleFits
      <2>2. CASE state.action # Register
        <3>1. Consumed(state) = RetireConsumed(state) /\ state.action \in FollowUp
          BY <1>0, <2>2 DEF Consumed, Snapshot
        <3> QED
          BY <1>0, <1>1, <1>3, <3>1, ConsumedSettled, SettledStep, IdleFits
      <2> QED
        BY <2>1, <2>2
    <1>4. CASE Persist([state EXCEPT !.hash = None, !.phase = "Preparing",
                                     !.failure = "recoverable"], Resubmit(state))
      <2> DEFINE s == [state EXCEPT !.hash = None, !.phase = "Preparing", !.failure = "recoverable"]
      <2>1. "Preparing" \in Phase /\ "recoverable" \in Failure
        BY DEF Phase, Failure
      <2>2. /\ s \in Snapshot /\ s.action = state.action
            /\ SnapshotFits(s) /\ ClaimFits(s, mint_allocation, helpers, chain, firm)
        BY <2>1, UnsentFits
      <2>3. Persist(s, Resubmit(state))
        BY <1>4
      <2> HIDE DEF s
      <2>4. Resubmit(s) = Resubmit(state)
        BY <2>2 DEF Resubmit
      <2> QED
        BY <1>0, <1>1, <2>2, <2>3, <2>4, ResubmitFits, PersistStep
    <1> QED
      BY <1>2, <1>3, <1>4 DEF Recover

-----------------------------------------------------------------------------
(* reconcile_agent, adopt and the operator's commands. *)

\* The next field is written, or the registration ends.
LEMMA PublishStep ==
    ASSUME RegistrationInv, ProcessOnly, job.at = "reconcile", job.agent # None,
           NEW s \in Snapshot, SameAction(s, state) \/ Settled(s), s.agent # None,
           NEW seen \in Values, Publish(s, seen)
    PROVE  RegistrationInv'
    <1>0. job \in Job /\ SnapshotFits(state)
      BY ProcessFacts
    <1>1. SnapshotFits(s) /\ ClaimFits(s, mint_allocation, helpers, chain, firm)
      BY SameActionFits, SettledFits, ProcessFacts
    <1>2. CASE Missing(s, seen) # {} /\ Persist(s, [job EXCEPT !.at = "remaining_funding", !.seen = seen])
      <2> DEFINE next == [job EXCEPT !.at = "remaining_funding", !.seen = seen]
      <2>1. next \in Job /\ next.at = "remaining_funding" /\ next.seen = seen /\ next.agent = job.agent
        BY <1>0 DEF Job, Optional
      <2>2. Persist(s, next)
        BY <1>2
      <2> HIDE DEF next
      <2>3. JobFits(next, s, s, chain, firm)
        BY <1>2, <2>1 DEF JobFits
      <2> QED
        BY <1>1, <2>1, <2>2, <2>3, PersistStep
    <1>3. CASE Persist([s EXCEPT !.failure = "none", !.phase = "Active"], Idle)
      <2> DEFINE q == [s EXCEPT !.failure = "none", !.phase = "Active"]
      <2>1. q \in Snapshot /\ SameAction(q, s)
        BY DEF Snapshot, SameAction, Phase, Failure
      <2>2. Persist(q, Idle)
        BY <1>3
      <2> HIDE DEF q
      <2>3. SnapshotFits(q) /\ ClaimFits(q, mint_allocation, helpers, chain, firm)
        BY <1>1, <2>1, SameActionFits
      <2> QED
        BY <2>1, <2>2, <2>3, PersistStep, IdleFits
    <1>4. CASE Persist(Suspend([s EXCEPT !.failure = "none"]), Idle)
      <2> DEFINE q == [s EXCEPT !.failure = "none"]
      <2>1. q \in Snapshot /\ SameAction(q, s)
        BY DEF Snapshot, SameAction, Failure
      <2>2. Persist(Suspend(q), Idle)
        BY <1>4
      <2> HIDE DEF q
      <2>3. SnapshotFits(q) /\ ClaimFits(q, mint_allocation, helpers, chain, firm)
        BY <1>1, <2>1, SameActionFits
      <2>4. /\ Suspend(q) \in Snapshot
            /\ SameAction(Suspend(q), q) \/ Settled(Suspend(q))
        BY <2>1, <2>3, SuspendedSnapshots
      <2>5. SnapshotFits(Suspend(q)) /\ ClaimFits(Suspend(q), mint_allocation, helpers, chain, firm)
        BY <2>3, <2>4, SameActionFits, SettledFits
      <2> QED
        BY <2>2, <2>4, <2>5, PersistStep, IdleFits
    <1> QED
      BY <1>2, <1>3, <1>4 DEF Publish

\* Follow-ups are settled against what the registry shows.
LEMMA ReconcileKeeps ==
    ASSUME RegistrationInv, Reconcile
    PROVE  RegistrationInv'
    <1> DEFINE seen == ValuesAt(job.agent, Latest)
               lost_follow_up == /\ state.phase = "Preparing" /\ state.hash = None
                                 /\ state.action \notin {None, Register}
               retired == [Retire(state) EXCEPT !.failure = "none", !.phase = "ConfirmedIdentity"]
    <1>0. /\ job \in Job /\ job.at = "reconcile" /\ state \in Snapshot /\ SnapshotFits(state)
          /\ state.agent # None /\ job.agent # None
          /\ UNCHANGED <<audited, audits, signer, ledger>>
      BY ProcessFacts DEF Reconcile, JobFits
    <1>1. ProcessOnly
      BY <1>0, Apart, ProcessFacts DEF signer
    <1>2. seen \in Values
      <2>1. LedgerType /\ Latest \in 0..Latest
        BY ProcessFacts
      <2> QED
        BY <2>1, ValuesType
    <1>3. CASE Persist(GatewayFailure(state), Idle) \/ GiveUp
      BY <1>0, <1>1, <1>3, RetoldSnapshots, RetoldStep, GiveUpStep, IdleFits
    <1>4. CASE Persist(Suspend(state), Idle)
      BY <1>0, <1>1, <1>4, SuspendedSnapshots, RetoldStep, SettledStep, IdleFits
    <1>5. CASE Publish(retired, seen)
      <2>1. retired \in Snapshot /\ SameAction(retired, Retire(state))
        BY <1>0, RetiredSnapshots, RetoldSnapshots DEF Phase, Failure
      <2>2. Settled(retired)
        BY <1>0, <2>1, RetiredSnapshots DEF SameAction, Settled
      <2> HIDE DEF retired, seen
      <2> QED
        BY <1>0, <1>1, <1>2, <1>5, <2>1, <2>2, PublishStep DEF Settled
    <1>6. CASE lost_follow_up /\ Continue([job EXCEPT !.at = "follow_up_nonce"])
      <2> DEFINE next == [job EXCEPT !.at = "follow_up_nonce"]
      <2>1. next \in Job /\ next.at = "follow_up_nonce"
        BY <1>0 DEF Job
      <2>2. state.action \in FollowUp
        BY <1>0, <1>6 DEF Snapshot
      <2> HIDE DEF next
      <2>3. JobFits(next, state, disk, chain, firm)
        BY <2>1, <2>2 DEF JobFits
      <2> QED
        BY <1>1, <1>6, <2>1, <2>3, ContinueStep DEF next
    <1>7. CASE Publish(state, seen)
      BY <1>0, <1>1, <1>2, <1>7, PublishStep, ProcessFacts
    <1>8. CASE Missing(state, seen) # {} /\ Continue([job EXCEPT !.at = "remaining_funding", !.seen = seen])
      <2> HIDE DEF seen
      <2> DEFINE next == [job EXCEPT !.at = "remaining_funding", !.seen = seen]
      <2>1. next \in Job /\ next.at = "remaining_funding" /\ next.seen = seen /\ next.agent = job.agent
        BY <1>0, <1>2 DEF Job, Optional
      <2>2. Continue(next)
        BY <1>8
      <2> HIDE DEF next
      <2>3. JobFits(next, state, disk, chain, firm)
        BY <1>0, <1>2, <1>8, <2>1 DEF JobFits
      <2> QED
        BY <1>1, <2>1, <2>2, <2>3, ContinueStep
    <1>9. \/ Persist(GatewayFailure(state), Idle)
          \/ GiveUp
          \/ Persist(Suspend(state), Idle)
          \/ Publish(retired, seen)
          \/ lost_follow_up /\ Continue([job EXCEPT !.at = "follow_up_nonce"])
          \/ Publish(state, seen)
          \/ Missing(state, seen) # {} /\ Continue([job EXCEPT !.at = "remaining_funding", !.seen = seen])
      BY DEF Reconcile
    <1> QED
      BY <1>3, <1>4, <1>5, <1>6, <1>7, <1>8, <1>9

\* The field to write is one of the published ones.
LEMMA MissingField ==
    ASSUME NEW s, NEW seen, Missing(s, seen) # {}
    PROVE  Fields[Least(Missing(s, seen))] \in Field
    <1>1. Fields \in Seq({AllFields[i] : i \in DOMAIN AllFields})
      BY RegistrationAssumption
    <1>2. DOMAIN Fields \subseteq Nat
      BY <1>1
    <1>3. Missing(s, seen) \subseteq DOMAIN Fields
      BY DEF Missing
    <1>4. Least(Missing(s, seen)) \in Missing(s, seen)
      BY <1>2, <1>3, LeastType
    <1> QED
      BY <1>3, <1>4 DEF Field

\* The next field is prepared for the identity it is about.
LEMMA RemainingFundingKeeps ==
    ASSUME RegistrationInv, RemainingFunding
    PROVE  RegistrationInv'
    <1> DEFINE f == Fields[Least(Missing(state, job.seen))]
               p == CASE f = "uri" -> "PublishingProfile"
                      [] f = "allegiance" /\ state.desired -> "DeclaringAllegiance"
                      [] OTHER -> state.phase
               s == [state EXCEPT !.phase = p]
               v == IF f = "uri" THEN 0 ELSE Wanted(state, f, job.seen[f])
               next == [job EXCEPT !.at = "follow_up_nonce"]
    <1>0. /\ job \in Job /\ job.at = "remaining_funding" /\ state \in Snapshot
          /\ state.agent # None /\ job.seen \in Values /\ Missing(state, job.seen) # {}
          /\ UNCHANGED <<audited, audits, helpers, allocated, mint_allocation, ledger>>
      BY ProcessFacts DEF RemainingFunding, JobFits
    <1>1. actions' = actions => ProcessOnly
      BY <1>0, Apart, ProcessFacts
    <1>2. CASE actions' = actions /\ Persist(Failed(state, "recoverable"), Idle)
      BY <1>0, <1>1, <1>2, RetoldSnapshots, RetoldStep, IdleFits
    <1>3. CASE actions' = actions /\ Persist([state EXCEPT !.phase = "FundingRequired"], Idle)
      <2>1. "FundingRequired" \in Phase
        BY DEF Phase
      <2> QED
        BY <1>0, <1>1, <1>3, <2>1, RetoldSnapshots, RetoldStep, IdleFits
    <1>4. CASE PrepareAction(s, SetField(f, v), next)
      <2>1. f \in Field
        BY <1>0, MissingField
      <2> HIDE DEF f
      <2>2. v \in Nat
        BY <1>0, <2>1 DEF Wanted, Values, Snapshot
      <2>3. p \in Phase
        BY <1>0 DEF Snapshot, Phase
      <2>4. next \in Job /\ next.at = "follow_up_nonce"
        BY <1>0 DEF Job
      <2> HIDE DEF v, p, next
      <2>5. SetField(f, v) \in FollowUp
        BY <2>1, <2>2 DEF SetField, FollowUp
      <2>6. s \in Snapshot /\ SameAction(s, state)
        BY <1>0, <2>3, RetoldSnapshots
      <2>7. s.agent # None
        BY <1>0, <2>6 DEF SameAction
      <2> HIDE DEF s
      <2>8. ASSUME NEW q \in Snapshot, q.action = SetField(f, v) PROVE JobFits(next, q, q, chain, firm)
        BY <2>4, <2>5, <2>8 DEF JobFits
      <2> QED
        BY <1>0, <1>4, <2>4, <2>5, <2>6, <2>7, <2>8, PreparedStep
    <1>5. \/ actions' = actions /\ Persist(Failed(state, "recoverable"), Idle)
          \/ actions' = actions /\ Persist([state EXCEPT !.phase = "FundingRequired"], Idle)
          \/ PrepareAction(s, SetField(f, v), next)
      BY DEF RemainingFunding
    <1> QED
      BY <1>2, <1>3, <1>4, <1>5

\* The operator's candidate is bound.
LEMMA AdoptInspectedKeeps ==
    ASSUME RegistrationInv, AdoptInspected
    PROVE  RegistrationInv'
    <1>0. /\ job \in Job /\ job.at = "adopt" /\ state \in Snapshot
          /\ UNCHANGED <<audits, signer, ledger>>
      BY ProcessFacts DEF AdoptInspected
    <1>1. ProcessOnly
      <2>1. audited' \in BOOLEAN
        BY ProcessFacts DEF AdoptInspected
      <2> QED
        BY <1>0, <2>1, Apart, ProcessFacts DEF signer
    <1>2. CASE GiveUp
      BY <1>1, <1>2, GiveUpStep
    <1>3. ASSUME NEW c \in state.candidates, c.id = job.agent,
                 Persist(AdoptConfirmed(state, job.agent, job.agent), [job EXCEPT !.at = "reconcile"])
          PROVE  RegistrationInv'
      <2> DEFINE next == [job EXCEPT !.at = "reconcile"]
                 s == AdoptConfirmed(state, job.agent, job.agent)
      <2>1. job.agent \in Nat /\ job.agent # None
        BY <1>0, <1>3, NoneAssumption DEF Snapshot, Candidate
      <2>2. next \in Job /\ next.at = "reconcile" /\ next.agent = job.agent
        BY <1>0 DEF Job
      <2>3. s \in Snapshot /\ Settled(s)
        <3>1. job.agent \in Optional(Nat) /\ {} \in SUBSET Nat
          BY <2>1 DEF Optional
        <3> QED
          BY <1>0, <2>1, <3>1, AdoptedSnapshots
      <2>4. Persist(s, next)
        BY <1>3
      <2> HIDE DEF next, s
      <2>5. JobFits(next, s, s, chain, firm)
        BY <2>1, <2>2, <2>3 DEF JobFits, Settled
      <2> QED
        BY <1>1, <2>2, <2>3, <2>4, <2>5, SettledStep
    <1> QED
      BY <1>2, <1>3 DEF AdoptInspected

\* The operator changes what the identity should publish.
LEMMA ProfileCommandKeeps ==
    ASSUME RegistrationInv, RepublishProfile \/ \E declare \in BOOLEAN : SetAllegiance(declare)
    PROVE  RegistrationInv'
    <1>0. /\ state \in Snapshot /\ state.agent # None /\ job = Idle /\ job.at # "write"
          /\ UNCHANGED <<audited, audits, signer, ledger>>
      BY ProcessFacts, IdleFits DEF RepublishProfile, SetAllegiance, Commanded
    <1>1. ProcessOnly
      BY <1>0, Apart, ProcessFacts DEF signer
    <1>2. /\ Commands \in Job /\ Commands.at # "write"
          /\ \A s : s.agent # None => JobFits(Commands, s, s, chain, firm)
      BY DEF Commands, Idle, Job, Optional, JobFits
    <1>3. ASSUME NEW s \in Snapshot, SameAction(s, state), Persist(s, Commands)
          PROVE  RegistrationInv'
      <2>1. s.agent # None
        BY <1>0, <1>3 DEF SameAction
      <2> QED
        BY <1>1, <1>2, <1>3, <2>1, RetoldStep
    <1>4. ASSUME NEW declare \in BOOLEAN
          PROVE  /\ [state EXCEPT !.desired = declare] \in Snapshot
                 /\ SameAction([state EXCEPT !.desired = declare], state)
      BY <1>0 DEF Snapshot, SameAction
    <1>5. /\ [state EXCEPT !.revision = @ + 1] \in Snapshot
          /\ SameAction([state EXCEPT !.revision = @ + 1], state)
      BY <1>0 DEF Snapshot, SameAction
    <1>6. \/ Persist([state EXCEPT !.revision = @ + 1], Commands)
          \/ \E declare \in BOOLEAN : Persist([state EXCEPT !.desired = declare], Commands)
      BY DEF RepublishProfile, SetAllegiance
    <1> QED
      BY <1>3, <1>4, <1>5, <1>6

\* The commands that are one more pass.
LEMMA MaintainCommandKeeps ==
    ASSUME RegistrationInv, RecoverCommand \/ \E force \in BOOLEAN : RegisterCommand(force)
    PROVE  RegistrationInv'
    <1>1. job = Idle /\ job.at # "write" /\ UNCHANGED <<audits, signer, ledger>>
      BY IdleFits DEF RecoverCommand, RegisterCommand, Commanded
    <1>2. PICK exhaustive \in BOOLEAN, force \in BOOLEAN : MaintainFrom(state, exhaustive, force)
      BY DEF RecoverCommand, RegisterCommand
    <1> QED
      BY <1>1, <1>2, MaintainFromStep, ProcessFacts

\* A retry submits the same action at the same nonce.
LEMMA RetryKeeps ==
    ASSUME RegistrationInv, Retry
    PROVE  RegistrationInv'
    <1> DEFINE again == [state EXCEPT !.hash = None, !.phase = "Preparing", !.failure = "none"]
               p == IF state.agent # None THEN "ConfirmedIdentity" ELSE "Discovering"
               afresh == [state EXCEPT !.failure = "none", !.phase = p]
    <1>0. /\ job = Idle /\ job.at # "write" /\ UNCHANGED <<audits, signer, ledger>>
          /\ state \in Snapshot /\ job \in Job /\ audits \in 0..2
      BY IdleFits, ProcessFacts DEF Retry, Commanded
    <1>1. audited' = audited => ProcessOnly
      BY <1>0, Apart, ProcessFacts DEF signer
    <1>2. afresh \in Snapshot /\ SameAction(afresh, state)
      <2>1. p \in Phase /\ "none" \in Failure
        BY DEF Phase, Failure
      <2> HIDE DEF p
      <2> QED
        BY <1>0, <2>1, RetoldSnapshots
    <1>3. ASSUME NEW s \in {state, afresh}, NEW exhaustive \in BOOLEAN, MaintainFrom(s, exhaustive, FALSE)
          PROVE  RegistrationInv'
      <2>1. s \in Snapshot /\ SameAction(s, state)
        BY <1>2, ProcessFacts
      <2> QED
        BY <1>0, <1>3, <2>1, MaintainFromStep
    <1>4. CASE state.hash # None /\ Persist(again, Resubmit(again)) /\ UNCHANGED audited
      <2>1. "Preparing" \in Phase /\ "none" \in Failure
        BY DEF Phase, Failure
      <2>2. /\ again \in Snapshot /\ again.action = state.action
            /\ SnapshotFits(again) /\ ClaimFits(again, mint_allocation, helpers, chain, firm)
        BY <2>1, UnsentFits
      <2>3. again.action # None
        BY <1>4, <2>2, ProcessFacts DEF SnapshotFits
      <2> HIDE DEF again
      <2> QED
        BY <1>0, <1>1, <1>4, <2>2, <2>3, ResubmitFits, PersistStep
    <1>5. CASE /\ state.action \notin {None, Register} /\ Continue(Resubmit(state)) /\ UNCHANGED audited
      <2>1. Resubmit(state) = [job EXCEPT !.at = "follow_up_nonce"] /\ state.action \in FollowUp
        BY <1>0, <1>5 DEF Resubmit, Snapshot
      <2> DEFINE next == [job EXCEPT !.at = "follow_up_nonce"]
      <2>2. next \in Job /\ next.at = "follow_up_nonce"
        BY <1>0 DEF Job
      <2>3. Continue(next)
        BY <1>5, <2>1
      <2> HIDE DEF next
      <2>4. JobFits(next, state, disk, chain, firm)
        BY <2>1, <2>2 DEF JobFits
      <2> QED
        BY <1>1, <1>5, <2>2, <2>3, <2>4, ContinueStep
    <1>6. CASE Persist(afresh, Idle) /\ UNCHANGED audited
      <2> HIDE DEF afresh
      <2> QED
        BY <1>1, <1>2, <1>6, RetoldStep, IdleFits
    <1>7. audited \in BOOLEAN /\ (~audited) \in BOOLEAN
      BY ProcessFacts
    <1>8. \/ \E s \in {state, afresh}, exhaustive \in BOOLEAN : MaintainFrom(s, exhaustive, FALSE)
          \/ state.hash # None /\ Persist(again, Resubmit(again)) /\ UNCHANGED audited
          \/ state.action \notin {None, Register} /\ Continue(Resubmit(state)) /\ UNCHANGED audited
          \/ Persist(afresh, Idle) /\ UNCHANGED audited
      BY <1>7 DEF Retry
    <1> QED
      BY <1>3, <1>4, <1>5, <1>6, <1>8

\* The operator adopts only while no action is open.
LEMMA AdoptKeeps ==
    ASSUME RegistrationInv, NEW a \in AgentsAt(Latest), Adopt(a)
    PROVE  RegistrationInv'
    <1> DEFINE next == [Idle EXCEPT !.at = "adopt", !.agent = a]
    <1>0. /\ job = Idle /\ job.at # "write" /\ UNCHANGED <<audited, audits, signer, ledger>>
      BY IdleFits DEF Adopt, Commanded
    <1>1. ProcessOnly
      BY <1>0, Apart, ProcessFacts DEF signer
    <1>2. a \in Nat
      <2>1. LedgerType /\ Latest \in 0..Latest
        BY ProcessFacts
      <2> QED
        BY <2>1, AgentsType
    <1>3. next \in Job /\ next.at = "adopt"
      BY <1>2 DEF Idle, Job, Optional
    <1>4. Continue(next)
      BY DEF Adopt
    <1> HIDE DEF next
    <1>5. JobFits(next, state, disk, chain, firm)
      BY <1>3 DEF JobFits
    <1> QED
      BY <1>1, <1>3, <1>4, <1>5, ContinueStep

\* A crash goes back to the snapshot on disk; nobody waits for the signer any more.
LEMMA CrashKeeps ==
    ASSUME RegistrationInv, Crash
    PROVE  RegistrationInv'
    <1>0. /\ state' = disk /\ disk' = disk /\ job' = Idle /\ audited' = FALSE /\ audits' = 2
          /\ UNCHANGED <<allocated, mint_allocation, actions, ledger>>
      BY DEF Crash
    <1>1. /\ disk \in Snapshot /\ SnapshotFits(disk)
          /\ ClaimFits(disk, mint_allocation, helpers, chain, firm) /\ actions \in Nat
      BY ProcessFacts DEF RegistrationInv, SnapshotsSound
    <1>2. audited' \in BOOLEAN /\ audits' \in 0..2 /\ actions' \in Nat
      <2>1. audits' \in 0..2 /\ actions' \in Nat
        BY <1>0, <1>1
      <2> QED
        BY <1>0, <2>1
    <1>3. CASE helpers' = {h \in helpers : ~h.live}
      <2>1. ProcessOnly
        BY <1>0, <1>1, <1>3, <1>2 DEF ProcessOnly
      <2> QED
        BY <1>0, <1>1, <2>1, IdleFits, ProcessStep
    <1>4. CASE helpers' = {[h EXCEPT !.live = FALSE] :
                             h \in {x \in helpers : x.step \in {"authorize", "allocate", "send"}}}
      <2>1. helpers \in SUBSET Helper
        BY DEF RegistrationInv, RegistrationType, SignerType
      <2>2. ASSUME NEW g \in helpers'
            PROVE  /\ g \in Helper /\ ~g.live
                   /\ \E h \in helpers : /\ h.aid = g.aid /\ h.nonce = g.nonce /\ h.kind = g.kind
                                         /\ h.step = g.step /\ h.hash = g.hash
                                         /\ h.field = g.field /\ h.value = g.value
                                         /\ h.agent = g.agent /\ h.proof = g.proof
        <3>1. PICK h \in helpers : g = [h EXCEPT !.live = FALSE]
          BY <1>4, <2>2
        <3>2. h \in Helper
          BY <2>1
        <3> QED
          BY <3>1, <3>2 DEF Helper
      <2>3. /\ allocated' = allocated /\ mint_allocation' = mint_allocation /\ actions' = actions
            /\ agents' = agents /\ chain' = chain /\ firm' = firm /\ final' = final
            /\ height' = height /\ mempool' = mempool /\ sent' = sent
        BY <1>0 DEF ledger
      <2>4. RegistrationType'
        BY <1>0, <1>1, <1>2, <2>2, <2>3, IdleFits
           DEF RegistrationInv, RegistrationType, ProcessType, SignerType, LedgerType
      <2>5. ChainFits(chain', mempool', firm', final')
        BY <2>3 DEF RegistrationInv, ChainSound
      <2>6. NoncesFit(allocated', Sent(chain', mempool'), helpers')
        BY <2>2, <2>3 DEF RegistrationInv, NonceGivenOnce, NoncesFit, Allocation, Payload
      <2>7. MintFits(mint_allocation', Sent(chain', mempool'), helpers')
        BY <2>2, <2>3 DEF RegistrationInv, MintBound, MintFits
      <2>8. WriterFits(helpers', job', state')
        BY <2>2 DEF RegistrationInv, WriterSound, WriterFits
      <2>9. JobFits(job', state', disk', chain', firm')
        BY <1>0, IdleFits
      <2>10. /\ ClaimFits(state', mint_allocation', helpers', chain', firm')
             /\ ClaimFits(disk', mint_allocation', helpers', chain', firm')
        BY <1>0, <1>1, <2>2, <2>3 DEF ClaimFits
      <2> QED
        BY <1>0, <1>1, <2>4, <2>5, <2>6, <2>7, <2>8, <2>9, <2>10, InvPrimed
    <1> QED
      BY <1>3, <1>4 DEF Crash

-----------------------------------------------------------------------------
(* The signers. *)

\* g does the work of h.
SameWork(g, h) ==
    /\ g \in Helper
    /\ g.aid = h.aid /\ g.nonce = h.nonce /\ g.kind = h.kind /\ g.live = h.live
    /\ Payload(g) = Payload(h)

\* h goes on as g, or has nobody to answer.
GoesOn(h, g) ==
    /\ SameWork(g, h)
    /\ g.step # "authorize"
    /\ g.step = "sent" => g.hash # None /\ g.hash.nonce = g.nonce
    /\ helpers' \subseteq (helpers \ {h}) \cup {g}

\* What one signer's step leaves alone.
LEMMA WriterGoesOn ==
    ASSUME RegistrationInv, NEW h \in helpers, NEW g, GoesOn(h, g),
           UNCHANGED <<process, ledger>>
    PROVE  /\ helpers' \in SUBSET Helper
           /\ ProcessType'
           /\ SnapshotFits(state') /\ SnapshotFits(disk')
           /\ WriterFits(helpers', job', state')
    <1>1. /\ state' = state /\ disk' = disk /\ job' = job /\ audited' = audited /\ audits' = audits
      BY DEF process
    <1>2. helpers' \in SUBSET Helper
      BY DEF RegistrationInv, RegistrationType, SignerType, GoesOn, SameWork
    <1>3. ProcessType'
      BY <1>1 DEF RegistrationInv, RegistrationType, ProcessType
    <1>4. SnapshotFits(state') /\ SnapshotFits(disk')
      BY <1>1 DEF RegistrationInv, SnapshotsSound
    <1>5. WriterFits(helpers', job', state')
      BY <1>1 DEF RegistrationInv, WriterSound, WriterFits, GoesOn, SameWork
    <1> QED
      BY <1>2, <1>3, <1>4, <1>5

Stepped(h, step) == [h EXCEPT !.step = step]
Answered(h, step, hash) == [h EXCEPT !.step = step, !.hash = hash]

\* A signer in its next step does the same work.
LEMMA SteppedHelper ==
    ASSUME NEW h \in Helper,
           NEW step \in {"authorize", "allocate", "send", "sent", "recoverable", "permanent"}
    PROVE  SameWork(Stepped(h, step), h) /\ Stepped(h, step).step = step
    <1> DEFINE g == [h EXCEPT !.step = step]
    <1>1. g \in Helper
      BY DEF Helper
    <1>2. /\ g.step = step /\ g.aid = h.aid /\ g.nonce = h.nonce /\ g.kind = h.kind
          /\ g.live = h.live /\ g.field = h.field /\ g.value = h.value /\ g.agent = h.agent
          /\ g.proof = h.proof
      BY DEF Helper
    <1> HIDE DEF g
    <1>3. SameWork(g, h)
      BY <1>1, <1>2, Zenon DEF SameWork, Payload
    <1> QED
      BY <1>2, <1>3, Zenon DEF g, Stepped

\* A signer with its answer did the same work.
LEMMA AnsweredHelper ==
    ASSUME NEW h \in Helper,
           NEW step \in {"authorize", "allocate", "send", "sent", "recoverable", "permanent"},
           NEW hash \in Optional(Tx)
    PROVE  /\ SameWork(Answered(h, step, hash), h)
           /\ Answered(h, step, hash).step = step /\ Answered(h, step, hash).hash = hash
    <1> DEFINE g == [h EXCEPT !.step = step, !.hash = hash]
    <1>1. g \in Helper
      BY DEF Helper
    <1>2. /\ g.step = step /\ g.hash = hash /\ g.aid = h.aid /\ g.nonce = h.nonce
          /\ g.kind = h.kind /\ g.live = h.live /\ g.field = h.field /\ g.value = h.value
          /\ g.agent = h.agent /\ g.proof = h.proof
      BY DEF Helper
    <1> HIDE DEF g
    <1>3. SameWork(g, h)
      BY <1>1, <1>2, Zenon DEF SameWork, Payload
    <1> QED
      BY <1>2, <1>3, Zenon DEF g, Answered

\* A signer that refuses leaves nothing behind.
LEMMA RefusedStep ==
    ASSUME RegistrationInv, NEW h \in helpers, NEW step \in {"recoverable", "permanent"},
           Settle(h, step, None),
           UNCHANGED <<process, ledger, allocated, mint_allocation, actions>>
    PROVE  RegistrationInv'
    <1> DEFINE g == Answered(h, step, None)
    <1>1. h \in Helper /\ None \in Optional(Tx)
      BY DEF RegistrationInv, RegistrationType, SignerType, Optional
    <1>2. GoesOn(h, g) /\ g.step \in {"recoverable", "permanent"}
      <2>1. helpers' \subseteq (helpers \ {h}) \cup {g}
        BY DEF Settle, Answered
      <2> HIDE DEF g
      <2>3. step \in {"authorize", "allocate", "send", "sent", "recoverable", "permanent"}
        OBVIOUS
      <2>4. SameWork(g, h) /\ g.step = step
        BY <1>1, <2>3, AnsweredHelper DEF g
      <2> QED
        BY <2>1, <2>4 DEF GoesOn
    <1> HIDE DEF g
    <1>3. /\ allocated' = allocated /\ mint_allocation' = mint_allocation /\ actions' = actions
          /\ agents' = agents /\ chain' = chain /\ firm' = firm /\ final' = final
          /\ height' = height /\ mempool' = mempool /\ sent' = sent
          /\ state' = state /\ disk' = disk /\ job' = job
      BY DEF ledger, process
    <1>4. /\ helpers' \in SUBSET Helper /\ ProcessType'
          /\ SnapshotFits(state') /\ SnapshotFits(disk') /\ WriterFits(helpers', job', state')
      BY <1>2, WriterGoesOn
    <1>5. RegistrationType'
      BY <1>3, <1>4 DEF RegistrationInv, RegistrationType, SignerType, LedgerType
    <1>6. ChainFits(chain', mempool', firm', final')
      BY <1>3 DEF RegistrationInv, ChainSound
    <1>7. NoncesFit(allocated', Sent(chain', mempool'), helpers')
      BY <1>2, <1>3 DEF RegistrationInv, NonceGivenOnce, NoncesFit, GoesOn, SameWork
    <1>8. MintFits(mint_allocation', Sent(chain', mempool'), helpers')
      BY <1>2, <1>3 DEF RegistrationInv, MintBound, MintFits, GoesOn, SameWork
    <1>9. JobFits(job', state', disk', chain', firm')
      BY <1>3 DEF RegistrationInv, JobSound
    <1>10. /\ ClaimFits(state', mint_allocation', helpers', chain', firm')
           /\ ClaimFits(disk', mint_allocation', helpers', chain', firm')
      BY <1>2, <1>3 DEF RegistrationInv, Claims, ClaimFits, GoesOn, SameWork
    <1> QED
      BY <1>4, <1>5, <1>6, <1>7, <1>8, <1>9, <1>10, InvPrimed

\* The only registration of the installation goes to an action that the snapshots
\* claim: its nonce is the newest, so it cannot be spent.
LEMMA AuthorizeKeeps ==
    ASSUME RegistrationInv, NEW h \in helpers, Authorize(h)
    PROVE  RegistrationInv'
    <1> DEFINE mint == [aid |-> h.aid, nonce |-> h.nonce]
               g == Stepped(h, "allocate")
    <1>0. /\ h \in Helper /\ h.step = "authorize" /\ h.kind = "Register"
          /\ UNCHANGED <<process, allocated, actions, ledger>>
      BY DEF RegistrationInv, RegistrationType, SignerType, WriterSound, WriterFits, Authorize
    <1>2. CASE /\ mint_allocation' = mint_allocation
               /\ Settle(h, "permanent", None) \/ Settle(h, "recoverable", None)
      BY <1>0, <1>2, RefusedStep
    <1>3. CASE /\ MintFree(h) /\ mint_allocation' = mint /\ Advance(h, "allocate")
               /\ mint_allocation = mint \/ (Pending = Latest /\ h.nonce = Pending)
      <2>1. mint \in Allocated /\ mint # None /\ mint.aid = h.aid /\ mint.nonce = h.nonce
        BY <1>0, NoneAssumption DEF Helper, Allocated
      <2>2. GoesOn(h, g) /\ g.step = "allocate"
        <3>1. helpers' \subseteq (helpers \ {h}) \cup {g}
          BY <1>3 DEF Advance, Stepped
        <3> HIDE DEF g
        <3>2. SameWork(g, h) /\ g.step = "allocate"
          BY <1>0, SteppedHelper DEF g
        <3> QED
          BY <3>1, <3>2, Zenon DEF GoesOn
      <2>3. mint_allocation = mint \/ (mint_allocation = None /\ h.nonce = Latest)
        BY <1>3 DEF MintFree
      <2> HIDE DEF g, mint
      <2>4. /\ allocated' = allocated /\ mint_allocation' = mint /\ actions' = actions
            /\ agents' = agents /\ chain' = chain /\ firm' = firm /\ final' = final
            /\ height' = height /\ mempool' = mempool /\ sent' = sent
            /\ state' = state /\ disk' = disk /\ job' = job
        BY <1>0, <1>3 DEF ledger, process
      <2>5. /\ helpers' \in SUBSET Helper /\ ProcessType'
            /\ SnapshotFits(state') /\ SnapshotFits(disk') /\ WriterFits(helpers', job', state')
        BY <1>0, <2>2, WriterGoesOn
      <2>6. RegistrationType'
        BY <2>1, <2>4, <2>5 DEF RegistrationInv, RegistrationType, SignerType, LedgerType, Optional
      <2>7. ChainFits(chain', mempool', firm', final')
        BY <2>4 DEF RegistrationInv, ChainSound
      <2>8. NoncesFit(allocated', Sent(chain', mempool'), helpers')
        BY <2>2, <2>4 DEF RegistrationInv, NonceGivenOnce, NoncesFit, GoesOn, SameWork
      <2>9. MintFits(mint_allocation', Sent(chain', mempool'), helpers')
        <3>1. MintFits(mint, Sent(chain, mempool), helpers)
          BY <2>1, <2>3 DEF RegistrationInv, MintBound, MintFits
        <3> QED
          BY <2>1, <2>2, <2>4, <3>1 DEF MintFits, GoesOn, SameWork, mint
      <2>10. JobFits(job', state', disk', chain', firm')
        BY <2>4 DEF RegistrationInv, JobSound
      <2>11. ASSUME NEW s, ClaimFits(s, mint_allocation, helpers, chain, firm)
             PROVE  ClaimFits(s, mint, helpers', chain, firm)
        <3>1. CASE mint_allocation = mint
          BY <2>2, <2>11, <3>1 DEF ClaimFits, GoesOn, SameWork
        <3>2. CASE mint_allocation = None /\ h.nonce = Latest
          <4>1. ~(h.nonce < firm)
            BY <3>2, ProcessFacts
          <4>2. s.agent = None => s.aid = h.aid /\ s.nonce = h.nonce
            BY <1>0, <2>11, <4>1 DEF ClaimFits
          <4> QED
            BY <2>1, <2>2, <2>11, <4>2 DEF ClaimFits, GoesOn, SameWork
        <3> QED
          BY <2>3, <3>1, <3>2
      <2>12. /\ ClaimFits(state', mint_allocation', helpers', chain', firm')
             /\ ClaimFits(disk', mint_allocation', helpers', chain', firm')
        BY <2>4, <2>11 DEF RegistrationInv, Claims
      <2> QED
        BY <2>5, <2>6, <2>7, <2>8, <2>9, <2>10, <2>12, InvPrimed
    <1>4. \/ /\ mint_allocation' = mint_allocation
             /\ Settle(h, "permanent", None) \/ Settle(h, "recoverable", None)
          \/ /\ MintFree(h) /\ mint_allocation' = mint /\ Advance(h, "allocate")
             /\ mint_allocation = mint \/ (Pending = Latest /\ h.nonce = Pending)
      BY DEF Authorize, BindMintAuthorizationUse
    <1> QED
      BY <1>2, <1>3, <1>4

\* A nonce is given to one payload, and stays given.
LEMMA AllocateKeeps ==
    ASSUME RegistrationInv, NEW h \in helpers, Allocate(h)
    PROVE  RegistrationInv'
    <1> DEFINE g == Stepped(h, "send")
    <1>0. /\ h \in Helper /\ h.step = "allocate" /\ None \in Optional(Tx)
          /\ UNCHANGED <<process, mint_allocation, actions, ledger>>
      BY DEF RegistrationInv, RegistrationType, SignerType, Allocate, Optional
    <1>1. CASE /\ allocated' = allocated
               /\ Settle(h, "permanent", None) \/ Settle(h, "recoverable", None)
      BY <1>0, <1>1, RefusedStep
    <1>2. CASE Permitted(h) /\ allocated' = allocated \cup {Allocation(h)} /\ Advance(h, "send")
      <2>1. GoesOn(h, g) /\ g.step = "send"
        <3>1. helpers' \subseteq (helpers \ {h}) \cup {g}
          BY <1>2 DEF Advance, Stepped
        <3> HIDE DEF g
        <3>2. SameWork(g, h) /\ g.step = "send"
          BY <1>0, SteppedHelper DEF g
        <3> QED
          BY <3>1, <3>2, Zenon DEF GoesOn
      <2> HIDE DEF g
      <2>2. Allocation(g) = Allocation(h)
        BY <2>1 DEF GoesOn, SameWork, Allocation
      <2>3. /\ mint_allocation' = mint_allocation /\ actions' = actions
            /\ agents' = agents /\ chain' = chain /\ firm' = firm /\ final' = final
            /\ height' = height /\ mempool' = mempool /\ sent' = sent
            /\ state' = state /\ disk' = disk /\ job' = job
        BY <1>0 DEF ledger, process
      <2>4. /\ helpers' \in SUBSET Helper /\ ProcessType'
            /\ SnapshotFits(state') /\ SnapshotFits(disk') /\ WriterFits(helpers', job', state')
        BY <1>0, <2>1, WriterGoesOn
      <2>5. RegistrationType'
        BY <2>3, <2>4 DEF RegistrationInv, RegistrationType, SignerType, LedgerType
      <2>6. ChainFits(chain', mempool', firm', final')
        BY <2>3 DEF RegistrationInv, ChainSound
      <2>7. NoncesFit(allocated', Sent(chain', mempool'), helpers')
        <3>1. Allocation(h) \in allocated \/ \A x \in allocated : x.nonce # Allocation(h).nonce
          BY <1>2 DEF Permitted, Taken, Allocation
        <3>2. \A x, y \in allocated' : x.nonce = y.nonce => x = y
          BY <1>2, <3>1 DEF RegistrationInv, NonceGivenOnce, NoncesFit
        <3>3. \A x \in helpers' : x.step = "send" => Allocation(x) \in allocated'
          BY <1>2, <2>1, <2>2 DEF RegistrationInv, NonceGivenOnce, NoncesFit, GoesOn, SameWork
        <3> QED
          BY <1>2, <2>3, <3>2, <3>3 DEF RegistrationInv, NonceGivenOnce, NoncesFit
      <2>8. MintFits(mint_allocation', Sent(chain', mempool'), helpers')
        BY <1>0, <2>1, <2>3 DEF RegistrationInv, MintBound, MintFits, GoesOn, SameWork
      <2>9. JobFits(job', state', disk', chain', firm')
        BY <2>3 DEF RegistrationInv, JobSound
      <2>10. /\ ClaimFits(state', mint_allocation', helpers', chain', firm')
             /\ ClaimFits(disk', mint_allocation', helpers', chain', firm')
        BY <2>1, <2>3 DEF RegistrationInv, Claims, ClaimFits, GoesOn, SameWork
      <2> QED
        BY <2>4, <2>5, <2>6, <2>7, <2>8, <2>9, <2>10, InvPrimed
    <1>3. \/ /\ allocated' = allocated
             /\ Settle(h, "permanent", None) \/ Settle(h, "recoverable", None)
          \/ Permitted(h) /\ allocated' = allocated \cup {Allocation(h)} /\ Advance(h, "send")
      BY DEF Allocate
    <1> QED
      BY <1>1, <1>2, <1>3

\* What is sent has the nonce and the content of its allocation.
LEMMA SendKeeps ==
    ASSUME RegistrationInv, NEW h \in helpers, Send(h)
    PROVE  RegistrationInv'
    <1> DEFINE tx == Transaction(h)
               rivals == {t \in mempool : t.nonce = h.nonce}
               g == Answered(h, "sent", tx)
    <1>0. /\ h \in Helper /\ h.step = "send" /\ None \in Optional(Tx)
          /\ UNCHANGED <<process, allocated, mint_allocation, actions, agents, chain, firm, final, height>>
      BY DEF RegistrationInv, RegistrationType, SignerType, Send, Optional
    <1>1. CASE Settle(h, "recoverable", None) /\ UNCHANGED <<mempool, sent>>
      <2>1. UNCHANGED ledger
        BY <1>0, <1>1 DEF ledger
      <2> QED
        BY <1>0, <1>1, <2>1, RefusedStep
    <1>2. CASE /\ h.nonce >= Latest
               /\ mempool' = (mempool \ rivals) \cup {tx}
               /\ sent' = sent + 1
               /\ Settle(h, "sent", tx)
      <2>0. LedgerType /\ sent \in Nat
        BY ProcessFacts DEF LedgerType
      <2>1. /\ tx \in Tx /\ tx # None /\ tx.nonce = h.nonce /\ tx.aid = h.aid /\ tx.kind = h.kind
            /\ Payload(tx) = Payload(h)
        <3>1. tx \in Tx
          BY <1>0, <2>0 DEF Transaction, Tx, Helper, Optional
        <3> QED
          BY <3>1, NoneAssumption DEF Transaction, Payload
      <2> HIDE DEF tx
      <2>2. GoesOn(h, g) /\ g.step = "sent"
        <3>1. tx \in Optional(Tx)
          BY <2>1 DEF Optional
        <3>2. helpers' \subseteq (helpers \ {h}) \cup {g}
          BY <1>2 DEF Settle, Answered
        <3> HIDE DEF g
        <3>4. SameWork(g, h) /\ g.step = "sent" /\ g.hash = tx
          BY <1>0, <3>1, AnsweredHelper DEF g
        <3> QED
          BY <2>1, <3>2, <3>4, Zenon DEF GoesOn, SameWork
      <2> HIDE DEF g
      <2>3. /\ allocated' = allocated /\ mint_allocation' = mint_allocation /\ actions' = actions
            /\ agents' = agents /\ chain' = chain /\ firm' = firm /\ final' = final
            /\ height' = height
            /\ state' = state /\ disk' = disk /\ job' = job /\ audited' = audited /\ audits' = audits
        BY <1>0 DEF process
      <2>4. /\ helpers' \in SUBSET Helper
            /\ SnapshotFits(state') /\ SnapshotFits(disk') /\ WriterFits(helpers', job', state')
        BY <2>2, <2>3 DEF RegistrationInv, RegistrationType, SignerType, SnapshotsSound,
                          WriterSound, WriterFits, GoesOn, SameWork
      <2>5. mempool' \in SUBSET Tx /\ IsFiniteSet(mempool')
        <3>1. IsFiniteSet(mempool \ rivals)
          BY <2>0, FS_Subset DEF LedgerType
        <3>2. IsFiniteSet((mempool \ rivals) \cup {tx})
          BY <3>1, FS_AddElement
        <3> QED
          BY <1>2, <2>0, <2>1, <3>2 DEF LedgerType
      <2>6. RegistrationType'
        BY <1>2, <2>0, <2>3, <2>4, <2>5
           DEF RegistrationInv, RegistrationType, ProcessType, SignerType, LedgerType
      <2>7. ChainFits(chain', mempool', firm', final')
        BY <1>2, <2>1, <2>3 DEF RegistrationInv, ChainSound, ChainFits, Latest
      <2>8. Sent(chain', mempool') \subseteq Sent(chain, mempool) \cup {tx}
        BY <1>2, <2>3 DEF Sent
      <2>9. NoncesFit(allocated', Sent(chain', mempool'), helpers')
        <3>1. [nonce |-> tx.nonce, by |-> Payload(tx)] \in allocated
          BY <1>0, <2>1 DEF RegistrationInv, NonceGivenOnce, NoncesFit, Allocation
        <3>2. \A t \in Sent(chain', mempool') : t.aid # None =>
                 [nonce |-> t.nonce, by |-> Payload(t)] \in allocated
          BY <2>8, <3>1 DEF RegistrationInv, NonceGivenOnce, NoncesFit
        <3> QED
          BY <2>2, <2>3, <3>2 DEF RegistrationInv, NonceGivenOnce, NoncesFit, GoesOn, SameWork
      <2>10. MintFits(mint_allocation', Sent(chain', mempool'), helpers')
        BY <1>0, <2>1, <2>2, <2>3, <2>8 DEF RegistrationInv, MintBound, MintFits, GoesOn, SameWork
      <2>11. JobFits(job', state', disk', chain', firm')
        BY <2>3 DEF RegistrationInv, JobSound
      <2>12. /\ ClaimFits(state', mint_allocation', helpers', chain', firm')
             /\ ClaimFits(disk', mint_allocation', helpers', chain', firm')
        BY <2>2, <2>3 DEF RegistrationInv, Claims, ClaimFits, GoesOn, SameWork
      <2> QED
        BY <2>4, <2>6, <2>7, <2>9, <2>10, <2>11, <2>12, InvPrimed
    <1>3. \/ Settle(h, "recoverable", None) /\ UNCHANGED <<mempool, sent>>
          \/ /\ h.nonce >= Latest
             /\ mempool' = (mempool \ rivals) \cup {tx}
             /\ sent' = sent + 1
             /\ Settle(h, "sent", tx)
      BY DEF Send
    <1> QED
      BY <1>1, <1>2, <1>3
-----------------------------------------------------------------------------
(* The chain. *)

\* A claim stands while the confirmed part of the chain stays and grows.
LEMMA ClaimStands ==
    ASSUME RegistrationInv, NEW s, ClaimFits(s, mint_allocation, helpers, chain, firm),
           NEW c \in Seq(Entry), NEW confirmed \in Nat,
           firm <= confirmed, confirmed <= Len(c), \A i \in 1..firm : c[i] = chain[i]
    PROVE  ClaimFits(s, mint_allocation, helpers, c, confirmed)
    <1>1. /\ firm \in Nat /\ Latest \in Nat /\ firm <= Latest /\ Latest = Len(chain)
          /\ Len(c) \in Nat
      BY ProcessFacts, LedgerFacts, LenProperties
    <1>2. ASSUME NEW n \in Nat, n < firm
          PROVE  n < confirmed /\ (MintedAt(c, n, Len(c)) => MintedAt(chain, n, Len(chain)))
      <2>1. n < confirmed /\ n + 1 \in 1..firm /\ n + 1 \in 1..Len(chain)
        BY <1>1, <1>2
      <2>2. c[n + 1] = chain[n + 1]
        BY <2>1
      <2> QED
        BY <2>1, <2>2 DEF MintedAt
    <1>3. mint_allocation # None => mint_allocation.nonce \in Nat
      BY DEF RegistrationInv, RegistrationType, SignerType, Optional, Allocated
    <1>4. \A h \in helpers : h.nonce \in Nat
      BY DEF RegistrationInv, RegistrationType, SignerType, Helper
    <1>5. \A n \in Nat : Spent(chain, n, firm) => Spent(c, n, confirmed)
      BY <1>2 DEF Spent
    <1> QED
      BY <1>2, <1>3, <1>4, <1>5 DEF ClaimFits

\* What a job relies on stands as well.
LEMMA JobStands ==
    ASSUME RegistrationInv,
           NEW c \in Seq(Entry), NEW confirmed \in Nat,
           firm <= confirmed, \A i \in 1..firm : c[i] = chain[i]
    PROVE  JobFits(job, state, disk, c, confirmed)
    <1>1. JobFits(job, state, disk, chain, firm) /\ job \in Job /\ firm \in Nat
      BY ProcessFacts
    <1>2. job.observed # None => job.observed \in Nat
      BY <1>1 DEF Job, Optional
    <1>3. job.at \in {"decide", "funding", "prepare", "register_nonce"} /\ job.observed # None =>
            job.observed <= firm /\ job.observed <= confirmed
      BY <1>1, <1>2 DEF JobFits
    <1>4. ASSUME NEW n \in Nat, NEW k \in 0..firm
          PROVE  MintedAt(c, n, k) => MintedAt(chain, n, k)
      BY <1>1, <1>4 DEF MintedAt
    <1>5. state.nonce # None => state.nonce \in Nat
      BY ProcessFacts DEF Snapshot, Optional
    <1>6. job.at = "register_nonce" /\ state.nonce # None /\ job.observed # None =>
            ~MintedAt(c, state.nonce, job.observed)
      <2>1. job.at = "register_nonce" /\ job.observed # None => job.observed \in 0..firm
        BY <1>1, <1>2, <1>3
      <2>2. job.at = "register_nonce" /\ state.nonce # None /\ job.observed # None =>
              ~MintedAt(chain, state.nonce, job.observed)
        BY <1>1 DEF JobFits
      <2> QED
        BY <1>4, <1>5, <2>1, <2>2
    <1> QED
      BY <1>1, <1>3, <1>6 DEF JobFits

\* A step of the chain keeps the invariant if it keeps what was confirmed and sends
\* nothing of the signer's.
LEMMA ChainStep ==
    ASSUME RegistrationInv, UNCHANGED <<process, signer, agents>>, LedgerType',
           ChainFits(chain', mempool', firm', final'),
           firm <= firm', \A i \in 1..firm : chain'[i] = chain[i],
           \A t \in Sent(chain', mempool') :
              t \in Sent(chain, mempool) \/ (t.aid = None /\ t.kind # "Register")
    PROVE  RegistrationInv'
    <1>1. /\ state' = state /\ disk' = disk /\ job' = job /\ audited' = audited /\ audits' = audits
          /\ helpers' = helpers /\ allocated' = allocated /\ mint_allocation' = mint_allocation
          /\ actions' = actions
      BY DEF process, signer
    <1>2. chain' \in Seq(Entry) /\ firm' \in Nat
      BY DEF LedgerType
    <1>3. RegistrationType'
      BY <1>1 DEF RegistrationInv, RegistrationType, ProcessType, SignerType
    <1>4. NoncesFit(allocated', Sent(chain', mempool'), helpers')
      BY <1>1 DEF RegistrationInv, NonceGivenOnce, NoncesFit
    <1>5. MintFits(mint_allocation', Sent(chain', mempool'), helpers')
      BY <1>1 DEF RegistrationInv, MintBound, MintFits
    <1>6. SnapshotFits(state') /\ SnapshotFits(disk') /\ WriterFits(helpers', job', state')
      BY <1>1 DEF RegistrationInv, SnapshotsSound, WriterSound
    <1>7. JobFits(job', state', disk', chain', firm')
      BY <1>1, <1>2, JobStands
    <1>8. /\ ClaimFits(state', mint_allocation', helpers', chain', firm')
          /\ ClaimFits(disk', mint_allocation', helpers', chain', firm')
      <2>1. firm' <= Len(chain')
        BY DEF ChainFits
      <2>2. \A s : ClaimFits(s, mint_allocation, helpers, chain, firm) =>
                   ClaimFits(s, mint_allocation, helpers, chain', firm')
        BY <1>2, <2>1, ClaimStands
      <2> QED
        BY <1>1, <2>2, ProcessFacts
    <1> QED
      BY <1>3, <1>4, <1>5, <1>6, <1>7, <1>8, InvPrimed

\* The facts about the chain that its steps use.
LEMMA ChainFacts ==
    ASSUME RegistrationInv
    PROVE  /\ LedgerType
           /\ chain \in Seq(Entry) /\ Latest \in Nat /\ Latest = Len(chain)
           /\ DOMAIN chain = 1..Latest
           /\ firm \in Nat /\ final \in Nat /\ height \in Nat /\ sent \in Nat
           /\ final <= firm /\ firm <= Latest
           /\ mempool \in SUBSET Tx /\ IsFiniteSet(mempool)
           /\ \A i \in 1..Latest : chain[i].tx.nonce = i - 1
           /\ \A t \in mempool : t.kind = "Register" => t.nonce >= Latest
    <1>1. LedgerType /\ ChainFits(chain, mempool, firm, final)
      BY DEF RegistrationInv, RegistrationType, ChainSound
    <1> QED
      BY <1>1, LedgerFacts DEF LedgerType, ChainFits

\* The executed transaction had the next nonce, and no other of that nonce stays.
LEMMA ExecuteKeeps ==
    ASSUME RegistrationInv, Execute
    PROVE  RegistrationInv'
    <1>0. PICK t \in mempool :
            /\ t.nonce = Latest
            /\ \E ok : chain' = Append(chain, [tx |-> t, ok |-> ok]) /\ ok \in BOOLEAN
            /\ mempool' = {u \in mempool : u.nonce # t.nonce}
            /\ UNCHANGED <<process, signer, agents>> /\ UNCHANGED <<firm, final, height, sent>>
      <2>1. PICK t \in mempool :
              /\ t.nonce = Latest
              /\ \/ chain' = Append(chain, [tx |-> t, ok |-> t.kind = "Set" =>
                                 t.agent \in AgentsAt(Latest) /\ Authorized(t.agent, Latest)])
                 \/ chain' = Append(chain, [tx |-> t, ok |-> FALSE])
              /\ mempool' = {u \in mempool : u.nonce # t.nonce}
              /\ UNCHANGED <<process, signer, agents>> /\ UNCHANGED <<firm, final, height, sent>>
        BY Zenon DEF Execute, Keep
      <2>2. (t.kind = "Set" => t.agent \in AgentsAt(Latest) /\ Authorized(t.agent, Latest)) \in BOOLEAN
        BY Zenon
      <2> QED
        BY <2>1, <2>2, Zenon
    <1>1. PICK ok \in BOOLEAN : chain' = Append(chain, [tx |-> t, ok |-> ok])
      BY <1>0
    <1> DEFINE e == [tx |-> t, ok |-> ok]
    <1>2. e \in Entry /\ e.tx = t
      BY ChainFacts DEF Entry
    <1>3. chain' = Append(chain, e)
      BY <1>1
    <1> HIDE DEF e
    <1>4. /\ chain' \in Seq(Entry) /\ Len(chain') = Latest + 1 /\ DOMAIN chain' = 1..(Latest + 1)
          /\ \A i \in 1..Latest : chain'[i] = chain[i]
          /\ chain'[Latest + 1] = e
      BY <1>2, <1>3, ChainFacts, AppendProperties
    <1>5. mempool' \in SUBSET Tx /\ IsFiniteSet(mempool') /\ mempool' \subseteq mempool
      BY <1>0, ChainFacts, FS_Subset
    <1>6. firm' = firm /\ final' = final /\ height' = height /\ sent' = sent /\ agents' = agents
      BY <1>0
    <1>7. LedgerType'
      BY <1>4, <1>5, <1>6, ChainFacts DEF LedgerType
    <1>8. ChainFits(chain', mempool', firm', final')
      <2>1. ASSUME NEW i \in 1..(Latest + 1) PROVE chain'[i].tx.nonce = i - 1
        <3>1. CASE i = Latest + 1
          BY <1>0, <1>2, <1>4, <3>1, ChainFacts
        <3>2. CASE i \in 1..Latest
          BY <1>4, <3>2, ChainFacts
        <3>3. i = Latest + 1 \/ i \in 1..Latest
          BY ChainFacts
        <3> QED
          BY <3>1, <3>2, <3>3
      <2>2. ASSUME NEW u \in mempool', u.kind = "Register" PROVE u.nonce >= Latest + 1
        <3>1. u.nonce >= Latest /\ u.nonce # Latest /\ u \in Tx
          BY <1>0, <1>5, <2>2, ChainFacts
        <3>2. u.nonce \in Nat
          BY <3>1 DEF Tx
        <3> QED
          BY <3>1, <3>2, ChainFacts
      <2>3. final' <= firm' /\ firm' <= Len(chain')
        BY <1>4, <1>6, ChainFacts
      <2> QED
        BY <1>4, <2>1, <2>2, <2>3 DEF ChainFits
    <1>9. Sent(chain', mempool') \subseteq Sent(chain, mempool)
      <2>1. ASSUME NEW i \in 1..(Latest + 1) PROVE chain'[i].tx \in Sent(chain, mempool)
        <3>1. CASE i = Latest + 1
          BY <1>2, <1>4, <3>1 DEF Sent
        <3>2. CASE i \in 1..Latest
          BY <1>4, <3>2, ChainFacts DEF Sent
        <3> QED
          BY <3>1, <3>2, ChainFacts
      <2> QED
        BY <1>4, <1>5, <2>1 DEF Sent
    <1>10. firm <= firm' /\ \A i \in 1..firm : chain'[i] = chain[i]
      BY <1>4, <1>6, ChainFacts
    <1> QED
      BY <1>0, <1>7, <1>8, <1>9, <1>10, ChainStep

\* Blocks are confirmed and become final; the height of a final block grows.
LEMMA ConfirmKeeps ==
    ASSUME RegistrationInv, Confirm \/ Finalize \/ FinalizeEmpty
    PROVE  RegistrationInv'
    <1>1. /\ chain' = chain /\ mempool' = mempool /\ sent' = sent
          /\ UNCHANGED <<process, signer, agents>>
      BY DEF Confirm, Finalize, FinalizeEmpty, Keep
    <1>2. /\ firm' \in Nat /\ final' \in Nat /\ height' \in Nat
          /\ final' <= firm' /\ firm' <= Latest /\ firm <= firm'
      BY ChainFacts DEF Confirm, Finalize, FinalizeEmpty
    <1>3. LedgerType'
      BY <1>1, <1>2, ChainFacts DEF LedgerType
    <1>4. ChainFits(chain', mempool', firm', final')
      BY <1>1, <1>2, ChainFacts DEF ChainFits
    <1>5. Sent(chain', mempool') = Sent(chain, mempool)
      BY <1>1
    <1> QED
      BY <1>1, <1>2, <1>3, <1>4, <1>5, ChainStep

\* Only a block above the confirmed ones is replaced, and its transaction has the
\* nonce that is free again.
LEMMA ReorgKeeps ==
    ASSUME RegistrationInv, Reorg
    PROVE  RegistrationInv'
    <1>0. /\ Latest > firm /\ chain' = SubSeq(chain, 1, Latest - 1)
          /\ mempool' = mempool \/ mempool' = mempool \cup {chain[Latest].tx}
          /\ UNCHANGED <<process, signer, agents>> /\ UNCHANGED <<firm, final, height, sent>>
      BY DEF Reorg, Keep
    <1>1. Latest \in 1..Latest /\ Latest - 1 \in Nat /\ firm <= Latest - 1
      BY <1>0, ChainFacts
    <1>2. /\ chain' \in Seq(Entry) /\ Len(chain') = Latest - 1 /\ DOMAIN chain' = 1..(Latest - 1)
          /\ \A i \in 1..(Latest - 1) : chain'[i] = chain[i]
      <2>1. chain' \in Seq(Entry) /\ Len(chain') = Latest - 1
        <3>1. \A i \in 1..(Latest - 1) : chain[i] \in Entry
          BY <1>1, ChainFacts, ElementOfSeq
        <3> QED
          BY <1>0, <1>1, <3>1, ChainFacts, SubSeqProperties
      <2>2. \A i \in 1..(Latest - 1) : chain'[i] = chain[i]
        BY <1>0, <1>1, ChainFacts, SubSeqProperties
      <2> QED
        BY <2>1, <2>2, LenProperties
    <1> DEFINE lost == chain[Latest].tx
    <1>3. lost \in Tx /\ lost.nonce = Latest - 1 /\ lost \in Sent(chain, mempool)
      BY <1>1, ChainFacts, LedgerFacts DEF Sent
    <1>4. mempool' \subseteq mempool \cup {lost}
      BY <1>0
    <1> HIDE DEF lost
    <1>5. mempool' \in SUBSET Tx /\ IsFiniteSet(mempool')
      <2>1. IsFiniteSet(mempool \cup {lost})
        BY ChainFacts, FS_AddElement
      <2> QED
        BY <1>3, <1>4, <2>1, ChainFacts, FS_Subset
    <1>6. firm' = firm /\ final' = final /\ height' = height /\ sent' = sent /\ agents' = agents
      BY <1>0
    <1>7. LedgerType'
      BY <1>2, <1>5, <1>6, ChainFacts DEF LedgerType
    <1>8. ChainFits(chain', mempool', firm', final')
      <2>1. \A i \in 1..(Latest - 1) : chain'[i].tx.nonce = i - 1
        BY <1>1, <1>2, ChainFacts
      <2>2. ASSUME NEW u \in mempool', u.kind = "Register" PROVE u.nonce >= Latest - 1
        <3>1. u.nonce \in Nat
          BY <1>5 DEF Tx
        <3> QED
          BY <1>1, <1>3, <1>4, <2>2, <3>1, ChainFacts
      <2>3. final' <= firm' /\ firm' <= Len(chain')
        BY <1>1, <1>2, <1>6, ChainFacts
      <2> QED
        BY <1>2, <2>1, <2>2, <2>3 DEF ChainFits
    <1>9. Sent(chain', mempool') \subseteq Sent(chain, mempool)
      BY <1>1, <1>2, <1>3, <1>4, ChainFacts DEF Sent
    <1>10. firm <= firm' /\ \A i \in 1..firm : chain'[i] = chain[i]
      BY <1>1, <1>2, <1>6, ChainFacts
    <1> QED
      BY <1>0, <1>7, <1>8, <1>9, <1>10, ChainStep

\* A pending transaction is forgotten.
LEMMA DropKeeps ==
    ASSUME RegistrationInv, Drop
    PROVE  RegistrationInv'
    <1>1. /\ mempool' \subseteq mempool
          /\ UNCHANGED <<process, signer, agents>>
          /\ chain' = chain /\ firm' = firm /\ final' = final /\ height' = height /\ sent' = sent
      BY DEF Drop, Keep
    <1>2. LedgerType'
      <2>1. mempool' \in SUBSET Tx /\ IsFiniteSet(mempool')
        BY <1>1, ChainFacts, FS_Subset
      <2> QED
        BY <1>1, <2>1, ChainFacts DEF LedgerType
    <1>3. ChainFits(chain', mempool', firm', final')
      BY <1>1, ChainFacts DEF ChainFits
    <1>4. Sent(chain', mempool') \subseteq Sent(chain, mempool)
      BY <1>1 DEF Sent
    <1>5. firm <= firm' /\ \A i \in 1..firm : chain'[i] = chain[i]
      BY <1>1, ChainFacts
    <1> QED
      BY <1>1, <1>2, <1>3, <1>4, <1>5, ChainStep

\* The wallet is used elsewhere, for no registration.
LEMMA ForeignKeeps ==
    ASSUME RegistrationInv, Foreign
    PROVE  RegistrationInv'
    <1>1. PICK kind \in {"Foreign", "Transfer"}, a \in AgentsAt(Latest) \cup {None} :
            mempool' = mempool \cup
              {[nonce |-> Pending, aid |-> None, kind |-> kind, field |-> "none", value |-> 0,
                agent |-> a, proof |-> None, serial |-> sent]}
      BY DEF Foreign
    <1> DEFINE tx == [nonce |-> Pending, aid |-> None, kind |-> kind, field |-> "none", value |-> 0,
                      agent |-> a, proof |-> None, serial |-> sent]
    <1>2. /\ UNCHANGED <<process, signer, agents>> /\ sent' = sent + 1
          /\ chain' = chain /\ firm' = firm /\ final' = final /\ height' = height
      BY DEF Foreign, Keep
    <1>3. tx \in Tx /\ tx.aid = None /\ tx.kind # "Register"
      <2>1. a \in Optional(Nat) /\ Pending \in Nat /\ sent \in Nat
        <3>1. Latest \in 0..Latest
          BY ChainFacts
        <3> QED
          BY <3>1, ChainFacts, AgentsType, PendingType DEF Optional
      <2> QED
        BY <2>1 DEF Tx, Optional
    <1>4. mempool' = mempool \cup {tx}
      BY <1>1
    <1> HIDE DEF tx
    <1>5. LedgerType'
      <2>1. mempool' \in SUBSET Tx /\ IsFiniteSet(mempool')
        BY <1>3, <1>4, ChainFacts, FS_AddElement
      <2> QED
        BY <1>2, <2>1, ChainFacts DEF LedgerType
    <1>6. ChainFits(chain', mempool', firm', final')
      BY <1>2, <1>3, <1>4, ChainFacts DEF ChainFits
    <1>7. \A t \in Sent(chain', mempool') :
            t \in Sent(chain, mempool) \/ (t.aid = None /\ t.kind # "Register")
      BY <1>2, <1>3, <1>4 DEF Sent
    <1>8. firm <= firm' /\ \A i \in 1..firm : chain'[i] = chain[i]
      BY <1>2, ChainFacts
    <1> QED
      BY <1>2, <1>5, <1>6, <1>7, <1>8, ChainStep
-----------------------------------------------------------------------------
(* The theorems. *)

\* Every registry a process may find satisfies the invariant.
LEMMA InitKeeps ==
    ASSUME Init
    PROVE  RegistrationInv
    <1>1. PICK w \in Worlds : agents = w.agents /\ state = Fresh(w.bound)
      BY DEF Init
    <1>2. /\ disk = state /\ audited = FALSE /\ audits = 2 /\ job = Idle
          /\ helpers = {} /\ allocated = {} /\ mint_allocation = None /\ actions = 0
          /\ chain = <<>> /\ firm = 0 /\ final = 0 /\ height = 0 /\ mempool = {} /\ sent = 0
      BY DEF Init
    <1>3. /\ DOMAIN agents \subseteq 1..NewAgent
          /\ \A a \in DOMAIN agents : agents[a] \in Values
          /\ w.bound \in Optional(Nat)
      BY <1>1, RegistrationAssumption DEF Optional
    <1>4. state \in Snapshot /\ SnapshotFits(state)
      <2>1. /\ None \in Optional(Nat) /\ None \in Optional(Tx) /\ {} \in SUBSET Candidate
            /\ 1 \in Nat /\ None \notin FollowUp
        BY NoneAssumption DEF Optional
      <2>2. state \in Snapshot
        BY <1>1, <1>3, <2>1 DEF Fresh, Snapshot, Phase, Failure
      <2>3. /\ state.action = None /\ state.aid = None /\ state.nonce = None
            /\ state.hash = None
        BY <1>1 DEF Fresh
      <2> QED
        BY <2>1, <2>2, <2>3 DEF SnapshotFits
    <1>5. ProcessType
      <2>1. audits \in 0..2
        BY <1>2
      <2> QED
        BY <1>2, <1>4, <2>1, IdleFits DEF ProcessType
    <1>6. SignerType
      BY <1>2 DEF SignerType, Optional
    <1>7. Len(chain) = 0 /\ chain \in Seq(Entry)
      BY <1>2, EmptySeq
    <1>8. LedgerType
      BY <1>2, <1>3, <1>7, FS_EmptySet DEF LedgerType
    <1>9. ChainSound
      BY <1>2, <1>7 DEF ChainSound, ChainFits
    <1>10. Sent(chain, mempool) = {}
      BY <1>2 DEF Sent
    <1>11. NonceGivenOnce /\ MintBound
      BY <1>2, <1>10 DEF NonceGivenOnce, NoncesFit, MintBound, MintFits
    <1>12. SnapshotsSound /\ WriterSound /\ JobSound
      BY <1>2, <1>4, IdleFits DEF SnapshotsSound, WriterSound, WriterFits, JobSound
    <1>13. Claims
      BY <1>2 DEF Claims, ClaimFits
    <1> QED
      BY <1>5, <1>6, <1>8, <1>9, <1>11, <1>12, <1>13 DEF RegistrationInv, RegistrationType

\* Nothing happens.
LEMMA StutterKeeps ==
    ASSUME RegistrationInv, UNCHANGED vars
    PROVE  RegistrationInv'
    <1>1. UNCHANGED <<process, signer, agents>> /\ UNCHANGED ledger
      BY DEF vars, ledger
    <1>2. /\ chain' = chain /\ mempool' = mempool /\ firm' = firm /\ final' = final
          /\ height' = height /\ sent' = sent /\ agents' = agents
      BY <1>1 DEF ledger
    <1>3. LedgerType' /\ ChainFits(chain', mempool', firm', final')
      BY <1>2 DEF RegistrationInv, RegistrationType, LedgerType, ChainSound
    <1>4. firm <= firm' /\ \A i \in 1..firm : chain'[i] = chain[i]
      BY <1>2, ChainFacts
    <1> QED
      BY <1>1, <1>2, <1>3, <1>4, ChainStep

\* The process keeps the invariant.
LEMMA RuntimeKeeps ==
    ASSUME RegistrationInv, Runtime
    PROVE  RegistrationInv'
    BY MaintainKeeps, DeploymentKeeps, InspectBindingKeeps, DiscoverKeeps, DecideKeeps,
       FundingKeeps, PrepareRegistrationKeeps, RegisterNonceKeeps, FollowUpNonceKeeps,
       WriteAnsweredKeeps, ReceiptKeeps, RecoverKeeps, ReconcileKeeps, RemainingFundingKeeps,
       AdoptInspectedKeeps, Zenon
       DEF Runtime

\* The operator's commands keep it.
LEMMA OperatorKeeps ==
    ASSUME RegistrationInv, Operator
    PROVE  RegistrationInv'
    <1>1. ASSUME NEW a \in AgentsAt(Latest), Adopt(a) PROVE RegistrationInv'
      BY <1>1, AdoptKeeps, Zenon
    <1> QED
      BY <1>1, ProfileCommandKeeps, MaintainCommandKeeps, RetryKeeps, Zenon DEF Operator

\* Every step keeps it.
LEMMA NextKeeps ==
    ASSUME RegistrationInv, [Next]_vars
    PROVE  RegistrationInv'
    <1>1. CASE Runtime
      BY <1>1, RuntimeKeeps
    <1>2. CASE Operator
      BY <1>2, OperatorKeeps
    <1>3. CASE Signer
      BY <1>3, AuthorizeKeeps, AllocateKeeps, SendKeeps, Zenon DEF Signer
    <1>4. CASE Crash
      BY <1>4, CrashKeeps
    <1>5. CASE Chain
      BY <1>5, ExecuteKeeps, ConfirmKeeps, Zenon DEF Chain
    <1>6. CASE FinalizeEmpty
      BY <1>6, ConfirmKeeps
    <1>7. CASE Reorg
      BY <1>7, ReorgKeeps
    <1>8. CASE Drop
      BY <1>8, DropKeeps
    <1>9. CASE Foreign
      BY <1>9, ForeignKeeps
    <1>10. CASE UNCHANGED vars
      BY <1>10, StutterKeeps
    <1> QED
      BY <1>1, <1>2, <1>3, <1>4, <1>5, <1>6, <1>7, <1>8, <1>9, <1>10 DEF Next

\* Only a signer gives a nonce away.
LEMMA GivenStays ==
    ASSUME [Next]_vars, ~Signer
    PROVE  UNCHANGED allocated
    <1>1. CASE Runtime
      BY <1>1 DEF Runtime, signer, MaintainStartup, Maintain, Deployment, InspectBinding, Discover,
                  Decide, Funding, PrepareRegistration, RegisterNonce, FollowUpNonce,
                  WriteAnswered, Receipt, Recover, Reconcile, RemainingFunding, AdoptInspected
    <1>2. CASE Operator
      BY <1>2 DEF Operator, signer, SetAllegiance, RegisterCommand, RepublishProfile,
                  RecoverCommand, Retry, Adopt
    <1>3. CASE Crash \/ Chain \/ FinalizeEmpty \/ Reorg \/ Drop \/ Foreign
      BY <1>3 DEF Crash, Chain, Execute, Confirm, Finalize, FinalizeEmpty, Reorg, Drop, Foreign,
                  Keep, signer
    <1>4. CASE UNCHANGED vars
      BY <1>4 DEF vars, signer
    <1> QED
      BY <1>1, <1>2, <1>3, <1>4 DEF Next

\* What process, signer and chain keep of each other, through every crash, lost answer
\* and replaced block: the inductive invariant of the registration.
THEOREM RegistrationConsistent == Spec => []RegistrationInv
    <1>1. Init => RegistrationInv
      BY InitKeeps
    <1>2. RegistrationInv /\ [Next]_vars => RegistrationInv'
      BY NextKeeps
    <1> QED
      BY <1>1, <1>2, PTL DEF Spec

\* The snapshot, the waiting job, the signers and the chain are well formed: the
\* snapshots and requests of erc8004.rs and erc8004.ts.
THEOREM RegistrationTypeCorrect == Spec => []RegistrationType
    <1>1. RegistrationInv => RegistrationType
      BY DEF RegistrationInv
    <1> QED
      BY <1>1, RegistrationConsistent, PTL

\* The snapshot on disk names every registration that may still succeed, so a process
\* that starts from it mints no second identity.
THEOREM RegisteredOnceHolds == Spec => []RegisteredOnce
    <1>1. ASSUME RegistrationInv PROVE GuardHeld
      <2>1. /\ MintFits(mint_allocation, Sent(chain, mempool), helpers)
            /\ ClaimFits(disk, mint_allocation, helpers, chain, firm)
        BY <1>1 DEF RegistrationInv, MintBound, Claims
      <2>2. ASSUME disk.agent = None, NEW t \in mempool, t.kind = "Register"
            PROVE  disk.aid = t.aid
        <3>1. mint_allocation # None /\ mint_allocation = [aid |-> t.aid, nonce |-> t.nonce]
          BY <2>1, <2>2 DEF MintFits, Sent
        <3>2. t.nonce \in Nat /\ t.nonce >= Latest
          BY <1>1, <2>2, ChainFacts DEF Tx
        <3>3. ~Spent(chain, mint_allocation.nonce, firm)
          BY <1>1, <3>1, <3>2, ChainFacts DEF Spent
        <3> QED
          BY <2>1, <2>2, <3>1, <3>3 DEF ClaimFits
      <2>3. ASSUME disk.agent = None, NEW i \in Done("Register", Latest)
            PROVE  disk.aid = chain[i].tx.aid
        <3>1. i \in 1..Latest /\ chain[i].ok /\ chain[i].tx.kind = "Register"
          BY <2>3 DEF Done
        <3>2. chain[i].tx \in Sent(chain, mempool) /\ chain[i].tx.nonce = i - 1
          BY <1>1, <3>1, ChainFacts DEF Sent
        <3>3. /\ mint_allocation # None
              /\ mint_allocation = [aid |-> chain[i].tx.aid, nonce |-> chain[i].tx.nonce]
          BY <2>1, <3>1, <3>2 DEF MintFits
        <3>4. mint_allocation.nonce = i - 1 /\ (i - 1) + 1 = i
          BY <1>1, <3>1, <3>2, <3>3, ChainFacts
        <3>5. MintedAt(chain, mint_allocation.nonce, Len(chain))
          BY <1>1, <3>1, <3>4, ChainFacts DEF MintedAt
        <3> QED
          BY <2>1, <2>3, <3>3, <3>5 DEF ClaimFits, Spent
      <2> QED
        BY <2>2, <2>3 DEF GuardHeld
    <1>2. ASSUME RegistrationInv PROVE OneRegistration
      <2>1. ASSUME NEW t \in Transactions, t.kind = "Register"
            PROVE  mint_allocation = [aid |-> t.aid, nonce |-> t.nonce]
        BY <1>2, <2>1 DEF RegistrationInv, MintBound, MintFits, Sent, Transactions
      <2> QED
        BY <2>1 DEF OneRegistration
    <1>3. RegistrationInv => RegisteredOnce
      BY <1>1, <1>2 DEF RegisteredOnce
    <1> QED
      BY <1>3, RegistrationConsistent, PTL

\* A nonce belongs to one payload for ever: what the signer sends there later is the
\* same action with the same content.
THEOREM ReplacedByItselfHolds == Spec => ReplacedByItself
    <1> DEFINE Replaced == \A t \in Transactions, u \in Transactions' :
                 t.nonce = u.nonce /\ t.aid # None /\ u.aid # None => Payload(t) = Payload(u)
    <1>1. ASSUME [Next]_vars PROVE allocated \subseteq allocated'
      <2>1. CASE Signer
        BY <2>1 DEF Signer, Authorize, Allocate, Send
      <2>2. CASE ~Signer
        <3>1. UNCHANGED allocated
          BY <1>1, <2>2, GivenStays
        <3> QED
          BY <3>1
      <2> QED
        BY <2>1, <2>2
    <1>2. ASSUME RegistrationInv, RegistrationInv', [Next]_vars PROVE Replaced
      <2>1. ASSUME NEW t \in Transactions, NEW u \in Transactions',
                   t.nonce = u.nonce, t.aid # None, u.aid # None
            PROVE  Payload(t) = Payload(u)
        <3>1. [nonce |-> t.nonce, by |-> Payload(t)] \in allocated
          BY <1>2, <2>1 DEF RegistrationInv, NonceGivenOnce, NoncesFit, Sent, Transactions
        <3>2. [nonce |-> u.nonce, by |-> Payload(u)] \in allocated'
          BY <1>2, <2>1 DEF RegistrationInv, NonceGivenOnce, NoncesFit, Sent, Transactions, Payload
        <3>3. \A x, y \in allocated' : x.nonce = y.nonce => x = y
          BY <1>2 DEF RegistrationInv, NonceGivenOnce, NoncesFit
        <3>4. [nonce |-> t.nonce, by |-> Payload(t)] = [nonce |-> u.nonce, by |-> Payload(u)]
          BY <1>1, <1>2, <2>1, <3>1, <3>2, <3>3
        <3> QED
          BY <3>4
      <2> QED
        BY <2>1
    <1>3. RegistrationInv /\ RegistrationInv' /\ [Next]_vars => [Replaced]_vars
      BY <1>2
    <1> QED
      BY <1>3, RegistrationConsistent, PTL DEF Spec, ReplacedByItself
=============================================================================
