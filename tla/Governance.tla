----------------------------- MODULE Governance -----------------------------
(***************************************************************************)
(* The Council's governance engine (cthuwu-council/src/governance.rs).     *)
(*                                                                         *)
(* Members propose documents, discuss them, vote until a deadline and      *)
(* finalize; ratified Constitutions and Agendas become the head their      *)
(* successors must name as parent.  A document is one of a fixed set and   *)
(* carries its content hash, equal hashes meaning equal documents; the     *)
(* hash chains over membership and proposals are the sequences themselves. *)
(***************************************************************************)
EXTENDS Integers, Sequences, FiniteSets, FiniteSetsExt

CONSTANTS
    CthulhuId, ProposalId,
    Genesis,            \* the memberships a Council may start with
    Document,           \* records [kind, version, parent, hash]
    NoHash,             \* an absent parent or agenda hash
    quorum_bps, approval_bps, constitution_approval_bps,
    max_proposal_lifetime_seconds,
    MAX_MEMBERS, MAX_MEMBERSHIP_SNAPSHOTS, MAX_OPEN_PROPOSALS, MAX_PROPOSALS,
    MAX_ARGUMENTS, MAX_AMENDMENTS,
    MaxEdits,           \* bound of the arguments, amendments and replaced votes
    MaxTime,            \* bound of the clock
    NoProposal, NoVote, NoHead

ProposalStatus == {"Open", "Ratified", "Rejected", "Expired", "ParentConflict"}

VoteChoice == {"Support", "Oppose", "Abstain"}

Vote == [choice: VoteChoice, cast_at: Nat, revision: Nat]

Proposal ==
    [proposer: CthulhuId, document: Document, created_at: Nat, deadline: Nat,
     status: ProposalStatus, membership_revision: Nat, membership_binding_index: Nat,
     eligible_voters: SUBSET CthulhuId, arguments: Nat, amendments: Nat,
     votes: [CthulhuId -> Vote \cup {NoVote}]]

DocumentHead == [version: Nat, hash: {d.hash : d \in Document}, proposal_id: ProposalId]

\* GovernanceRules::validate and GovernanceEngine::new, and what a hash is.
ASSUME GovernanceAssumption ==
    /\ IsFiniteSet(CthulhuId)
    /\ Genesis \subseteq SUBSET CthulhuId
    /\ {} \notin Genesis
    /\ quorum_bps \in 1..10000
    /\ approval_bps \in 1..10000
    /\ constitution_approval_bps \in 1..10000
    /\ constitution_approval_bps > approval_bps
    /\ max_proposal_lifetime_seconds \in Nat \ {0}
    /\ \A d \in Document : /\ d.kind \in {"Constitution", "Agenda", "Strategy", "Action"}
                           /\ d.version \in Nat
                           /\ d.hash # NoHash
    /\ \A d, e \in Document : d.hash = e.hash => d = e
    /\ MAX_ARGUMENTS \in Nat
    /\ MAX_AMENDMENTS \in Nat
    /\ MaxEdits \in Nat
    /\ MaxTime \in Nat
    /\ NoProposal \notin Proposal
    /\ NoVote \notin Vote
    /\ NoHead \notin DocumentHead

VARIABLES
    members,
    membership_history,         \* sequence of member sets, oldest first
    proposal_membership_log,    \* sequence of [proposal_id, membership_revision]
    proposals,                  \* ProposalId -> Proposal or NoProposal
    constitution, agenda,       \* the current heads
    now

vars == <<members, membership_history, proposal_membership_log, proposals,
          constitution, agenda, now>>

membershipVars == <<members, membership_history>>

headVars == <<constitution, agenda>>

Submitted == {p \in ProposalId : proposals[p] # NoProposal}

-----------------------------------------------------------------------------
\* Tally: what the votes of a proposal add up to.
VotersFor(p, choices) ==
    {v \in CthulhuId : p.votes[v] # NoVote /\ p.votes[v].choice \in choices}

Participating(p) == Cardinality(VotersFor(p, VoteChoice))

NonAbstaining(p) == Cardinality(VotersFor(p, {"Support", "Oppose"}))

Support(p) == Cardinality(VotersFor(p, {"Support"}))

\* ceil_bps
CeilBps(total, bps) == (total * bps + 9999) \div 10000

QuorumNeeded(p) == CeilBps(Cardinality(p.eligible_voters), quorum_bps)

Threshold(p) ==
    IF p.document.kind = "Constitution" THEN constitution_approval_bps ELSE approval_bps

QuorumReached(p) == Participating(p) >= QuorumNeeded(p)

Approved(p) ==
    /\ NonAbstaining(p) > 0
    /\ Support(p) * 10000 >= NonAbstaining(p) * Threshold(p)

VotesInOrder(p) ==
    \A v \in CthulhuId : p.votes[v] # NoVote =>
        /\ v \in p.eligible_voters
        /\ p.created_at <= p.votes[v].cast_at
        /\ p.votes[v].cast_at < p.deadline

\* proposal_membership_is_valid: the log binds the proposal to its revision, and
\* its electorate is the one that revision recorded.
MembershipValid(id) ==
    LET p == proposals[id]
        i == p.membership_binding_index + 1
        r == p.membership_revision + 1
    IN  /\ i \in DOMAIN proposal_membership_log
        /\ proposal_membership_log[i].proposal_id = id
        /\ proposal_membership_log[i].membership_revision = p.membership_revision
        /\ r \in DOMAIN membership_history
        /\ membership_history[r] = p.eligible_voters

\* has_valid_ratification_evidence
ValidEvidence(id) ==
    /\ MembershipValid(id)
    /\ VotesInOrder(proposals[id])
    /\ QuorumReached(proposals[id])
    /\ Approved(proposals[id])

\* lineage_matches: the first version has no parent, every later one names the
\* head it replaces.
LineageMatches(head, d) ==
    IF head = NoHead THEN d.version = 1 /\ d.parent = NoHash
    ELSE d.version = head.version + 1 /\ d.parent = head.hash

AgendaHash == IF agenda = NoHead THEN NoHash ELSE agenda.hash

\* Seeded fault: only the Constitution's lineage is looked at.
DocumentFitsAnyAgenda(d) ==
    d.kind = "Constitution" => LineageMatches(constitution, d)

\* validate_document_lineage, and has_parent_conflict negated.
DocumentFits(d) ==
    CASE d.kind = "Constitution" -> LineageMatches(constitution, d)
      [] d.kind = "Agenda" -> LineageMatches(agenda, d)
      [] d.kind = "Strategy" -> agenda # NoHead /\ d.parent = agenda.hash
      [] d.kind = "Action" -> d.parent # NoHash => d.parent = AgendaHash

\* Seeded fault: only the time is looked at.
OpenForInTime(id, actor) ==
    /\ proposals[id] # NoProposal
    /\ now < proposals[id].deadline
    /\ now >= proposals[id].created_at
    /\ actor \in proposals[id].eligible_voters

\* open_proposal_mut: may this actor still take part?
OpenFor(id, actor) ==
    /\ proposals[id] # NoProposal
    /\ proposals[id].status = "Open"
    /\ now < proposals[id].deadline
    /\ now >= proposals[id].created_at
    /\ actor \in proposals[id].eligible_voters

\* Only for the bound: how often the discussion of all proposals was added to
\* and a vote replaced.
Edits ==
    MapThenSumSet(
        LAMBDA id : proposals[id].arguments + proposals[id].amendments
                    + MapThenSumSet(LAMBDA v : proposals[id].votes[v].revision,
                                    VotersFor(proposals[id], VoteChoice)),
        Submitted)

-----------------------------------------------------------------------------
Init ==
    /\ members \in Genesis
    /\ membership_history = <<members>>
    /\ proposal_membership_log = <<>>
    /\ proposals = [id \in ProposalId |-> NoProposal]
    /\ constitution = NoHead
    /\ agenda = NoHead
    /\ now = 0

\* add_member and remove_member change the electorate of later proposals only.
AddMember(m) ==
    /\ m \notin members
    /\ Cardinality(members) < MAX_MEMBERS
    /\ Len(membership_history) < MAX_MEMBERSHIP_SNAPSHOTS
    /\ members' = members \cup {m}
    /\ membership_history' = Append(membership_history, members')
    /\ UNCHANGED <<proposal_membership_log, proposals, headVars, now>>

\* Seeded fault: the member also leaves the electorate of open proposals.
RemoveMemberEverywhere(m) ==
    /\ m \in members
    /\ Cardinality(members) # 1
    /\ Len(membership_history) < MAX_MEMBERSHIP_SNAPSHOTS
    /\ members' = members \ {m}
    /\ membership_history' = Append(membership_history, members')
    /\ proposals' = [id \in ProposalId |->
           IF id \in Submitted THEN [proposals[id] EXCEPT !.eligible_voters = @ \ {m}]
                               ELSE NoProposal]
    /\ UNCHANGED <<proposal_membership_log, headVars, now>>

RemoveMember(m) ==
    /\ m \in members
    /\ Cardinality(members) # 1
    /\ Len(membership_history) < MAX_MEMBERSHIP_SNAPSHOTS
    /\ members' = members \ {m}
    /\ membership_history' = Append(membership_history, members')
    /\ UNCHANGED <<proposal_membership_log, proposals, headVars, now>>

\* submit: bind the proposal to the present membership.
Submit(id, proposer, d, deadline) ==
    /\ proposer \in members
    /\ proposals[id] = NoProposal
    /\ Cardinality(Submitted) < MAX_PROPOSALS
    /\ Cardinality({p \in Submitted : proposals[p].status = "Open"}) < MAX_OPEN_PROPOSALS
    /\ deadline > now
    /\ deadline - now <= max_proposal_lifetime_seconds
    /\ DocumentFits(d)
    /\ LET revision == Len(membership_history) - 1 IN
       /\ proposal_membership_log' =
              Append(proposal_membership_log,
                     [proposal_id |-> id, membership_revision |-> revision])
       /\ proposals' = [proposals EXCEPT ![id] =
              [proposer |-> proposer, document |-> d, created_at |-> now,
               deadline |-> deadline, status |-> "Open",
               membership_revision |-> revision,
               membership_binding_index |-> Len(proposal_membership_log),
               eligible_voters |-> members,
               arguments |-> 0, amendments |-> 0,
               votes |-> [v \in CthulhuId |-> NoVote]]]
    /\ UNCHANGED <<membershipVars, headVars, now>>

AddArgument(id, author) ==
    /\ OpenFor(id, author)
    /\ proposals[id].arguments < MAX_ARGUMENTS
    /\ Edits < MaxEdits
    /\ proposals' = [proposals EXCEPT ![id].arguments = @ + 1]
    /\ UNCHANGED <<membershipVars, proposal_membership_log, headVars, now>>

SuggestAmendment(id, author) ==
    /\ OpenFor(id, author)
    /\ proposals[id].amendments < MAX_AMENDMENTS
    /\ Edits < MaxEdits
    /\ proposals' = [proposals EXCEPT ![id].amendments = @ + 1]
    /\ UNCHANGED <<membershipVars, proposal_membership_log, headVars, now>>

\* cast_vote: a second vote of the same principal replaces the first.
CastVote(id, voter, choice) ==
    /\ OpenFor(id, voter)
    /\ LET previous == proposals[id].votes[voter]
           revision == IF previous = NoVote THEN 0 ELSE previous.revision + 1
       IN  /\ revision > 0 => Edits < MaxEdits
           /\ proposals' = [proposals EXCEPT ![id].votes[voter] =
                  [choice |-> choice, cast_at |-> now, revision |-> revision]]
    /\ UNCHANGED <<membershipVars, proposal_membership_log, headVars, now>>

\* Seeded fault: the quorum is taken of the votes that were not abstentions.
OutcomeNoQuorum(p) ==
    CASE ~DocumentFits(p.document) -> "ParentConflict"
      [] DocumentFits(p.document) /\ Approved(p) -> "Ratified"
      [] OTHER -> "Rejected"

\* The outcome `finalize' computes.
Outcome(p) ==
    CASE ~DocumentFits(p.document) -> "ParentConflict"
      [] DocumentFits(p.document) /\ ~QuorumReached(p) -> "Expired"
      [] DocumentFits(p.document) /\ QuorumReached(p) /\ Approved(p) -> "Ratified"
      [] OTHER -> "Rejected"

HeadOf(id) ==
    [version |-> proposals[id].document.version,
     hash |-> proposals[id].document.hash, proposal_id |-> id]

\* finalize: at or after the deadline, once.
Finalize(id) ==
    /\ proposals[id] # NoProposal
    /\ proposals[id].status = "Open"
    /\ now >= proposals[id].deadline
    /\ MembershipValid(id)
    /\ VotesInOrder(proposals[id])
    /\ LET outcome == Outcome(proposals[id])
           kind == proposals[id].document.kind
       IN  /\ proposals' = [proposals EXCEPT ![id].status = outcome]
           /\ constitution' = IF outcome = "Ratified" /\ kind = "Constitution"
                              THEN HeadOf(id) ELSE constitution
           /\ agenda' = IF outcome = "Ratified" /\ kind = "Agenda"
                        THEN HeadOf(id) ELSE agenda
    /\ UNCHANGED <<membershipVars, proposal_membership_log, now>>

\* The `now' callers bring; the engine itself reads no clock.
SetClock(t) ==
    /\ t # now
    /\ now' = t
    /\ UNCHANGED <<membershipVars, proposal_membership_log, proposals, headVars>>

Next ==
    \/ \E m \in CthulhuId : AddMember(m)
    \/ \E m \in CthulhuId : RemoveMember(m)
    \/ \E id \in ProposalId, m \in CthulhuId, d \in Document, t \in 0..MaxTime :
          Submit(id, m, d, t)
    \/ \E id \in ProposalId, m \in CthulhuId : AddArgument(id, m)
    \/ \E id \in ProposalId, m \in CthulhuId : SuggestAmendment(id, m)
    \/ \E id \in ProposalId, m \in CthulhuId, c \in VoteChoice : CastVote(id, m, c)
    \/ \E id \in ProposalId : Finalize(id)
    \/ \E t \in 0..MaxTime : SetClock(t)

Spec == Init /\ [][Next]_vars

-----------------------------------------------------------------------------
(* Properties *)

\* A ratified proposal keeps the evidence that ratified it: its electorate is
\* the membership when it opened, its votes were cast by that electorate while
\* it was open, and they reach quorum and threshold; members coming and going,
\* late votes and clock steps change none of it.
RatifiedWithEvidence ==
    \A id \in Submitted : proposals[id].status = "Ratified" => ValidEvidence(id)

\* Two competing Agendas (or Constitutions) are never both ratified: at most
\* one ratified document of a kind carries a version, and the head is the
\* newest.
OneHeadPerVersion ==
    /\ \A p, q \in Submitted :
           /\ proposals[p].status = "Ratified"
           /\ proposals[q].status = "Ratified"
           /\ proposals[p].document.kind = proposals[q].document.kind
           /\ proposals[p].document.kind \in {"Constitution", "Agenda"}
           /\ proposals[p].document.version = proposals[q].document.version
           => p = q
    /\ \A p \in Submitted :
           /\ proposals[p].status = "Ratified"
           /\ proposals[p].document.kind = "Agenda"
           => agenda # NoHead /\ proposals[p].document.version <= agenda.version

\* A decided proposal is never touched again: no late vote, argument or second
\* finalization, even if the clock steps back before its deadline.
DecidedForGood ==
    [][\A id \in Submitted : proposals[id].status # "Open" =>
          proposals'[id] = proposals[id]]_vars

\* Decisions stand: whatever is ratified keeps the evidence that ratified it, and
\* what is decided is never touched again.
DecisionsStand == []RatifiedWithEvidence /\ DecidedForGood

\* validate_loaded_state: what a restart at `time' demands of the persisted engine.
ValidateLoadedState(time) ==
    /\ members # {}
    /\ membership_history[Len(membership_history)] = members
    /\ Len(proposal_membership_log) = Cardinality(Submitted)
    /\ \A k \in DOMAIN proposal_membership_log :
           LET b == proposal_membership_log[k] IN
           /\ b.proposal_id \in Submitted
           /\ proposals[b.proposal_id].membership_revision = b.membership_revision
           /\ proposals[b.proposal_id].membership_binding_index = k - 1
    /\ \A id \in Submitted :
           LET p == proposals[id] IN
           /\ p.proposer \in p.eligible_voters
           /\ p.created_at < p.deadline
           /\ p.deadline - p.created_at <= max_proposal_lifetime_seconds
           /\ p.status # "Open" => p.deadline <= time
           /\ MembershipValid(id)
           /\ VotesInOrder(p)
           /\ p.status = "Ratified" => ValidEvidence(id)
    /\ \A head \in {constitution, agenda} \ {NoHead} :
           /\ proposals[head.proposal_id].status = "Ratified"
           /\ proposals[head.proposal_id].document.hash = head.hash

\* Restarts.  Whatever members, voters and finalizers did, in whatever order, a
\* snapshot taken at any moment loads again at every time at which the deadlines
\* of its decided proposals have passed.
Reloads ==
    \A time \in 0..MaxTime :
        (\A id \in Submitted : proposals[id].status # "Open" => proposals[id].deadline <= time)
        => ValidateLoadedState(time)

\* The heads are the newest ratified documents, one for each version, and what a
\* restart reads names the same ones.
HeadsReload == OneHeadPerVersion /\ Reloads
=============================================================================
