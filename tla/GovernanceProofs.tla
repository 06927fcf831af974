-------------------------- MODULE GovernanceProofs --------------------------
(***************************************************************************)
(* Proofs about the governance engine, for every Council, every set of     *)
(* documents, all thresholds and limits and any clock.                     *)
(*                                                                         *)
(* That a ratified proposal keeps its evidence is not inductive: the       *)
(* evidence was gathered while the proposal was open, by an electorate     *)
(* that has changed since.  GovernanceInv says of every proposal, open or  *)
(* decided, what finalize will rely on: its binding to the recorded        *)
(* membership, votes of that electorate in its window, and for the ratified*)
(* ones quorum and threshold; and it ties each head to the one newest      *)
(* ratified document of its kind.                                          *)
(***************************************************************************)
EXTENDS Governance, FiniteSetTheorems, SequenceTheorems, TLAPS

GovernanceType ==
    /\ members \in SUBSET CthulhuId
    /\ membership_history \in Seq(SUBSET CthulhuId)
    /\ proposal_membership_log \in Seq([proposal_id: ProposalId, membership_revision: Nat])
    /\ proposals \in [ProposalId -> Proposal \cup {NoProposal}]
    /\ constitution \in DocumentHead \cup {NoHead}
    /\ agenda \in DocumentHead \cup {NoHead}
    /\ now \in Nat

\* The history ends with the members of now, and there are always some.
MembersSound ==
    /\ members # {}
    /\ Len(membership_history) >= 1
    /\ membership_history[Len(membership_history)] = members

\* What holds of a proposal from its submission on.
SubmittedSound(p) ==
    /\ p.proposer \in p.eligible_voters
    /\ p.created_at < p.deadline
    /\ p.deadline - p.created_at <= max_proposal_lifetime_seconds
    /\ VotesInOrder(p)
    /\ p.status = "Ratified" => QuorumReached(p) /\ Approved(p)

ProposalsSound ==
    \A id \in Submitted : SubmittedSound(proposals[id]) /\ MembershipValid(id)

\* The log binds every submitted proposal once.
LogSound ==
    /\ IsFiniteSet(Submitted)
    /\ Len(proposal_membership_log) = Cardinality(Submitted)
    /\ \A k \in DOMAIN proposal_membership_log :
           LET b == proposal_membership_log[k] IN
           /\ b.proposal_id \in Submitted
           /\ proposals[b.proposal_id].membership_revision = b.membership_revision
           /\ proposals[b.proposal_id].membership_binding_index = k - 1

IsRatified(all, id, kind) ==
    /\ id \in ProposalId
    /\ all[id] # NoProposal
    /\ all[id].status = "Ratified"
    /\ all[id].document.kind = kind

\* The head of a kind is a ratified document of it, no other is as new, and no
\* two have one version.
HeadSound(all, head, kind) ==
    /\ head # NoHead =>
           /\ IsRatified(all, head.proposal_id, kind)
           /\ all[head.proposal_id].document.hash = head.hash
           /\ all[head.proposal_id].document.version = head.version
    /\ \A id \in ProposalId : IsRatified(all, id, kind) =>
           head # NoHead /\ all[id].document.version <= head.version
    /\ \A id, other \in ProposalId :
           /\ IsRatified(all, id, kind)
           /\ IsRatified(all, other, kind)
           /\ all[id].document.version = all[other].document.version
           => id = other

HeadsSound ==
    /\ HeadSound(proposals, constitution, "Constitution")
    /\ HeadSound(proposals, agenda, "Agenda")

GovernanceInv ==
    /\ GovernanceType
    /\ MembersSound
    /\ ProposalsSound
    /\ LogSound
    /\ HeadsSound

-----------------------------------------------------------------------------
(* Operators. *)

\* The tally of a proposal depends on its votes, its electorate and its kind.
LEMMA SameTally ==
    ASSUME NEW p, NEW q, p.votes = q.votes, p.eligible_voters = q.eligible_voters,
           p.document = q.document
    PROVE  /\ QuorumReached(p) <=> QuorumReached(q)
           /\ Approved(p) <=> Approved(q)
    <1>1. \A choices : VotersFor(p, choices) = VotersFor(q, choices)
      BY DEF VotersFor
    <1>2. /\ Participating(p) = Participating(q)
          /\ NonAbstaining(p) = NonAbstaining(q)
          /\ Support(p) = Support(q)
      BY <1>1 DEF Participating, NonAbstaining, Support
    <1>3. QuorumNeeded(p) = QuorumNeeded(q) /\ Threshold(p) = Threshold(q)
      BY DEF QuorumNeeded, Threshold
    <1> QED
      BY <1>2, <1>3 DEF QuorumReached, Approved

\* MembershipValid of proposal p under a log and a history.
Binding(id, p, log, history) ==
    LET i == p.membership_binding_index + 1
        r == p.membership_revision + 1
    IN  /\ i \in DOMAIN log
        /\ log[i].proposal_id = id
        /\ log[i].membership_revision = p.membership_revision
        /\ r \in DOMAIN history
        /\ history[r] = p.eligible_voters

Extends(longer, shorter) ==
    /\ Len(longer) >= Len(shorter)
    /\ \A k \in 1..Len(shorter) : longer[k] = shorter[k]

\* A binding stays what it is while log and history only grow.
LEMMA BindingStays ==
    ASSUME NEW A, NEW B, NEW id, NEW p, NEW q,
           NEW log \in Seq(A), NEW history \in Seq(B),
           NEW longerLog \in Seq(A), NEW longerHistory \in Seq(B),
           Extends(longerLog, log), Extends(longerHistory, history),
           Binding(id, p, log, history),
           q.membership_revision = p.membership_revision,
           q.membership_binding_index = p.membership_binding_index,
           q.eligible_voters = p.eligible_voters
    PROVE  Binding(id, q, longerLog, longerHistory)
    <1>1. /\ DOMAIN log = 1..Len(log) /\ DOMAIN history = 1..Len(history)
          /\ DOMAIN longerLog = 1..Len(longerLog)
          /\ DOMAIN longerHistory = 1..Len(longerHistory)
          /\ Len(longerLog) \in Nat /\ Len(longerHistory) \in Nat
          /\ Len(log) \in Nat /\ Len(history) \in Nat
      BY LenProperties
    <1> QED
      BY <1>1 DEF Binding, Extends

\* A head is as sound as before when no proposal of its kind was ratified meanwhile.
LEMMA HeadStays ==
    ASSUME NEW all, NEW later, NEW head, NEW kind,
           HeadSound(all, head, kind),
           \A x \in ProposalId : later[x] = all[x]
               \/ ~(IsRatified(all, x, kind) \/ IsRatified(later, x, kind))
    PROVE  HeadSound(later, head, kind)
    <1>1. \A x \in ProposalId : /\ IsRatified(later, x, kind) <=> IsRatified(all, x, kind)
                                /\ IsRatified(all, x, kind) => later[x] = all[x]
      BY DEF IsRatified
    <1>2. \A x : IsRatified(all, x, kind) => x \in ProposalId
      BY DEF IsRatified
    <1> HIDE DEF IsRatified
    <1> QED
      BY <1>1, <1>2 DEF HeadSound

\* The head that `finalize' sets for a newly ratified document of its kind.
LEMMA HeadAdvances ==
    ASSUME NEW all \in [ProposalId -> Proposal \cup {NoProposal}],
           NEW later, NEW head \in DocumentHead \cup {NoHead}, NEW kind,
           NEW id \in ProposalId,
           HeadSound(all, head, kind),
           \A x \in ProposalId \ {id} : later[x] = all[x],
           later[id] \in Proposal,
           IsRatified(later, id, kind), ~IsRatified(all, id, kind),
           LineageMatches(head, later[id].document),
           NEW newer, newer.version = later[id].document.version,
           newer.hash = later[id].document.hash, newer.proposal_id = id,
           newer # NoHead
    PROVE  HeadSound(later, newer, kind)
    <1>1. \A x \in ProposalId : IsRatified(later, x, kind) =>
              x = id \/ (x # id /\ IsRatified(all, x, kind) /\ later[x] = all[x])
      BY DEF IsRatified
    <1>2. \A x \in ProposalId : IsRatified(later, x, kind) => later[x].document.version \in Nat
      <2>1. \A x \in ProposalId : IsRatified(later, x, kind) => later[x] \in Proposal
        BY <1>1 DEF IsRatified
      <2>2. \A p \in Proposal : p.document \in Document
        BY DEF Proposal
      <2> QED
        BY <2>1, <2>2, GovernanceAssumption
    <1>3. head # NoHead => head.version \in Nat /\ newer.version = head.version + 1
      BY DEF DocumentHead, LineageMatches
    <1>4. \A x \in ProposalId \ {id} : IsRatified(later, x, kind) =>
              head # NoHead /\ later[x].document.version <= head.version
      BY <1>1 DEF HeadSound
    <1>5. \A x \in ProposalId \ {id} : IsRatified(later, x, kind) =>
              later[x].document.version < newer.version
      BY <1>2, <1>3, <1>4
    <1>6. newer.version \in Nat
      BY <1>2
    <1>7. \A x \in ProposalId : IsRatified(later, x, kind) =>
              newer # NoHead /\ later[x].document.version <= newer.version
      BY <1>2, <1>5, <1>6
    <1>8. \A x, y \in ProposalId :
              /\ IsRatified(later, x, kind)
              /\ IsRatified(later, y, kind)
              /\ later[x].document.version = later[y].document.version
              => x = y
      <2> SUFFICES ASSUME NEW x \in ProposalId, NEW y \in ProposalId,
                          IsRatified(later, x, kind), IsRatified(later, y, kind),
                          later[x].document.version = later[y].document.version
                   PROVE  x = y
        OBVIOUS
      <2>1. CASE x = id \/ y = id
        BY <1>2, <1>5, <1>6, <2>1
      <2>2. CASE x # id /\ y # id
        BY <1>1, <2>2 DEF HeadSound
      <2> QED
        BY <2>1, <2>2
    <1> QED
      BY <1>7, <1>8 DEF HeadSound

\* What is said of the heads, in the next state.
LEMMA HeadsPrimed ==
    ASSUME HeadSound(proposals', constitution', "Constitution"),
           HeadSound(proposals', agenda', "Agenda")
    PROVE  HeadsSound'
    BY DEF HeadsSound, HeadSound, IsRatified

-----------------------------------------------------------------------------
(* Steps. *)

\* A membership change touches no proposal, and the history only grows.
LEMMA MembershipKeeps ==
    ASSUME GovernanceInv, NEW m \in CthulhuId, AddMember(m) \/ RemoveMember(m)
    PROVE  GovernanceInv'
    <1>0. /\ GovernanceType /\ MembersSound /\ ProposalsSound /\ LogSound
          /\ HeadsSound
      BY DEF GovernanceInv
    <1>1. /\ UNCHANGED <<proposal_membership_log, proposals, constitution, agenda, now>>
          /\ members' \in SUBSET CthulhuId
          /\ membership_history' = Append(membership_history, members')
      BY <1>0 DEF AddMember, RemoveMember, GovernanceType, headVars
    <1>2. /\ membership_history' \in Seq(SUBSET CthulhuId)
          /\ Len(membership_history') = Len(membership_history) + 1
          /\ Len(membership_history) \in Nat
          /\ \A i \in 1..Len(membership_history) :
                 membership_history'[i] = membership_history[i]
          /\ membership_history'[Len(membership_history) + 1] = members'
      BY <1>0, <1>1, AppendProperties, LenProperties DEF GovernanceType
    <1>3. members' # {}
      <2>1. CASE AddMember(m)
        BY <2>1 DEF AddMember
      <2>2. CASE RemoveMember(m)
        <3>1. members = {m} => Cardinality(members) = 1
          BY FS_Singleton
        <3> QED
          BY <1>0, <2>2, <3>1 DEF RemoveMember
      <2> QED
        BY <2>1, <2>2
    <1>4. GovernanceType' /\ MembersSound'
      BY <1>0, <1>1, <1>2, <1>3 DEF GovernanceType, MembersSound
    <1>5. Submitted' = Submitted
      BY <1>1 DEF Submitted
    <1>6. ProposalsSound'
      <2> SUFFICES ASSUME NEW id \in Submitted
                   PROVE  SubmittedSound(proposals[id])' /\ MembershipValid(id)'
        BY <1>5 DEF ProposalsSound
      <2>1. SubmittedSound(proposals[id]) /\ MembershipValid(id) /\ id \in ProposalId
        BY <1>0 DEF ProposalsSound, Submitted
      <2>2. SubmittedSound(proposals[id])'
        BY <1>1, <2>1 DEF SubmittedSound, VotesInOrder, QuorumReached, Approved, Participating,
                          NonAbstaining, Support, VotersFor, QuorumNeeded, CeilBps, Threshold
      <2>3. MembershipValid(id)'
        <3>1. /\ proposal_membership_log' = proposal_membership_log
              /\ Extends(proposal_membership_log, proposal_membership_log)
              /\ Extends(membership_history', membership_history)
          BY <1>0, <1>1, <1>2, LenProperties DEF GovernanceType, Extends
        <3>2. Binding(id, proposals[id], proposal_membership_log, membership_history)
          BY <2>1 DEF MembershipValid, Binding
        <3>3. Binding(id, proposals[id], proposal_membership_log, membership_history')
          BY <1>0, <1>2, <3>1, <3>2, BindingStays DEF GovernanceType
        <3> QED
          BY <1>1, <3>1, <3>3 DEF MembershipValid, Binding
      <2> QED
        BY <2>2, <2>3
    <1>7. LogSound'
      BY <1>0, <1>1, <1>5 DEF LogSound
    <1>8. HeadsSound'
      BY <1>0, <1>1 DEF HeadsSound, HeadSound, IsRatified
    <1> QED
      BY <1>4, <1>6, <1>7, <1>8 DEF GovernanceInv

\* When one proposal is replaced by one that is as sound and bound as it was, all
\* that is said of proposals, their log and the membership stays true.
LEMMA RewriteKeeps ==
    ASSUME GovernanceInv, NEW id \in ProposalId, proposals[id] # NoProposal,
           NEW q \in Proposal,
           proposals' = [proposals EXCEPT ![id] = q],
           q.membership_revision = proposals[id].membership_revision,
           q.membership_binding_index = proposals[id].membership_binding_index,
           q.eligible_voters = proposals[id].eligible_voters,
           SubmittedSound(q),
           UNCHANGED <<members, membership_history, proposal_membership_log, now>>
    PROVE  /\ Submitted' = Submitted
           /\ proposals' \in [ProposalId -> Proposal \cup {NoProposal}]
           /\ MembersSound' /\ ProposalsSound' /\ LogSound'
    <1>0. /\ GovernanceType /\ MembersSound /\ ProposalsSound /\ LogSound
          /\ proposals \in [ProposalId -> Proposal \cup {NoProposal}]
      BY DEF GovernanceInv, GovernanceType
    <1>1. /\ proposals' \in [ProposalId -> Proposal \cup {NoProposal}]
          /\ proposals'[id] = q /\ q # NoProposal
          /\ \A x \in ProposalId : x # id => proposals'[x] = proposals[x]
      BY <1>0, GovernanceAssumption
    <1>2. Submitted' = Submitted
      BY <1>1 DEF Submitted
    <1>3. MembersSound'
      BY <1>0 DEF MembersSound
    <1>4. ProposalsSound'
      <2> SUFFICES ASSUME NEW x \in Submitted
                   PROVE  SubmittedSound(proposals[x])' /\ MembershipValid(x)'
        BY <1>2 DEF ProposalsSound
      <2>1. x \in ProposalId /\ SubmittedSound(proposals[x]) /\ MembershipValid(x)
        BY <1>0 DEF ProposalsSound, Submitted
      <2>2. SubmittedSound(proposals'[x])
        BY <1>1, <2>1
      <2>3. Binding(x, proposals'[x], proposal_membership_log, membership_history)
        BY <1>1, <2>1 DEF MembershipValid, Binding
      <2>4. SubmittedSound(proposals[x])'
        BY <2>2 DEF SubmittedSound, VotesInOrder, QuorumReached, Approved, Participating,
                    NonAbstaining, Support, VotersFor, QuorumNeeded, CeilBps, Threshold
      <2> QED
        BY <2>3, <2>4 DEF MembershipValid, Binding
    <1>5. LogSound'
      BY <1>0, <1>1, <1>2 DEF LogSound, Submitted
    <1> QED
      BY <1>1, <1>2, <1>3, <1>4, <1>5

\* Discussing and voting change an open proposal only, within its window.
LEMMA DiscussionKeeps ==
    ASSUME GovernanceInv, NEW id \in ProposalId, NEW m \in CthulhuId,
           \/ AddArgument(id, m)
           \/ SuggestAmendment(id, m)
           \/ \E c \in VoteChoice : CastVote(id, m, c)
    PROVE  GovernanceInv'
    <1> DEFINE p == proposals[id]
               q == proposals'[id]
    <1>0. /\ GovernanceType /\ ProposalsSound
          /\ HeadsSound
          /\ proposals \in [ProposalId -> Proposal \cup {NoProposal}]
          /\ now \in Nat
      BY DEF GovernanceInv, GovernanceType
    <1>1. OpenFor(id, m)
      BY DEF AddArgument, SuggestAmendment, CastVote
    <1>2. /\ p \in Proposal /\ p # NoProposal /\ p.status = "Open"
          /\ p.created_at <= now /\ now < p.deadline /\ m \in p.eligible_voters
          /\ SubmittedSound(p)
      BY <1>0, <1>1 DEF OpenFor, ProposalsSound, Submitted
    <1>3. UNCHANGED <<members, membership_history, proposal_membership_log,
                      constitution, agenda, now>>
      BY DEF AddArgument, SuggestAmendment, CastVote, membershipVars, headVars
    <1>4. /\ proposals' = [proposals EXCEPT ![id] = q]
          /\ q \in Proposal
          /\ q.status = "Open" /\ q.proposer = p.proposer
          /\ q.created_at = p.created_at /\ q.deadline = p.deadline
          /\ q.membership_revision = p.membership_revision
          /\ q.membership_binding_index = p.membership_binding_index
          /\ q.eligible_voters = p.eligible_voters
          /\ \A v \in CthulhuId :
                 q.votes[v] = p.votes[v] \/ (v = m /\ q.votes[v].cast_at = now)
      <2>1. CASE AddArgument(id, m)
        BY <1>0, <1>2, <2>1 DEF AddArgument, Proposal
      <2>2. CASE SuggestAmendment(id, m)
        BY <1>0, <1>2, <2>2 DEF SuggestAmendment, Proposal
      <2>3. CASE \E c \in VoteChoice : CastVote(id, m, c)
        <3>1. PICK c \in VoteChoice : CastVote(id, m, c)
          BY <2>3
        <3> DEFINE r == IF p.votes[m] = NoVote THEN 0 ELSE p.votes[m].revision + 1
                   vote == [choice |-> c, cast_at |-> now, revision |-> r]
        <3>2. p.votes[m] \in Vote \cup {NoVote} /\ r \in Nat
          BY <1>2 DEF Proposal, Vote
        <3>3. proposals' = [proposals EXCEPT ![id].votes[m] = vote]
          BY <3>1 DEF CastVote
        <3> HIDE DEF r
        <3>4. vote \in Vote /\ vote.cast_at = now
          BY <1>0, <3>2 DEF Vote
        <3>5. p.votes \in [CthulhuId -> Vote \cup {NoVote}]
          BY <1>2 DEF Proposal
        <3>6. q = [p EXCEPT !.votes = [p.votes EXCEPT ![m] = vote]]
          BY <1>0, <3>3
        <3> HIDE DEF vote
        <3>7. [p.votes EXCEPT ![m] = vote] \in [CthulhuId -> Vote \cup {NoVote}]
          BY <3>4, <3>5
        <3> QED
          BY <1>0, <1>2, <3>3, <3>4, <3>5, <3>6, <3>7 DEF Proposal
      <2> QED
        BY <2>1, <2>2, <2>3
    <1>5. SubmittedSound(q)
      BY <1>0, <1>2, <1>4 DEF SubmittedSound, VotesInOrder
    <1>6. /\ Submitted' = Submitted /\ MembersSound' /\ ProposalsSound' /\ LogSound'
          /\ proposals' \in [ProposalId -> Proposal \cup {NoProposal}]
      BY <1>2, <1>3, <1>4, <1>5, RewriteKeeps
    <1>7. GovernanceType'
      BY <1>0, <1>3, <1>6 DEF GovernanceType
    <1>8. HeadsSound'
      <2>1. \A x \in ProposalId : proposals'[x] = proposals[x]
               \/ (x = id /\ p.status = "Open" /\ q.status = "Open")
        BY <1>0, <1>2, <1>4
      <2>2. \A kind : \A x \in ProposalId : proposals'[x] = proposals[x]
               \/ ~(IsRatified(proposals, x, kind) \/ IsRatified(proposals', x, kind))
        BY <2>1 DEF IsRatified
      <2>3. /\ HeadSound(proposals', constitution, "Constitution")
            /\ HeadSound(proposals', agenda, "Agenda")
        BY <1>0, <2>2, HeadStays DEF HeadsSound
      <2> QED
        BY <1>3, <2>3, HeadsPrimed
    <1> QED
      BY <1>6, <1>7, <1>8 DEF GovernanceInv

\* A submission is bound to the membership of now, by the next entry of the log.
LEMMA SubmitKeeps ==
    ASSUME GovernanceInv, NEW id \in ProposalId, NEW m \in CthulhuId,
           NEW d \in Document, NEW t \in 0..MaxTime, Submit(id, m, d, t)
    PROVE  GovernanceInv'
    <1> DEFINE log == proposal_membership_log
               history == membership_history
               revision == Len(history) - 1
               entry == [proposal_id |-> id, membership_revision |-> revision]
               p == [proposer |-> m, document |-> d, created_at |-> now,
                     deadline |-> t, status |-> "Open",
                     membership_revision |-> revision,
                     membership_binding_index |-> Len(log),
                     eligible_voters |-> members, arguments |-> 0, amendments |-> 0,
                     votes |-> [v \in CthulhuId |-> NoVote]]
    <1>0. /\ GovernanceType /\ MembersSound /\ ProposalsSound /\ LogSound /\ HeadsSound
          /\ proposals \in [ProposalId -> Proposal \cup {NoProposal}]
          /\ log \in Seq([proposal_id: ProposalId, membership_revision: Nat])
          /\ history \in Seq(SUBSET CthulhuId)
          /\ members \in SUBSET CthulhuId
          /\ now \in Nat
      BY DEF GovernanceInv, GovernanceType
    <1>1. /\ proposals[id] = NoProposal
          /\ m \in members /\ t > now /\ t - now <= max_proposal_lifetime_seconds
          /\ log' = Append(log, entry)
          /\ proposals' = [proposals EXCEPT ![id] = p]
          /\ UNCHANGED <<members, membership_history, constitution, agenda, now>>
      BY DEF Submit, membershipVars, headVars
    <1>2. /\ Len(history) \in Nat /\ Len(history) >= 1 /\ Len(log) \in Nat
          /\ revision \in Nat /\ revision + 1 \in DOMAIN history
          /\ history[revision + 1] = members
      BY <1>0, LenProperties DEF MembersSound
    <1>3. p \in Proposal
      <2>1. t \in Nat
        BY GovernanceAssumption
      <2>2. [v \in CthulhuId |-> NoVote] \in [CthulhuId -> Vote \cup {NoVote}]
        OBVIOUS
      <2> HIDE DEF revision
      <2> QED
        BY <1>0, <1>2, <2>1, <2>2 DEF Proposal, ProposalStatus
    <1>4. /\ p # NoProposal
          /\ SubmittedSound(p)
      <2>1. p # NoProposal
        BY <1>3, GovernanceAssumption
      <2>2. /\ p.proposer \in p.eligible_voters /\ p.created_at < p.deadline
            /\ p.deadline - p.created_at <= max_proposal_lifetime_seconds
            /\ p.status # "Ratified" /\ \A v \in CthulhuId : p.votes[v] = NoVote
        BY <1>0, <1>1
      <2> QED
        BY <2>1, <2>2 DEF SubmittedSound, VotesInOrder
    <1>5. /\ p.membership_revision = revision
          /\ p.membership_binding_index = Len(log)
          /\ p.eligible_voters = members
          /\ p.status = "Open"
      OBVIOUS
    <1> HIDE DEF p
    <1>6. entry \in [proposal_id: ProposalId, membership_revision: Nat]
      BY <1>2
    <1>7. /\ entry.proposal_id = id
          /\ entry.membership_revision = revision
      OBVIOUS
    <1> HIDE DEF entry, revision
    <1>8. /\ log' \in Seq([proposal_id: ProposalId, membership_revision: Nat])
          /\ Len(log') = Len(log) + 1
          /\ DOMAIN log' = 1..(Len(log) + 1)
          /\ DOMAIN log = 1..Len(log)
          /\ \A k \in 1..Len(log) : log'[k] = log[k]
          /\ log'[Len(log) + 1] = entry
      BY <1>0, <1>1, <1>6, AppendProperties, LenProperties
    <1>9. /\ proposals' \in [ProposalId -> Proposal \cup {NoProposal}]
          /\ proposals'[id] = p
          /\ \A x \in ProposalId : x # id => proposals'[x] = proposals[x]
      BY <1>0, <1>1, <1>3
    <1>10. Submitted' = Submitted \cup {id} /\ id \notin Submitted
      BY <1>1, <1>4, <1>9 DEF Submitted
    <1>11. GovernanceType' /\ MembersSound'
      BY <1>0, <1>1, <1>8, <1>9 DEF GovernanceType, MembersSound
    <1>12. Binding(id, p, log', history)
      BY <1>2, <1>5, <1>7, <1>8 DEF Binding
    <1>13. ProposalsSound'
      <2> SUFFICES ASSUME NEW x \in Submitted'
                   PROVE  SubmittedSound(proposals[x])' /\ MembershipValid(x)'
        BY DEF ProposalsSound
      <2>1. x \in ProposalId
        BY DEF Submitted
      <2>2. SubmittedSound(proposals'[x]) /\ Binding(x, proposals'[x], log', history)
        <3>1. CASE x = id
          BY <1>4, <1>9, <1>12, <3>1
        <3>2. CASE x # id
          <4>1. x \in Submitted /\ proposals'[x] = proposals[x]
            BY <1>9, <1>10, <2>1, <3>2
          <4>2. SubmittedSound(proposals[x]) /\ Binding(x, proposals[x], log, history)
            BY <1>0, <4>1 DEF ProposalsSound, MembershipValid, Binding
          <4>3. Extends(log', log) /\ Extends(history, history)
            BY <1>2, <1>8 DEF Extends
          <4>4. Binding(x, proposals[x], log', history)
            BY <1>0, <1>8, <4>2, <4>3, BindingStays
          <4> QED
            BY <4>1, <4>2, <4>4
        <3> QED
          BY <3>1, <3>2
      <2>3. SubmittedSound(proposals[x])'
        BY <2>2 DEF SubmittedSound, VotesInOrder, QuorumReached, Approved, Participating,
                    NonAbstaining, Support, VotersFor, QuorumNeeded, CeilBps, Threshold
      <2>4. MembershipValid(x)'
        BY <1>1, <2>2 DEF MembershipValid, Binding
      <2> QED
        BY <2>3, <2>4
    <1>14. LogSound'
      <2>1. IsFiniteSet(Submitted') /\ Cardinality(Submitted') = Cardinality(Submitted) + 1
        BY <1>0, <1>10, FS_AddElement DEF LogSound
      <2>2. Len(log') = Cardinality(Submitted')
        BY <1>0, <1>8, <2>1 DEF LogSound
      <2>3. \A k \in DOMAIN log' :
                LET b == log'[k] IN
                /\ b.proposal_id \in Submitted'
                /\ proposals'[b.proposal_id].membership_revision = b.membership_revision
                /\ proposals'[b.proposal_id].membership_binding_index = k - 1
        <3> SUFFICES ASSUME NEW k \in DOMAIN log'
                     PROVE  LET b == log'[k] IN
                            /\ b.proposal_id \in Submitted'
                            /\ proposals'[b.proposal_id].membership_revision = b.membership_revision
                            /\ proposals'[b.proposal_id].membership_binding_index = k - 1
          OBVIOUS
        <3>1. CASE k \in 1..Len(log)
          <4>1. /\ log'[k] = log[k]
                /\ log[k].proposal_id \in Submitted
                /\ proposals[log[k].proposal_id].membership_revision
                       = log[k].membership_revision
                /\ proposals[log[k].proposal_id].membership_binding_index = k - 1
            BY <1>0, <1>8, <3>1 DEF LogSound
          <4>2. proposals'[log[k].proposal_id] = proposals[log[k].proposal_id]
            BY <1>9, <1>10, <4>1 DEF Submitted
          <4> QED
            BY <1>10, <4>1, <4>2
        <3>2. CASE k = Len(log) + 1
          BY <1>2, <1>5, <1>7, <1>8, <1>9, <1>10, <3>2
        <3> QED
          BY <1>2, <1>8, <3>1, <3>2
      <2> QED
        BY <2>1, <2>2, <2>3 DEF LogSound
    <1>15. HeadsSound'
      <2>1. \A kind : \A x \in ProposalId : proposals'[x] = proposals[x]
               \/ ~(IsRatified(proposals, x, kind) \/ IsRatified(proposals', x, kind))
        BY <1>1, <1>5, <1>9 DEF IsRatified
      <2>2. /\ HeadSound(proposals', constitution, "Constitution")
            /\ HeadSound(proposals', agenda, "Agenda")
        BY <1>0, <2>1, HeadStays DEF HeadsSound
      <2> QED
        BY <1>1, <2>2, HeadsPrimed
    <1> QED
      BY <1>11, <1>13, <1>14, <1>15 DEF GovernanceInv

\* finalize ratifies only with the evidence, and advances only the head that the
\* document continues.
LEMMA FinalizeKeeps ==
    ASSUME GovernanceInv, NEW id \in ProposalId, Finalize(id)
    PROVE  GovernanceInv'
    <1> DEFINE p == proposals[id]
               outcome == Outcome(p)
               q == [p EXCEPT !.status = outcome]
               kind == p.document.kind
    <1>0. /\ GovernanceType /\ ProposalsSound /\ HeadsSound
          /\ proposals \in [ProposalId -> Proposal \cup {NoProposal}]
          /\ constitution \in DocumentHead \cup {NoHead}
          /\ agenda \in DocumentHead \cup {NoHead}
      BY DEF GovernanceInv, GovernanceType
    <1>1. /\ p # NoProposal /\ p.status = "Open" /\ p \in Proposal /\ SubmittedSound(p)
          /\ p.document \in Document
      BY <1>0 DEF Finalize, ProposalsSound, Submitted, Proposal
    <1>2. /\ proposals' = [proposals EXCEPT ![id] = q]
          /\ constitution' = IF outcome = "Ratified" /\ kind = "Constitution"
                             THEN HeadOf(id) ELSE constitution
          /\ agenda' = IF outcome = "Ratified" /\ kind = "Agenda"
                       THEN HeadOf(id) ELSE agenda
          /\ UNCHANGED <<members, membership_history, proposal_membership_log, now>>
      BY <1>0 DEF Finalize, membershipVars
    <1>3. /\ outcome \in ProposalStatus
          /\ outcome = "Ratified" => QuorumReached(p) /\ Approved(p) /\ DocumentFits(p.document)
      BY DEF Outcome, ProposalStatus
    <1> HIDE DEF outcome
    <1>4. /\ q \in Proposal /\ q # NoProposal /\ q.status = outcome
          /\ q.votes = p.votes /\ q.eligible_voters = p.eligible_voters
          /\ q.document = p.document /\ q.proposer = p.proposer
          /\ q.created_at = p.created_at /\ q.deadline = p.deadline
          /\ q.membership_revision = p.membership_revision
          /\ q.membership_binding_index = p.membership_binding_index
      <2>1. NoProposal \notin Proposal
        BY GovernanceAssumption
      <2>2. q \in Proposal
        BY <1>1, <1>3 DEF Proposal
      <2>3. q # NoProposal
        BY <2>1, <2>2
      <2> QED
        BY <1>1, <2>2, <2>3 DEF Proposal
    <1> HIDE DEF q
    <1>5. SubmittedSound(q)
      <2>1. outcome = "Ratified" => QuorumReached(q) /\ Approved(q)
        BY <1>3, <1>4, SameTally
      <2> QED
        BY <1>1, <1>4, <2>1 DEF SubmittedSound, VotesInOrder
    <1>6. /\ Submitted' = Submitted /\ MembersSound' /\ ProposalsSound' /\ LogSound'
          /\ proposals' \in [ProposalId -> Proposal \cup {NoProposal}]
      BY <1>1, <1>2, <1>4, <1>5, RewriteKeeps
    <1>7. HeadOf(id) \in DocumentHead
      <2>1. p.document.version \in Nat /\ p.document.hash \in {d.hash : d \in Document}
        BY <1>1, GovernanceAssumption
      <2> QED
        BY <2>1 DEF HeadOf, DocumentHead
    <1>8. GovernanceType'
      BY <1>0, <1>2, <1>6, <1>7 DEF GovernanceType
    <1>9. /\ proposals'[id] = q
          /\ \A x \in ProposalId \ {id} : proposals'[x] = proposals[x]
          /\ \A k : ~IsRatified(proposals, id, k)
          /\ \A k : IsRatified(proposals', id, k) <=> (outcome = "Ratified" /\ k = kind)
      BY <1>0, <1>1, <1>2, <1>4 DEF IsRatified
    <1>10. ASSUME NEW head \in DocumentHead \cup {NoHead}, NEW k,
                  HeadSound(proposals, head, k),
                  outcome = "Ratified" /\ k = kind => LineageMatches(head, p.document)
           PROVE  HeadSound(proposals',
                            IF outcome = "Ratified" /\ kind = k THEN HeadOf(id) ELSE head, k)
      <2>1. CASE outcome = "Ratified" /\ kind = k
        <3>1. /\ HeadOf(id).version = q.document.version
              /\ HeadOf(id).hash = q.document.hash
              /\ HeadOf(id).proposal_id = id
              /\ HeadOf(id) # NoHead
          BY <1>4, <1>7, GovernanceAssumption DEF HeadOf
        <3>2. IsRatified(proposals', id, k) /\ ~IsRatified(proposals, id, k)
          BY <1>9, <2>1
        <3>3. LineageMatches(head, proposals'[id].document) /\ proposals'[id] \in Proposal
          BY <1>4, <1>9, <1>10, <2>1
        <3>4. HeadSound(proposals', HeadOf(id), k)
          BY <1>0, <1>9, <1>10, <3>1, <3>2, <3>3, HeadAdvances
        <3> QED
          BY <2>1, <3>4
      <2>2. CASE ~(outcome = "Ratified" /\ kind = k)
        <3>1. \A x \in ProposalId : proposals'[x] = proposals[x]
                 \/ ~(IsRatified(proposals, x, k) \/ IsRatified(proposals', x, k))
          BY <1>9, <2>2
        <3>2. HeadSound(proposals', head, k)
          BY <1>10, <3>1, HeadStays
        <3> QED
          BY <2>2, <3>2
      <2> QED
        BY <2>1, <2>2
    <1>11. HeadsSound'
      <2>1. /\ outcome = "Ratified" /\ kind = "Constitution"
               => LineageMatches(constitution, p.document)
            /\ outcome = "Ratified" /\ kind = "Agenda" => LineageMatches(agenda, p.document)
        BY <1>3 DEF DocumentFits
      <2>2. HeadSound(proposals, constitution, "Constitution")
            /\ HeadSound(proposals, agenda, "Agenda")
        BY <1>0 DEF HeadsSound
      <2>3. HeadSound(proposals', constitution', "Constitution")
        BY <1>0, <1>2, <1>10, <2>1, <2>2
      <2>4. HeadSound(proposals', agenda', "Agenda")
        BY <1>0, <1>2, <1>10, <2>1, <2>2
      <2> QED
        BY <2>3, <2>4, HeadsPrimed
    <1> QED
      BY <1>6, <1>8, <1>11 DEF GovernanceInv

\* The clock is not among what a restart checks.
LEMMA ClockKeeps ==
    ASSUME GovernanceInv, \/ \E t \in 0..MaxTime : SetClock(t)
                          \/ UNCHANGED vars
    PROVE  GovernanceInv'
    <1>1. /\ UNCHANGED <<members, membership_history, proposal_membership_log, proposals,
                         constitution, agenda>>
          /\ now' \in Nat
      BY GovernanceAssumption DEF SetClock, vars, membershipVars, headVars, GovernanceInv,
                                  GovernanceType
    <1>2. GovernanceType' /\ MembersSound'
      BY <1>1 DEF GovernanceInv, GovernanceType, MembersSound
    <1>3. Submitted' = Submitted
      BY <1>1 DEF Submitted
    <1>4. ProposalsSound'
      <2> SUFFICES ASSUME NEW x \in Submitted
                   PROVE  SubmittedSound(proposals[x])' /\ MembershipValid(x)'
        BY <1>3 DEF ProposalsSound
      <2>1. SubmittedSound(proposals[x]) /\ MembershipValid(x)
        BY DEF GovernanceInv, ProposalsSound
      <2> QED
        BY <1>1, <2>1 DEF SubmittedSound, VotesInOrder, QuorumReached, Approved,
                          Participating, NonAbstaining, Support, VotersFor, QuorumNeeded,
                          CeilBps, Threshold, MembershipValid
    <1>5. LogSound' /\ HeadsSound'
      BY <1>1, <1>3 DEF GovernanceInv, LogSound, HeadsSound, HeadSound, IsRatified
    <1> QED
      BY <1>2, <1>4, <1>5 DEF GovernanceInv

-----------------------------------------------------------------------------
(* Results. *)

\* Every reachable state is a governance engine whose proposals are bound to the
\* membership they opened under, whose ratified documents have their evidence and
\* whose heads are the newest of them (governance.rs, validate_loaded_state).
THEOREM GovernanceConsistent == Spec => []GovernanceInv
    <1>1. Init => GovernanceInv
      <2> SUFFICES ASSUME Init PROVE GovernanceInv
        OBVIOUS
      <2>1. /\ members \in SUBSET CthulhuId /\ members # {}
            /\ membership_history = <<members>>
            /\ proposal_membership_log = <<>>
            /\ proposals = [id \in ProposalId |-> NoProposal]
            /\ constitution = NoHead /\ agenda = NoHead /\ now = 0
        <3>1. members \in Genesis
          BY DEF Init
        <3>2. Genesis \subseteq SUBSET CthulhuId /\ {} \notin Genesis
          BY GovernanceAssumption
        <3>3. members # {} /\ members \in SUBSET CthulhuId
          BY <3>1, <3>2
        <3> QED
          BY <3>3 DEF Init
      <2>2. Submitted = {}
        BY <2>1 DEF Submitted
      <2>3. GovernanceType
        BY <2>1, EmptySeq DEF GovernanceType
      <2>4. MembersSound
        BY <2>1 DEF MembersSound
      <2>5. ProposalsSound
        BY <2>2 DEF ProposalsSound
      <2>6. LogSound
        BY <2>1, <2>2, FS_EmptySet DEF LogSound
      <2>7. HeadsSound
        BY <2>1 DEF HeadsSound, HeadSound, IsRatified
      <2> QED
        BY <2>3, <2>4, <2>5, <2>6, <2>7 DEF GovernanceInv
    <1>2. GovernanceInv /\ [Next]_vars => GovernanceInv'
      <2> SUFFICES ASSUME GovernanceInv, [Next]_vars PROVE GovernanceInv'
        OBVIOUS
      <2>1. CASE \E m \in CthulhuId : AddMember(m) \/ RemoveMember(m)
        BY <2>1, MembershipKeeps
      <2>2. CASE \E id \in ProposalId, m \in CthulhuId, d \in Document, t \in 0..MaxTime :
                     Submit(id, m, d, t)
        BY <2>2, SubmitKeeps
      <2>3. CASE \E id \in ProposalId, m \in CthulhuId :
                     \/ AddArgument(id, m)
                     \/ SuggestAmendment(id, m)
                     \/ \E c \in VoteChoice : CastVote(id, m, c)
        BY <2>3, DiscussionKeeps
      <2>4. CASE \E id \in ProposalId : Finalize(id)
        BY <2>4, FinalizeKeeps
      <2>5. CASE (\E t \in 0..MaxTime : SetClock(t)) \/ UNCHANGED vars
        BY <2>5, ClockKeeps
      <2> QED
        BY <2>1, <2>2, <2>3, <2>4, <2>5 DEF Next
    <1> QED
      BY <1>1, <1>2, PTL DEF Spec

\* Type correctness of the engine's state.
THEOREM GovernanceTypeCorrect == Spec => []GovernanceType
    BY GovernanceConsistent, PTL DEF GovernanceInv

\* A decision stands (open_proposal_mut, finalize): no call touches a decided
\* proposal, and every ratified one has, in every state, the evidence that
\* ratified it, although members have come and gone since.
THEOREM DecisionsStandHolds == Spec => DecisionsStand
    <1>1. GovernanceInv => RatifiedWithEvidence
      BY DEF GovernanceInv, ProposalsSound, SubmittedSound, RatifiedWithEvidence, ValidEvidence
    <1>2. GovernanceInv /\ [Next]_vars =>
              [\A id \in Submitted : proposals[id].status # "Open" =>
                   proposals'[id] = proposals[id]]_vars
      <2> SUFFICES ASSUME GovernanceInv, Next, NEW id \in Submitted,
                          proposals[id].status # "Open"
                   PROVE  proposals'[id] = proposals[id]
        BY DEF Submitted
      <2>1. id \in ProposalId /\ proposals[id] # NoProposal
        BY DEF Submitted
      <2>2. proposals \in [ProposalId -> Proposal \cup {NoProposal}]
        BY DEF GovernanceInv, GovernanceType
      <2>3. CASE \E x \in ProposalId, m \in CthulhuId, d \in Document, t \in 0..MaxTime :
                     Submit(x, m, d, t)
        <3>1. PICK x \in ProposalId, m \in CthulhuId, d \in Document, t \in 0..MaxTime :
                     Submit(x, m, d, t)
          BY <2>3
        <3>2. x # id
          BY <2>1, <3>1 DEF Submit
        <3> QED
          BY <2>1, <2>2, <3>1, <3>2 DEF Submit
      <2>4. CASE \E x \in ProposalId, m \in CthulhuId :
                     \/ AddArgument(x, m)
                     \/ SuggestAmendment(x, m)
                     \/ \E c \in VoteChoice : CastVote(x, m, c)
        <3>1. PICK x \in ProposalId, m \in CthulhuId :
                     \/ AddArgument(x, m)
                     \/ SuggestAmendment(x, m)
                     \/ \E c \in VoteChoice : CastVote(x, m, c)
          BY <2>4
        <3>2. x # id
          BY <3>1 DEF AddArgument, SuggestAmendment, CastVote, OpenFor
        <3> QED
          BY <2>1, <2>2, <3>1, <3>2 DEF AddArgument, SuggestAmendment, CastVote
      <2>5. CASE \E x \in ProposalId : Finalize(x)
        <3>1. PICK x \in ProposalId : Finalize(x)
          BY <2>5
        <3>2. x # id
          BY <3>1 DEF Finalize
        <3> QED
          BY <2>1, <2>2, <3>1, <3>2 DEF Finalize
      <2>6. CASE (\E m \in CthulhuId : AddMember(m) \/ RemoveMember(m))
                 \/ (\E t \in 0..MaxTime : SetClock(t))
        BY <2>6 DEF AddMember, RemoveMember, SetClock
      <2> QED
        BY <2>3, <2>4, <2>5, <2>6 DEF Next
    <1> QED
      BY <1>1, <1>2, GovernanceConsistent, PTL DEF Spec, DecisionsStand, DecidedForGood

\* What a restart reads (validate_loaded_state) is accepted at every time at
\* which the deadlines of the decided proposals have passed, and the heads are
\* the newest of the ratified documents, one for each version.
THEOREM HeadsReloadHolds == Spec => []HeadsReload
    <1>1. GovernanceInv => OneHeadPerVersion
      <2> SUFFICES ASSUME GovernanceInv PROVE OneHeadPerVersion
        OBVIOUS
      <2>1. /\ HeadSound(proposals, constitution, "Constitution")
            /\ HeadSound(proposals, agenda, "Agenda")
        BY DEF GovernanceInv, HeadsSound
      <2>2. \A x \in Submitted : proposals[x].status = "Ratified" =>
                x \in ProposalId /\ IsRatified(proposals, x, proposals[x].document.kind)
        BY DEF Submitted, IsRatified
      <2> QED
        BY <2>1, <2>2 DEF OneHeadPerVersion, HeadSound
    <1>2. GovernanceInv => Reloads
      <2> SUFFICES ASSUME GovernanceInv, NEW time \in 0..MaxTime,
                          \A id \in Submitted : proposals[id].status # "Open" =>
                              proposals[id].deadline <= time
                   PROVE  ValidateLoadedState(time)
        BY DEF Reloads
      <2>1. /\ members # {}
            /\ membership_history[Len(membership_history)] = members
            /\ Len(proposal_membership_log) = Cardinality(Submitted)
        BY DEF GovernanceInv, MembersSound, LogSound
      <2>2. \A k \in DOMAIN proposal_membership_log :
                LET b == proposal_membership_log[k] IN
                /\ b.proposal_id \in Submitted
                /\ proposals[b.proposal_id].membership_revision = b.membership_revision
                /\ proposals[b.proposal_id].membership_binding_index = k - 1
        BY DEF GovernanceInv, LogSound
      <2>3. \A id \in Submitted :
                /\ SubmittedSound(proposals[id]) /\ MembershipValid(id)
                /\ proposals[id].status = "Ratified" => ValidEvidence(id)
        BY DEF GovernanceInv, ProposalsSound, SubmittedSound, ValidEvidence
      <2>4. \A head \in {constitution, agenda} \ {NoHead} :
                /\ proposals[head.proposal_id].status = "Ratified"
                /\ proposals[head.proposal_id].document.hash = head.hash
        BY DEF GovernanceInv, HeadsSound, HeadSound, IsRatified
      <2> QED
        BY <2>1, <2>2, <2>3, <2>4 DEF ValidateLoadedState, SubmittedSound
    <1> QED
      BY <1>1, <1>2, GovernanceConsistent, PTL DEF HeadsReload
=============================================================================
