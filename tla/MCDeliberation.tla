--------------------------- MODULE MCDeliberation ---------------------------
(***************************************************************************)
(* Small instances of how decisions are taken and spread: the governance   *)
(* engine (part "governance"), the propagation engine twice, once for the  *)
(* branches ("hops") and once for credit and revocation ("credit"), and    *)
(* the token-weighted ballot box ("ballot").  A behaviour exercises one    *)
(* part and leaves the others in an initial state.                         *)
(***************************************************************************)
EXTENDS Governance

CONSTANTS root, p1, p2, i1, i2, k1, k2, o1, o2, None

VARIABLES
    part,
    campaigns, items, acknowledgements, candidate_profiles, local_rules,
    local_policy_events, outcomes, used_acknowledgements, credits, clock,
    policy, ballots, participating_holding_bps

-----------------------------------------------------------------------------
(* Governance: one document of every kind, and a successor of the Agenda.  *)
(* Competing proposals carry the same document twice.                      *)

Doc(kind, version, parent, hash) ==
    [kind |-> kind, version |-> version, parent |-> parent, hash |-> hash]

Documents ==
    {Doc("Agenda", 1, "none", "a1"), Doc("Agenda", 2, "a1", "a2"),
     Doc("Constitution", 1, "none", "c1"), Doc("Strategy", 0, "a1", "s"),
     Doc("Action", 0, "a1", "x")}

-----------------------------------------------------------------------------
(* Propagation. *)

ProfileOf(trusted, suits) ==
    [trusted |-> trusted, council_member |-> TRUE, suits |-> suits]

\* One profile that passes every strategy, and one that passes none.
Insider == ProfileOf(TRUE, TRUE)
Outsider == [trusted |-> FALSE, council_member |-> FALSE, suits |-> FALSE]

PolicyOf(depth, fan_out, rate, window) ==
    [max_depth |-> depth, max_fan_out |-> fan_out, per_sender_rate_limit |-> rate,
     rate_window_seconds |-> window, members_only |-> FALSE]

\* Two hops, two offers a sender; and one offer in two seconds.
TwoHops == PolicyOf(2, 2, 2, 1)
Slow == PolicyOf(1, 2, 1, 2)

\* The strategy that looks at a whole branch, and one that looks at the recipient.
Strategies == {[kind |-> k, depth |-> 1] : k \in {"TrustedBranchOnly", "Targeted"}}

\* Profiles, opt-outs and blocks change between the hops of every strategy, under
\* a clock that may step back.
Hops ==
    INSTANCE Propagation WITH
        CthulhuId <- {root, p1, p2}, CampaignId <- {"c"}, ItemId <- {i1, i2},
        AcknowledgementId <- {}, OutcomeId <- {},
        Profile <- {Insider, Outsider}, Policy <- {TwoHops}, Strategy <- Strategies,
        Payload <- {"Invitation"}, ProposedPoints <- {2},
        MAX_CAMPAIGNS <- 1, MAX_ITEMS <- 3, MAX_ACKNOWLEDGEMENTS <- 2,
        MAX_CANDIDATES <- 3, MAX_LOCAL_RULES <- 2, MAX_LOCAL_POLICY_EVENTS <- 2,
        MAX_DEPTH <- 2, MAX_CAMPAIGN_LIFETIME_SECONDS <- 2,
        MAX_CREDIT_PER_OUTCOME <- 2, MAX_CREDIT_PER_CTHULHU_PER_CAMPAIGN <- 3,
        MAX_TOTAL_CAMPAIGN_CREDIT <- 3,
        MaxTime <- 1, MonotoneClock <- FALSE, now <- clock

\* Answers, acknowledgements and claims over three instants, no local rules.
Credit ==
    INSTANCE Propagation WITH
        CthulhuId <- {root, p1, p2}, CampaignId <- {"c"}, ItemId <- {i1, i2},
        AcknowledgementId <- {k1, k2}, OutcomeId <- {o1, o2},
        Profile <- {Insider}, Policy <- {TwoHops, Slow},
        Strategy <- {[kind |-> k, depth |-> 1] : k \in {"BreadthFirst", "DepthLimited"}},
        Payload <- {"Invitation"}, ProposedPoints <- {1, 5},
        MAX_CAMPAIGNS <- 1, MAX_ITEMS <- 3, MAX_ACKNOWLEDGEMENTS <- 2,
        MAX_CANDIDATES <- 3, MAX_LOCAL_RULES <- 2, MAX_LOCAL_POLICY_EVENTS <- 0,
        MAX_DEPTH <- 2, MAX_CAMPAIGN_LIFETIME_SECONDS <- 2,
        MAX_CREDIT_PER_OUTCOME <- 2, MAX_CREDIT_PER_CTHULHU_PER_CAMPAIGN <- 3,
        MAX_TOTAL_CAMPAIGN_CREDIT <- 3,
        MaxTime <- 2, MonotoneClock <- TRUE, now <- clock

-----------------------------------------------------------------------------
(* The ballot box: quorum, threshold and multipliers on both sides of a    *)
(* rounding, and a multiplier that saturates.                              *)

Policies ==
    [eligible : {9999, 10000}, quorum_bps : {0, 5001}, approval_bps : {0, 5001, 6667},
     nature_tier_scale_bps : {0, 3333, 10000}, minimum_tier : {"unproven", "initiate"},
     multipliers : {[unproven |-> 5000, initiate |-> 7501, whale |-> 65535]}]

Box ==
    INSTANCE TokenGov WITH
        Voter <- {1, 2}, Weight <- {0, 3333, 5000, 10000}, Policy <- Policies

ASSUME DeliberationAssumption ==
    /\ Hops!PropagationParameters
    /\ Credit!PropagationParameters
    /\ Box!TokenGovParameters

-----------------------------------------------------------------------------
propagationVars ==
    <<campaigns, items, acknowledgements, candidate_profiles, local_rules,
      local_policy_events, outcomes, used_acknowledgements, credits, clock>>

ballotVars == <<policy, ballots, participating_holding_bps>>

PartsInit ==
    /\ part \in {"governance", "hops", "credit", "ballot"}
    /\ Init /\ (part = "governance" \/ members = CthulhuId)
    /\ IF part = "credit" THEN Credit!Init ELSE Hops!Init
    /\ Box!Init /\ (part = "ballot" \/ policy = CHOOSE p \in Policies : TRUE)

PartsNext ==
    /\ UNCHANGED part
    /\ \/ part = "governance" /\ Next /\ UNCHANGED <<propagationVars, ballotVars>>
       \/ part = "hops" /\ Hops!Next /\ UNCHANGED <<vars, ballotVars>>
       \/ part = "credit" /\ Credit!Next /\ UNCHANGED <<vars, ballotVars>>
       \/ part = "ballot" /\ Box!Next /\ UNCHANGED <<vars, propagationVars>>

PartsSpec == PartsInit /\ [][PartsNext]_<<vars, propagationVars, ballotVars, part>>

\* Which identifiers proposals, their first proposer, items, acknowledgements,
\* outcomes, roots and first recipients take never matters: they are taken in
\* one order, which stands for the others.
IdentifiersInOrder ==
    /\ Submitted = 1..Cardinality(Submitted)
    /\ 1 \in Submitted /\ membership_history[1] = CthulhuId =>
           proposals[1].proposer = CHOOSE m \in CthulhuId : TRUE
    /\ items[i2] # None => items[i1] # None
    /\ items[i1] # None => items[i1].recipient = p1
    /\ campaigns["c"] # None => campaigns["c"].root = root
    /\ part = "credit" =>
           /\ acknowledgements[k2] # None => acknowledgements[k1] # None
           /\ outcomes[o2] # None => outcomes[o1] # None

\* Bound: only the first proposal is argued about, amended and abstained from.
DiscussionBound ==
    2 \in Submitted =>
        /\ proposals[2].arguments = 0
        /\ proposals[2].amendments = 0
        /\ VotersFor(proposals[2], {"Abstain"}) = {}

-----------------------------------------------------------------------------
(* Properties *)

\* Rounding and saturation decide nothing: a ballot box approves exactly what
\* the unrounded turnout and the unrounded weighed yes share approve.
DecisionExact == part = "ballot" => Box!DecisionExact

\* What a restart reads of a campaign it accepts: every branch is an unbroken,
\* accepted path within the campaign's limits, the logged rules replay to those
\* in force and allowed every hop at its time, and exactly the acknowledged
\* items have their one acknowledgement.
BranchesReload ==
    /\ part = "hops" => Hops!BranchesStayValid /\ Hops!PolicyHistoryReplays
    /\ part = "credit" => Credit!BranchesStayValid /\ Credit!AcknowledgementsReload

\* A campaign stays within what its root allowed: no sender exceeds its fan-out or
\* its rate in any window, credit is backed by distinct acknowledgements and
\* capped, and once revoked nothing of it is sent, answered or credited again.
CampaignBounded ==
    /\ [](part = "credit" => Credit!SendersBounded /\ Credit!CreditBacked)
    /\ Credit!RevokedQuiet
=============================================================================
