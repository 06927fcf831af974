---------------------------- MODULE Propagation -----------------------------
(***************************************************************************)
(* Bounded referral propagation (cthuwu-council/src/propagation.rs).       *)
(*                                                                         *)
(* The root of a campaign offers it to other principals; whoever accepts   *)
(* may forward it, so the items form a tree whose every branch carries the *)
(* hops it came by.  Recipients acknowledge useful outcomes once, and the  *)
(* direct sender is credited for them.  Hashes (payload, provenance chain, *)
(* profile) are the values they are taken of; the rate records, which      *)
(* repeat the items one for one, are the items themselves; the strategies  *)
(* that test a profile for capability, place or reputation are one.        *)
(***************************************************************************)
EXTENDS Integers, Sequences, FiniteSets, FiniteSetsExt

CONSTANTS
    CthulhuId, CampaignId, ItemId, AcknowledgementId, OutcomeId,
    Profile,        \* records [trusted, council_member, suits], all BOOLEAN
    Policy,         \* records [max_depth, max_fan_out, per_sender_rate_limit,
                    \*          rate_window_seconds, members_only]
    Strategy,       \* records [kind, depth]
    Payload,        \* a subset of PayloadKind
    ProposedPoints, \* what an incentive model may propose for an outcome
    MAX_CAMPAIGNS, MAX_ITEMS, MAX_ACKNOWLEDGEMENTS, MAX_CANDIDATES,
    MAX_LOCAL_RULES, MAX_LOCAL_POLICY_EVENTS,
    MAX_DEPTH, MAX_CAMPAIGN_LIFETIME_SECONDS,
    MAX_CREDIT_PER_OUTCOME, MAX_CREDIT_PER_CTHULHU_PER_CAMPAIGN,
    MAX_TOTAL_CAMPAIGN_CREDIT,
    MaxTime,        \* bound of the clock
    MonotoneClock,  \* TRUE: the clock never steps back
    None

PayloadKind == {"Invitation", "Capability", "Resource", "Summary"}

StrategyKind == {"BreadthFirst", "DepthLimited", "TrustedBranchOnly", "Targeted"}

ContributionOutcome ==
    {"SuccessfulIntroduction", "UsefulCapabilityReferral",
     "AcknowledgedDownstreamDelivery", "CompletedResourceMatch"}

ItemStatus == {"Pending", "Accepted", "Rejected", "Acknowledged"}

Campaign ==
    [root: CthulhuId, payload: Payload, strategy: Strategy, policy: Policy,
     created_at: Nat, expires_at: Nat, revoked_at: Nat \cup {None}]

Hop ==
    [item_id: ItemId, sender: CthulhuId, recipient: CthulhuId, sent_at: Nat,
     local_policy_generation: Nat, sender_profile: Profile, recipient_profile: Profile]

Item ==
    [campaign_id: CampaignId, parent_item_id: ItemId \cup {None}, sender: CthulhuId,
     recipient: CthulhuId, created_at: Nat, hops: Seq(Hop), status: ItemStatus]

Acknowledgement ==
    [item_id: ItemId, actor: CthulhuId, outcome: ContributionOutcome, acknowledged_at: Nat]

OutcomeClaim ==
    [item_id: ItemId, acknowledgement_id: AcknowledgementId, occurred_at: Nat]

Credit == [points: Nat, credited_outcomes: Nat]

NoCredit == [points |-> 0, credited_outcomes |-> 0]

\* A rule is <<c>>, "c opted out", or <<a, b>>, "a blocks b".
LocalRule ==
    {<<c>> : c \in CthulhuId} \cup {r \in CthulhuId \X CthulhuId : r[1] # r[2]}

\* What the engine asks of its parameters; the module that instantiates it assumes it.
PropagationParameters ==
    /\ Profile \subseteq [trusted: BOOLEAN, council_member: BOOLEAN, suits: BOOLEAN]
    /\ Policy \subseteq [max_depth: 1..MAX_DEPTH, max_fan_out: Nat \ {0},
                         per_sender_rate_limit: Nat \ {0},
                         rate_window_seconds: Nat \ {0}, members_only: BOOLEAN]
    /\ Strategy \subseteq [kind: StrategyKind, depth: 1..MAX_DEPTH]
    /\ Payload \subseteq PayloadKind
    /\ ProposedPoints \subseteq Nat
    /\ {MAX_CREDIT_PER_OUTCOME, MAX_CREDIT_PER_CTHULHU_PER_CAMPAIGN,
        MAX_TOTAL_CAMPAIGN_CREDIT, MaxTime} \subseteq Nat
    /\ MonotoneClock \in BOOLEAN

VARIABLES
    campaigns,              \* CampaignId -> Campaign or None
    items,                  \* ItemId -> Item or None
    acknowledgements,       \* AcknowledgementId -> Acknowledgement or None
    candidate_profiles,     \* CthulhuId -> Profile or None
    local_rules,            \* opted_out and blocked: the LocalRules in force
    local_policy_events,    \* sequence of [rule, enabled]; its length is the generation
    outcomes,               \* OutcomeId -> OutcomeClaim or None
    used_acknowledgements,
    credits,                \* CampaignId -> CthulhuId -> Credit
    now

creditVars == <<outcomes, used_acknowledgements, credits>>

policyVars == <<candidate_profiles, local_rules, local_policy_events>>

vars == <<campaigns, items, acknowledgements, policyVars, creditVars, now>>

Sent == {i \in ItemId : items[i] # None}

Acked == {a \in AcknowledgementId : acknowledgements[a] # None}

Claimed == {o \in OutcomeId : outcomes[o] # None}

Generation == Len(local_policy_events)

Clamp(a, b) == IF a <= b THEN a ELSE b

-----------------------------------------------------------------------------
\* Everyone a chain of hops went through.
OnPath(hops) == UNION {{hops[k].sender, hops[k].recipient} : k \in DOMAIN hops}

HopsOf(parent) == IF parent = None THEN <<>> ELSE items[parent].hops

\* Seeded fault: an offer that was only received may be forwarded.
StrictHopUnanswered(c, parent, sender) ==
    /\ c.revoked_at = None
    /\ c.created_at <= now
    /\ now < c.expires_at
    /\ sender = (IF parent = None THEN c.root ELSE items[parent].recipient)

\* StrictHopValidator::validate_hop
StrictHop(c, parent, sender) ==
    /\ c.revoked_at = None
    /\ c.created_at <= now
    /\ now < c.expires_at
    /\ sender = (IF parent = None THEN c.root ELSE items[parent].recipient)
    /\ parent # None => items[parent].status \in {"Accepted", "Acknowledged"}

\* The opt-out and block checks, for rules in force at some generation.
RulesAllow(rules, hops, sender, recipient) ==
    /\ <<sender>> \notin rules
    /\ <<recipient>> \notin rules
    /\ <<sender, recipient>> \notin rules
    /\ \A c \in OnPath(hops) \cup {sender} : <<recipient, c>> \notin rules

\* strategy_allows
StrategyAllows(strategy, profile, depth) ==
    CASE strategy.kind = "BreadthFirst" -> TRUE
      [] strategy.kind = "DepthLimited" -> depth <= strategy.depth
      [] strategy.kind = "TrustedBranchOnly" -> profile.trusted
      [] strategy.kind = "Targeted" -> profile.suits

\* validate_depth_and_strategy
DepthAndStrategy(c, hops, recipient) ==
    LET depth == Len(hops) + 1
        profile == candidate_profiles[recipient]
    IN  /\ depth <= c.policy.max_depth
        /\ recipient \notin OnPath(hops)
        /\ profile # None
        /\ c.policy.members_only => profile.council_member
        /\ c.strategy.kind = "TrustedBranchOnly" =>
               \A p \in OnPath(hops) : /\ candidate_profiles[p] # None
                                       /\ candidate_profiles[p].trusted
        /\ StrategyAllows(c.strategy, profile, depth)

SentBy(c, sender) == {i \in Sent : items[i].campaign_id = c /\ items[i].sender = sender}

\* Seeded fault: the window counts one second too few.
RateAllowsShortWindow(c, sender) ==
    LET policy == campaigns[c].policy
        recent == {i \in SentBy(c, sender) :
                      /\ items[i].created_at > now - policy.rate_window_seconds + 1
                      /\ items[i].created_at <= now}
    IN  /\ Cardinality(SentBy(c, sender)) < policy.max_fan_out
        /\ Cardinality(recent) < policy.per_sender_rate_limit

\* Fan-out and rate of one sender in one campaign.
RateAllows(c, sender) ==
    LET policy == campaigns[c].policy
        recent == {i \in SentBy(c, sender) :
                      /\ items[i].created_at > now - policy.rate_window_seconds
                      /\ items[i].created_at <= now}
    IN  /\ Cardinality(SentBy(c, sender)) < policy.max_fan_out
        /\ Cardinality(recent) < policy.per_sender_rate_limit

\* validate_item_value: the provenance of an item fits its campaign and parent.
ItemValueOK(i, item) ==
    LET c == campaigns[item.campaign_id]
        hops == item.hops
        last == hops[Len(hops)]
    IN  /\ c # None
        /\ Len(hops) \in 1..c.policy.max_depth
        /\ hops[1].sender = c.root
        /\ last.item_id = i
        /\ last.sender = item.sender
        /\ last.recipient = item.recipient
        /\ last.sent_at = item.created_at
        /\ last.local_policy_generation <= Generation
        /\ last.sender_profile = candidate_profiles[item.sender]
        /\ last.recipient_profile = candidate_profiles[item.recipient]
        /\ \A k \in DOMAIN hops :
               /\ c.created_at <= hops[k].sent_at
               /\ hops[k].sent_at < c.expires_at
               /\ hops[k].recipient # c.root
               /\ \A l \in 1..k-1 : hops[l].recipient # hops[k].recipient
               /\ k > 1 => /\ hops[k-1].recipient = hops[k].sender
                           /\ hops[k-1].recipient_profile = hops[k].sender_profile
                           /\ hops[k-1].local_policy_generation
                                  <= hops[k].local_policy_generation
        /\ IF item.parent_item_id = None THEN Len(hops) = 1
           ELSE /\ items[item.parent_item_id] # None
                /\ items[item.parent_item_id].campaign_id = item.campaign_id
                /\ items[item.parent_item_id].recipient = item.sender
                /\ items[item.parent_item_id].hops = SubSeq(hops, 1, Len(hops) - 1)

\* validate_outcome_kind
OutcomeFits(payload, outcome) ==
    CASE outcome = "SuccessfulIntroduction" -> payload = "Invitation"
      [] outcome = "UsefulCapabilityReferral" -> payload = "Capability"
      [] outcome = "AcknowledgedDownstreamDelivery" -> TRUE
      [] outcome = "CompletedResourceMatch" -> payload = "Resource"

-----------------------------------------------------------------------------
Init ==
    /\ campaigns = [c \in CampaignId |-> None]
    /\ items = [i \in ItemId |-> None]
    /\ acknowledgements = [a \in AcknowledgementId |-> None]
    /\ candidate_profiles = [p \in CthulhuId |-> None]
    /\ local_rules = {}
    /\ local_policy_events = <<>>
    /\ outcomes = [o \in OutcomeId |-> None]
    /\ used_acknowledgements = {}
    /\ credits = [c \in CampaignId |-> [p \in CthulhuId |-> NoCredit]]
    /\ now = 0

CreateCampaign(id, root, payload, strategy, policy, expires_at) ==
    /\ campaigns[id] = None
    /\ Cardinality({c \in CampaignId : campaigns[c] # None}) < MAX_CAMPAIGNS
    /\ expires_at > now
    /\ expires_at - now <= MAX_CAMPAIGN_LIFETIME_SECONDS
    /\ campaigns' = [campaigns EXCEPT ![id] =
           [root |-> root, payload |-> payload, strategy |-> strategy, policy |-> policy,
            created_at |-> now, expires_at |-> expires_at, revoked_at |-> None]]
    /\ UNCHANGED <<items, acknowledgements, policyVars, creditVars, now>>

\* register_candidate refuses to change a profile some hop is bound to.
ProfileFree(who) == \A i \in Sent : who \notin OnPath(items[i].hops)

RegisterCandidate(who, profile) ==
    /\ candidate_profiles[who] \notin {None, profile} => ProfileFree(who)
    /\ candidate_profiles[who] = None =>
           Cardinality({p \in CthulhuId : candidate_profiles[p] # None}) < MAX_CANDIDATES
    /\ candidate_profiles' = [candidate_profiles EXCEPT ![who] = profile]
    /\ UNCHANGED <<campaigns, items, acknowledgements, local_rules, local_policy_events,
                   creditVars, now>>

\* Seeded fault: lifting a rule is not logged.
SetRuleUnlogged(rule, enabled) ==
    /\ (rule \in local_rules) # enabled
    /\ Len(local_policy_events) < MAX_LOCAL_POLICY_EVENTS
    /\ local_rules' = IF enabled THEN local_rules \cup {rule} ELSE local_rules \ {rule}
    /\ local_policy_events' =
           IF enabled THEN Append(local_policy_events, [rule |-> rule, enabled |-> TRUE])
                      ELSE local_policy_events
    /\ UNCHANGED <<campaigns, items, acknowledgements, candidate_profiles, creditVars, now>>

\* set_opt_out and set_blocked: the rule changes and the change is logged.
SetRule(rule, enabled) ==
    /\ (rule \in local_rules) # enabled
    /\ Len(local_policy_events) < MAX_LOCAL_POLICY_EVENTS
    /\ enabled => Cardinality({r \in local_rules : Len(r) = Len(rule)}) < MAX_LOCAL_RULES
    /\ local_rules' = IF enabled THEN local_rules \cup {rule} ELSE local_rules \ {rule}
    /\ local_policy_events' =
           Append(local_policy_events, [rule |-> rule, enabled |-> enabled])
    /\ UNCHANGED <<campaigns, items, acknowledgements, candidate_profiles, creditVars, now>>

NewItem(id, c, parent, sender, recipient) ==
    [campaign_id |-> c, parent_item_id |-> parent, sender |-> sender,
     recipient |-> recipient, created_at |-> now, status |-> "Pending",
     hops |-> Append(HopsOf(parent),
        [item_id |-> id, sender |-> sender, recipient |-> recipient, sent_at |-> now,
         local_policy_generation |-> Generation,
         sender_profile |-> candidate_profiles[sender],
         recipient_profile |-> candidate_profiles[recipient]])]

SenderKnown(sender) == candidate_profiles[sender] # None

\* send_with_validator, with no further local policy: send_initial when there is
\* no parent, forward when there is one.  A known item id changes nothing.
Send(id, c, parent, sender, recipient) ==
    /\ items[id] = None
    /\ Cardinality(Sent) < MAX_ITEMS
    /\ sender # recipient
    /\ campaigns[c] # None
    /\ parent # None => parent \in Sent /\ items[parent].campaign_id = c
    /\ StrictHop(campaigns[c], parent, sender)
    /\ RulesAllow(local_rules, HopsOf(parent), sender, recipient)
    /\ DepthAndStrategy(campaigns[c], HopsOf(parent), recipient)
    /\ SenderKnown(sender)
    /\ \A i \in Sent : items[i].campaign_id = c => items[i].recipient # recipient
    /\ RateAllows(c, sender)
    /\ ItemValueOK(id, NewItem(id, c, parent, sender, recipient))
    /\ items' = [items EXCEPT ![id] = NewItem(id, c, parent, sender, recipient)]
    /\ UNCHANGED <<campaigns, acknowledgements, policyVars, creditVars, now>>

\* Seeded fault: a revoked campaign may still be answered.
AnswerableRevoked(id, who) ==
    /\ id \in Sent
    /\ items[id].recipient = who
    /\ items[id].created_at <= now
    /\ now < campaigns[items[id].campaign_id].expires_at

\* What `respond' and `acknowledge_outcome' ask of the item and its campaign.
Answerable(id, who) ==
    /\ id \in Sent
    /\ campaigns[items[id].campaign_id].revoked_at = None
    /\ items[id].recipient = who
    /\ items[id].created_at <= now
    /\ now < campaigns[items[id].campaign_id].expires_at

\* respond: the first answer stands, repeating it changes nothing.
Respond(id, who, answer) ==
    /\ Answerable(id, who)
    /\ items[id].status = "Pending"
    /\ items' = [items EXCEPT ![id].status = answer]
    /\ UNCHANGED <<campaigns, acknowledgements, policyVars, creditVars, now>>

\* Seeded fault: an item may be acknowledged again under another id.
AwaitsOutcomeAgain(id) == items[id].status \in {"Accepted", "Acknowledged"}

\* Only an accepted item, and only once, is acknowledged.
AwaitsOutcome(id) == items[id].status = "Accepted"

\* acknowledge_outcome, and acknowledge for the delivery outcome.
AcknowledgeOutcome(id, ack, who, outcome) ==
    /\ acknowledgements[ack] = None
    /\ Cardinality(Acked) < MAX_ACKNOWLEDGEMENTS
    /\ Answerable(id, who)
    /\ AwaitsOutcome(id)
    /\ items' = [items EXCEPT ![id].status = "Acknowledged"]
    /\ acknowledgements' = [acknowledgements EXCEPT ![ack] =
           [item_id |-> id, actor |-> who, outcome |-> outcome, acknowledged_at |-> now]]
    /\ UNCHANGED <<campaigns, policyVars, creditVars, now>>

\* revoke_campaign, by its root; the first revocation stands.
RevokeCampaign(c) ==
    /\ campaigns[c] # None
    /\ now >= campaigns[c].created_at
    /\ campaigns[c].revoked_at = None
    /\ campaigns' = [campaigns EXCEPT ![c].revoked_at = now]
    /\ UNCHANGED <<items, acknowledgements, policyVars, creditVars, now>>

TotalCredit(c) == MapThenSumSet(LAMBDA p : credits[c][p].points, CthulhuId)

\* Seeded fault: an outcome is clamped by the contributor's cap alone.
AwardedNoTotal(c, contributor, proposed) ==
    Clamp(proposed, Clamp(MAX_CREDIT_PER_OUTCOME,
        MAX_CREDIT_PER_CTHULHU_PER_CAMPAIGN - credits[c][contributor].points))

\* record_outcome clamps what the incentive model proposes.
Awarded(c, contributor, proposed) ==
    Clamp(proposed, Clamp(MAX_CREDIT_PER_OUTCOME,
        Clamp(MAX_CREDIT_PER_CTHULHU_PER_CAMPAIGN - credits[c][contributor].points,
              MAX_TOTAL_CAMPAIGN_CREDIT - TotalCredit(c))))

\* record_outcome: a claim names its item, its contributor (the item's sender)
\* and its beneficiary, which the evidence must match; it brings its own time.
RecordOutcome(o, ack, proposed, occurred_at) ==
    /\ outcomes[o] = None
    /\ ack \notin used_acknowledgements
    /\ acknowledgements[ack] # None
    /\ LET id == acknowledgements[ack].item_id
           c == items[id].campaign_id
           contributor == items[id].sender
           awarded == Awarded(c, contributor, proposed)
       IN  /\ campaigns[c].revoked_at = None
           /\ occurred_at < campaigns[c].expires_at
           /\ items[id].status = "Acknowledged"
           /\ occurred_at >= acknowledgements[ack].acknowledged_at
           /\ OutcomeFits(campaigns[c].payload, acknowledgements[ack].outcome)
           /\ awarded # 0
           /\ credits' = [credits EXCEPT ![c][contributor] =
                  [points |-> @.points + awarded,
                   credited_outcomes |-> @.credited_outcomes + 1]]
           /\ outcomes' = [outcomes EXCEPT ![o] =
                  [item_id |-> id, acknowledgement_id |-> ack, occurred_at |-> occurred_at]]
    /\ used_acknowledgements' = used_acknowledgements \cup {ack}
    /\ UNCHANGED <<campaigns, items, acknowledgements, policyVars, now>>

\* Callers bring the time; the engine reads no clock.
SetClock(t) ==
    /\ t # now
    /\ MonotoneClock => t > now
    /\ now' = t
    /\ UNCHANGED <<campaigns, items, acknowledgements, policyVars, creditVars>>

Next ==
    \/ \E c \in CampaignId, r \in CthulhuId, p \in Payload, s \in Strategy,
          policy \in Policy, t \in 0..MaxTime : CreateCampaign(c, r, p, s, policy, t)
    \/ \E p \in CthulhuId, f \in Profile : RegisterCandidate(p, f)
    \/ \E r \in LocalRule, enabled \in BOOLEAN : SetRule(r, enabled)
    \/ \E i \in ItemId, c \in CampaignId, parent \in ItemId \cup {None},
          s, r \in CthulhuId : Send(i, c, parent, s, r)
    \/ \E i \in ItemId, p \in CthulhuId, a \in {"Accepted", "Rejected"} : Respond(i, p, a)
    \/ \E i \in ItemId, a \in AcknowledgementId, p \in CthulhuId,
          o \in ContributionOutcome : AcknowledgeOutcome(i, a, p, o)
    \/ \E c \in CampaignId : RevokeCampaign(c)
    \/ \E o \in OutcomeId, a \in AcknowledgementId, n \in ProposedPoints,
          t \in 0..MaxTime : RecordOutcome(o, a, n, t)
    \/ \E t \in 0..MaxTime : SetClock(t)

Spec == Init /\ [][Next]_vars

-----------------------------------------------------------------------------
(* Properties *)

\* Whatever happens after an item is sent (later rules, profiles, answers), its
\* branch stays one a reload accepts: an unbroken path from the campaign's root
\* that visits nobody twice, within the campaign's depth, bound to the profiles
\* the candidates still have, and every offer that was forwarded was accepted.
BranchesStayValid ==
    \A i \in Sent :
        /\ ItemValueOK(i, items[i])
        /\ items[i].parent_item_id # None =>
               items[items[i].parent_item_id].status \in {"Accepted", "Acknowledged"}

\* The rules in force at a generation, replayed from the log.
RulesAt(generation) ==
    {r \in LocalRule :
        LET changes == {k \in 1..generation : local_policy_events[k].rule = r}
        IN  changes # {} /\ local_policy_events[Max(changes)].enabled}

\* validate_loaded_policy_history: the log replays to the rules in force, and
\* every item was allowed by the rules of the generation its last hop names,
\* also when rules came and went between two hops of a branch.
PolicyHistoryReplays ==
    /\ RulesAt(Generation) = local_rules
    /\ \A i \in Sent :
           RulesAllow(RulesAt(items[i].hops[Len(items[i].hops)].local_policy_generation),
                      HopsOf(items[i].parent_item_id), items[i].sender, items[i].recipient)

\* Nobody sends more of a campaign than its fan-out, nor more within any window
\* (not only the one ending now) than its rate, and nobody receives it twice.
SendersBounded ==
    \A c \in CampaignId : campaigns[c] # None =>
        LET policy == campaigns[c].policy IN
        /\ \A s \in CthulhuId :
               /\ Cardinality(SentBy(c, s)) <= policy.max_fan_out
               /\ \A t \in 0..MaxTime :
                      Cardinality({i \in SentBy(c, s) : items[i].created_at
                                      \in t..(t + policy.rate_window_seconds - 1)})
                          <= policy.per_sender_rate_limit
        /\ \A i, j \in Sent :
               /\ items[i].campaign_id = c
               /\ items[j].campaign_id = c
               /\ items[i].recipient = items[j].recipient
               => i = j

ClaimsOf(c, p) ==
    {o \in Claimed : /\ items[outcomes[o].item_id].campaign_id = c
                     /\ items[outcomes[o].item_id].sender = p}

\* Credit is backed by evidence and bounded: each acknowledgement is counted
\* once, each point belongs to a recorded outcome of that direct sender, and the
\* three caps hold together.
CreditBacked ==
    /\ used_acknowledgements = {outcomes[o].acknowledgement_id : o \in Claimed}
    /\ Cardinality(used_acknowledgements) = Cardinality(Claimed)
    /\ \A c \in CampaignId :
           /\ TotalCredit(c) <= MAX_TOTAL_CAMPAIGN_CREDIT
           /\ \A p \in CthulhuId :
                  /\ credits[c][p].credited_outcomes = Cardinality(ClaimsOf(c, p))
                  /\ credits[c][p].points <= MAX_CREDIT_PER_CTHULHU_PER_CAMPAIGN
                  /\ credits[c][p].points
                         <= MAX_CREDIT_PER_OUTCOME * Cardinality(ClaimsOf(c, p))

ItemsOf(c) == {i \in Sent : items[i].campaign_id = c}

\* Revocation is final: from then on no item of the campaign is sent, answered
\* or acknowledged and no credit is given for it, whatever the clock does.
RevokedQuiet ==
    [][\A c \in CampaignId :
          campaigns[c] # None /\ campaigns[c].revoked_at # None =>
              /\ campaigns'[c] = campaigns[c]
              /\ credits'[c] = credits[c]
              /\ {i \in ItemId : items'[i] # None /\ items'[i].campaign_id = c} = ItemsOf(c)
              /\ \A i \in ItemsOf(c) : items'[i] = items[i]]_vars

\* The evidence a reload asks for: exactly the acknowledged items have an
\* acknowledgement, and each has one, whatever ids repeated calls brought.
AcknowledgementsReload ==
    /\ \A a, b \in Acked : acknowledgements[a].item_id = acknowledgements[b].item_id => a = b
    /\ {acknowledgements[a].item_id : a \in Acked}
           = {i \in Sent : items[i].status = "Acknowledged"}
=============================================================================
