---- MODULE TokenGov ----
(* One token-weighted ballot box (token_gov.rs). Weights and multipliers are  *)
(* basis points in a u16; sums saturate and shares round down.                *)
EXTENDS Integers, FiniteSets, FiniteSetsExt

CONSTANTS Voter, Weight, Policy, None

U16 == 65535

(* What the policy's own validation guarantees. *)
TokenGovParameters ==
    /\ Weight \subseteq 0 .. 10000
    /\ \A p \in Policy :
        /\ p.eligible \in 0 .. 10000 /\ p.quorum_bps \in 0 .. 10000
        /\ p.approval_bps \in 0 .. 10000 /\ p.nature_tier_scale_bps \in 0 .. 10000
        /\ \A t \in DOMAIN p.multipliers : p.multipliers[t] \in 0 .. U16

Choice == {"yes", "no", "abstain"}
Priority == [unproven |-> 0, initiate |-> 1, acolyte |-> 2, elder |-> 3, whale |-> 4]

VARIABLES
    policy,     \* the policy and the eligible weight of the box
    ballots,    \* for each voter its ballot, or None
    participating_holding_bps

vars == <<policy, ballots, participating_holding_bps>>

Init ==
    /\ policy \in Policy
    /\ ballots = [v \in Voter |-> None]
    /\ participating_holding_bps = 0

Capped(n) == IF n > U16 THEN U16 ELSE n

(* i64 division rounds toward zero, so a multiplier below neutral rounds up *)
Interpolated(full, scale) ==
    LET delta == full - 10000
    IN  Capped(10000 + IF delta < 0 THEN -(((-delta) * scale) \div 10000)
                                    ELSE (delta * scale) \div 10000)

Effective(weight, tier) ==
    Capped((weight * Interpolated(policy.multipliers[tier], policy.nature_tier_scale_bps))
           \div 10000)

(* cast: one ballot for each voter, never more than the eligible weight *)
RoomForOne(weight) == weight <= policy.eligible
Room(weight) == participating_holding_bps + weight <= policy.eligible

Cast(v, tier, weight, choice) ==
    /\ ballots[v] = None
    /\ Priority[tier] >= Priority[policy.minimum_tier]
    /\ Room(weight)
    /\ ballots' = [ballots EXCEPT ![v] =
           [holding |-> weight, effective |-> Effective(weight, tier), choice |-> choice]]
    /\ participating_holding_bps' = participating_holding_bps + weight
    /\ UNCHANGED policy

Next ==
    \E v \in Voter, tier \in DOMAIN policy.multipliers, weight \in Weight, choice \in Choice :
        Cast(v, tier, weight, choice)

Spec == Init /\ [][Next]_vars

(* ---- tally and result; saturating additions one by one cap their sum ---- *)

VotersFor(choices) == {v \in Voter : ballots[v] # None /\ ballots[v].choice \in choices}
Holding(choices) == MapThenSumSet(LAMBDA v : ballots[v].holding, VotersFor(choices))
Weighing(choices) == MapThenSumSet(LAMBDA v : ballots[v].effective, VotersFor(choices))

Participating == Capped(Holding(Choice))
Decisive == Capped(Capped(Weighing({"yes"})) + Capped(Weighing({"no"})))
QuorumRequired == (policy.eligible * policy.quorum_bps + 9999) \div 10000

Achieved ==
    IF Decisive = 0 THEN 0 ELSE (Capped(Weighing({"yes"})) * 10000) \div Decisive

Outcome ==
    CASE Participating < QuorumRequired -> "QuorumNotMet"
      [] Decisive = 0 -> "NoDecisiveWeight"
      [] Achieved >= policy.approval_bps -> "Approved"
      [] OTHER -> "Rejected"

(* Rounding and saturation decide nothing: an outcome is Approved exactly when *)
(* the unrounded turnout reaches the quorum and the unrounded yes share of the *)
(* weighed decisive votes reaches the threshold, at every multiplier a u16     *)
(* holds and whatever the order of the ballots (cast, tally, result).          *)
DecisionExact ==
    LET yes == Weighing({"yes"})
        decisive == Weighing({"yes", "no"})
    IN  Outcome = "Approved" <=>
            /\ Holding(Choice) * 10000 >= policy.eligible * policy.quorum_bps
            /\ decisive > 0
            /\ yes * 10000 >= policy.approval_bps * decisive

====
