---- MODULE TokenEye ----
(* One Tentacle's local view of token balances (token_eye.rs). A read of the  *)
(* chain awaits the network without the view's lock, so reads of one holder   *)
(* overlap, and their answers are applied in any order, each under the time   *)
(* at which it was asked for. Balances are in units of the token. The clock   *)
(* does not step back.                                                        *)
EXTENDS Integers, FiniteSets

CONSTANTS
    Holder, Balance,
    observation_interval, MIN_FAILURE_BACKOFF, MAX_FAILURE_BACKOFF,
    whale_basis_points, elder_basis_points, acolyte_minimum,
    MaxSeconds, MaxReads,
    None

(* What the configuration and the constants guarantee. *)
ASSUME TokenEyeAssumption ==
    /\ Balance \subseteq Nat /\ acolyte_minimum \in Nat
    /\ whale_basis_points <= elder_basis_points /\ elder_basis_points <= 10000
    /\ observation_interval \in Nat /\ MIN_FAILURE_BACKOFF \in Nat /\ MAX_FAILURE_BACKOFF \in Nat
    /\ MaxSeconds \in Nat

VARIABLES
    clock,
    held,           \* the chain: for each holder the set of balances of each second
    balances, last_seen,    \* the view, None for a holder never read
    failed,         \* when the last read of a holder failed, or None
    reads,          \* the reads under way
    observation     \* the last answer to a caller, or None

view == <<balances, last_seen, failed>>
eyeVars == <<clock, held, view, reads, observation>>

EyeInit ==
    /\ clock = 0
    /\ held \in [Holder -> {[t \in 0 .. MaxSeconds |-> IF t = 0 THEN {b} ELSE {}] : b \in Balance}]
    /\ balances = [h \in Holder |-> None]
    /\ last_seen = [h \in Holder |-> None]
    /\ failed = [h \in Holder |-> None]
    /\ reads = {}
    /\ observation = None

(* ---- the chain: a balance is replaced within a second ---- *)

Current(h) == held[h][clock]

Continued(h, b) == [held[h] EXCEPT ![clock + 1] = {b}]

Tick ==
    /\ clock < MaxSeconds
    /\ \E after \in [Holder -> Balance] :
        /\ \A h \in Holder : after[h] \in Current(h)
        /\ held' = [h \in Holder |-> Continued(h, after[h])]
    /\ clock' = clock + 1
    /\ UNCHANGED <<view, reads, observation>>

Transfer(h, b) ==
    /\ b \notin Current(h)
    /\ held' = [held EXCEPT ![h][clock] = @ \cup {b}]
    /\ UNCHANGED <<clock, view, reads, observation>>

(* ---- tiers ---- *)

Eligible(view1) ==
    {h \in Holder : view1[h] # None /\ view1[h] # 0 /\ view1[h] >= acolyte_minimum}

FallsWithin(greater, population, basis_points) ==
    /\ basis_points # 0
    /\ population * basis_points >= 10000
    /\ greater * 10000 < population * basis_points

(* classify_balance: a rank counts the holders with strictly more *)
Tier(h, view1) ==
    LET population == Cardinality(Eligible(view1))
        greater == Cardinality({g \in Eligible(view1) : view1[g] > view1[h]})
    IN  CASE view1[h] = None \/ view1[h] = 0 -> "unproven"
          [] view1[h] < acolyte_minimum -> "initiate"
          [] FallsWithin(greater, population, whale_basis_points) -> "whale"
          [] FallsWithin(greater, population, elder_basis_points) -> "elder"
          [] OTHER -> "acolyte"

(* ---- observations ---- *)

Observed(h, freshness, view1, at) ==
    [holder |-> h, balance |-> view1[h], observed_at |-> at, tier |-> Tier(h, view1),
     freshness |-> freshness, answered |-> clock]

(* require_operational *)
Operational(o) == o # None /\ o.freshness \in {"fresh", "cached"}

Due(h) == last_seen[h] = None \/ clock - last_seen[h] >= observation_interval

Least2(a, b) == IF a < b THEN a ELSE b
Most2(a, b) == IF a > b THEN a ELSE b
Backoff == Least2(Most2(observation_interval, MIN_FAILURE_BACKOFF), MAX_FAILURE_BACKOFF)
BackedOff(h) == failed[h] # None /\ clock - failed[h] < Backoff

Failure(h) ==
    Observed(h, IF balances[h] = None THEN "unknown" ELSE "stale", balances, last_seen[h])

Answered(h) ==
    observation' = IF Due(h) THEN Failure(h)
                             ELSE Observed(h, "cached", balances, last_seen[h])

Asks(h) ==
    \E n \in 1 .. MaxReads \ {r.number : r \in reads} :
        reads' = reads \cup {[number |-> n, holder |-> h, asked |-> clock, balance |-> None]}

Observe(h) ==
    /\ IF ~Due(h) \/ BackedOff(h) THEN Answered(h) /\ UNCHANGED reads
                                  ELSE Asks(h) /\ UNCHANGED observation
    /\ UNCHANGED <<clock, held, view>>

(* observe_fresh passes by the cache and the backoff *)
ObserveFresh(h) == Asks(h) /\ UNCHANGED <<clock, held, view, observation>>

(* The node reads the balance: after the question, before the answer *)
ReadChain(r) ==
    /\ r.balance = None
    /\ \E b \in Current(r.holder) :
        reads' = (reads \ {r}) \cup {[r EXCEPT !.balance = b]}
    /\ UNCHANGED <<clock, held, view, observation>>

(* apply_refresh under the time of the question, whatever was applied since *)
DatedAtArrival(r) == clock
DatedAt(r) == r.asked

Apply(r) ==
    /\ r.balance # None
    /\ balances' = [balances EXCEPT ![r.holder] = r.balance]
    /\ last_seen' = [last_seen EXCEPT ![r.holder] = DatedAt(r)]
    /\ failed' = [failed EXCEPT ![r.holder] = None]
    /\ observation' = Observed(r.holder, "fresh", balances', DatedAt(r))
    /\ reads' = reads \ {r}
    /\ UNCHANGED <<clock, held>>

(* The endpoint fails, lies about its chain or times out *)
ReadFails(r) ==
    /\ failed' = [failed EXCEPT ![r.holder] = r.asked]
    /\ observation' = Failure(r.holder)
    /\ reads' = reads \ {r}
    /\ UNCHANGED <<clock, held, balances, last_seen>>

EyeNext ==
    \/ Tick
    \/ \E h \in Holder : Observe(h) \/ ObserveFresh(h) \/ \E b \in Balance : Transfer(h, b)
    \/ \E r \in reads : ReadChain(r) \/ Apply(r) \/ ReadFails(r)

EyeSpec == EyeInit /\ [][EyeNext]_eyeVars

(* A balance that may carry an economic decision is one the holder really had *)
(* between the moment it is dated at and the answer, and one from the cache   *)
(* is younger than the observation interval, in whatever order slow and       *)
(* failing reads of the same holder come back (observe, apply_refresh).       *)
OperationalIsTrue ==
    Operational(observation) =>
        LET o == observation IN
        /\ \E t \in o.observed_at .. o.answered : o.balance \in held[o.holder][t]
        /\ o.freshness = "cached" => o.answered - o.observed_at < observation_interval

====
