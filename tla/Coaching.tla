---- MODULE Coaching ----
(* Goals and opt-in check-ins (coaching.rs). Each Acolyte has a goal document *)
(* and a preferences document; every operation holds the store's lock. The    *)
(* supervisor claims the check-ins that are due, then sends them one by one.  *)
(* Time is in days.                                                           *)
EXTENDS Integers, Sequences

CONSTANTS Acolyte, Interval, MaxDay, MaxCommands, MaxFaults

CoachingParameters == Interval \subseteq Nat \ {0} /\ MaxDay \in Nat

VARIABLES
    today,
    goal,           \* the Acolytes with a goal
    prefs,          \* for each Acolyte its interval (0: no check-ins) and next day
    damaged,        \* the Acolytes one of whose documents cannot be read
    recipients,     \* check-ins claimed and not handed over yet
    claims,         \* ghost: for each Acolyte its claims in order
    commands, faults

coachingVars == <<today, goal, prefs, damaged, recipients, claims, commands, faults>>

CoachingInit ==
    /\ today = 0
    /\ goal = {} /\ prefs = [i \in Acolyte |-> [interval |-> 0, next |-> 0]]
    /\ damaged = {} /\ recipients = {} /\ claims = [i \in Acolyte |-> <<>>]
    /\ commands = 0 /\ faults = 0

(* Any goal or preference command reads the preferences first *)
Command(i) == i \notin damaged /\ commands < MaxCommands /\ commands' = commands + 1

SaveGoal(i) ==
    /\ Command(i)
    /\ goal' = goal \cup {i}
    /\ UNCHANGED <<today, prefs, damaged, recipients, claims, faults>>

(* "forget my goal" stops check-ins too *)
ForgetGoal(i) ==
    /\ Command(i)
    /\ goal' = goal \ {i}
    /\ prefs' = [prefs EXCEPT ![i].interval = 0]
    /\ UNCHANGED <<today, damaged, recipients, claims, faults>>

(* Check-ins need a goal; pausing does not *)
CheckIn(i, interval) ==
    /\ Command(i)
    /\ interval > 0 => i \in goal
    /\ prefs' = [prefs EXCEPT ![i] = [interval |-> interval, next |-> today + interval]]
    /\ UNCHANGED <<today, goal, damaged, recipients, claims, faults>>

IsDue(i) == prefs[i].interval > 0 /\ prefs[i].next <= today /\ i \in goal

ClaimedFromNext(p) == [p EXCEPT !.next = @ + p.interval]
Claimed(p) == [p EXCEPT !.next = today + p.interval]

(* due walks the directory in any order; an unreadable document ends the walk *)
(* with an error, and what was claimed before is claimed for nothing          *)
Due ==
    /\ recipients = {}
    /\ \E walked \in SUBSET Acolyte :
        LET chosen == {i \in walked : IsDue(i)} IN
        /\ damaged = {} => walked = Acolyte
        /\ damaged # {} => walked \cap damaged = {}
        /\ chosen # {}
        /\ prefs' = [i \in Acolyte |-> IF i \in chosen THEN Claimed(prefs[i]) ELSE prefs[i]]
        /\ claims' = [i \in Acolyte |-> IF i \in chosen
               THEN Append(claims[i], [day |-> today, interval |-> prefs[i].interval])
               ELSE claims[i]]
        /\ recipients' = IF damaged = {} THEN chosen ELSE {}
    /\ UNCHANGED <<today, goal, damaged, commands, faults>>

SendCheckIn ==
    /\ \E i \in recipients : recipients' = recipients \ {i}
    /\ UNCHANGED <<today, goal, prefs, damaged, claims, commands, faults>>

Restart ==
    /\ faults < MaxFaults
    /\ faults' = faults + 1
    /\ recipients' = {}
    /\ UNCHANGED <<today, goal, prefs, damaged, claims, commands>>

Damage(i) ==
    /\ faults < MaxFaults
    /\ faults' = faults + 1
    /\ damaged' = damaged \cup {i}
    /\ UNCHANGED <<today, goal, prefs, recipients, claims, commands>>

NextDay ==
    /\ today < MaxDay
    /\ today' = today + 1
    /\ UNCHANGED <<goal, prefs, damaged, recipients, claims, commands, faults>>

CoachingNext ==
    \/ \E i \in Acolyte :
        \/ SaveGoal(i) \/ ForgetGoal(i) \/ Damage(i)
        \/ \E interval \in Interval \cup {0} : CheckIn(i, interval)
    \/ Due \/ SendCheckIn \/ Restart \/ NextDay

CoachingSpec == CoachingInit /\ [][CoachingNext]_coachingVars

(* "an at-most-once local scheduling claim": two claims of one Acolyte are at  *)
(* least the interval apart that it has asked for last, after an outage of     *)
(* several days, a restart between claim and sending or a damaged document     *)
(* too (due, handle).                                                          *)
ClaimsSpaced ==
    \A i \in Acolyte : \A k \in 2 .. Len(claims[i]) :
        claims[i][k].day - claims[i][k - 1].day >= claims[i][k].interval

====
