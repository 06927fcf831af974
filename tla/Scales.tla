------------------------------- MODULE Scales -------------------------------
(***************************************************************************)
(* The four scales of a Tentacle: what its open day records, the verified  *)
(* holdings that weigh in, the judgment a closed day receives, and the     *)
(* append-only history of judgments.  The metrics are saved by every       *)
(* recording; closing a day appends its judgment and then saves the next   *)
(* day's metrics, and a crash may fall between the two.                    *)
(***************************************************************************)
EXTENDS Naturals, FiniteSets, Sequences

CONSTANTS
  Appetites,  \* Natures: the appetite for each scale, out of 100
  Balance,    \* normalized holdings an observation may report
  Stake,      \* normalized stakes
  Required,   \* minimum stakes an operator may start the process with
  Depth,      \* depths of a conversation
  Response,   \* response times, in milliseconds
  U32_MAX,    \* where a counter of samples stops
  MaxDay,     \* bound: the last day
  MaxRecords, \* bound: recordings
  None        \* no value

ScalesParameters ==
  /\ Appetites \subseteq [1..4 -> 0..100]
  /\ Balance \cup Stake \cup Required \subseteq 0..10000
  /\ Depth \subseteq 0..1000
  /\ {U32_MAX, MaxDay, MaxRecords} \subseteq Nat

VARIABLES day, up, nature, required, metrics, history, records

vars == <<day, up, nature, required, metrics, history, records>>

SCORE_MAX == 10000
PROPAGATION_RIGHTS_MIN_SCORE == 8000
SURVIVAL_MIN_SCORE == 5500
STARVATION_WARNING_MIN_SCORE == 3000
STRESS_PENALTY_PER_EVENT == 100
MAX_STRESS_PENALTY == 1000

\* Engagement, growth, wealth and influence, in that order.
Scale == 1..4
RUNTIME_SCORED_SCALES == {1}

Target ==
  [depth |-> 8, full |-> 3000, zero |-> 120000, kids |-> 1, acolytes |-> 2, points |-> 100,
   revenue |-> 1000000, efficiency |-> 8000, votes |-> 1, influence |-> 100]

Least(a, b) == IF a <= b THEN a ELSE b
Greatest(a, b) == IF a <= b THEN b ELSE a
Minus(a, b) == IF a <= b THEN 0 ELSE a - b

Sum(f) ==
  LET upTo[i \in 0..Len(f)] == IF i = 0 THEN 0 ELSE upTo[i - 1] + f[i]
  IN upTo[Len(f)]

-----------------------------------------------------------------------------
(* Verified holdings. *)

Part(a, bp) == (a * bp + 5000) \div 10000

\* A Nature's appetites are how strongly its holdings weigh.
Effects(snap, n) ==
  [engagement |-> Part(snap.balance, 100 * n[1]),
   growth     |-> Part(snap.reward, 100 * n[2]),
   wealth     |-> Part(snap.balance, 100 * n[3]),
   influence  |-> Part(snap.stake, 100 * n[4]),
   relief     |-> Part(snap.balance, 100 * n[3])]

Snapshot == [balance: Balance, stake: Stake, reward: {0}]

Economics(snap, n, min) ==
  [snap |-> snap, nature |-> n, required |-> min, effects |-> Effects(snap, n),
   eligible |-> snap.stake >= min]

ValidEconomics(e) ==
  /\ \A f \in DOMAIN e.effects : e.effects[f] <= SCORE_MAX
  /\ e = Economics(e.snap, e.nature, e.required)

-----------------------------------------------------------------------------
(* What a day records. *)

Fresh(d, n) ==
  [day |-> d, nature |-> n,
   engagement |-> [conversations |-> 0, depth |-> 0, returning |-> 0,
                   samples |-> 0, time |-> 0, bonus |-> 0],
   growth |-> [kids |-> 0, acolytes |-> 0, points |-> 0, operator |-> 0, recruiter |-> 0],
   wealth |-> None,
   influence |-> [votes |-> 0, points |-> 0],
   scales |-> RUNTIME_SCORED_SCALES, stress |-> 0, economics |-> None]

NoWealth == [revenue |-> 0, samples |-> 0, efficiency |-> 0, parent |-> 0]

\* Holdings aside, nothing was observed of this Nature.
Unobserved(m) ==
  LET f == Fresh(m.day, m.nature)
  IN /\ m.engagement = f.engagement /\ m.growth = f.growth /\ m.influence = f.influence
     /\ m.wealth \in {None, NoWealth}

\* A mutant: a scale whose holdings are zero is left out of the judgment.
ObservedScalesUnlessZero(snap) ==
  {1, 3} \cup (IF snap.reward > 0 THEN {2} ELSE {}) \cup (IF snap.stake > 0 THEN {4} ELSE {})

\* A verified zero is evidence too: every scale is judged.
ObservedScales(snap) == Scale

Observed(m, snap, min) ==
  [m EXCEPT !.wealth = IF @ = None THEN NoWealth ELSE @,
            !.scales = ObservedScales(snap),
            !.economics = Economics(snap, nature, min)]

\* A mutant: only the count of conversations stops at its limit.
WithConversationSaturating(e, depth, returning, response, bonus) ==
  [conversations |-> Least(U32_MAX, e.conversations + 1), depth |-> e.depth + depth,
   returning |-> e.returning + (IF returning THEN 1 ELSE 0),
   samples |-> e.samples + (IF response = None THEN 0 ELSE 1),
   time |-> e.time + (IF response = None THEN 0 ELSE response), bonus |-> e.bonus + bonus]

WithConversation(e, depth, returning, response, bonus) ==
  IF e.conversations = U32_MAX THEN e
  ELSE [conversations |-> e.conversations + 1, depth |-> e.depth + depth,
        returning |-> e.returning + (IF returning THEN 1 ELSE 0),
        samples |-> e.samples + (IF response = None THEN 0 ELSE 1),
        time |-> e.time + (IF response = None THEN 0 ELSE response), bonus |-> e.bonus + bonus]

ValidMetrics(m) ==
  LET e == m.engagement
      w == m.wealth
  IN /\ e.returning <= e.conversations /\ e.samples <= e.conversations
     /\ e.depth <= e.conversations * 1000
     /\ e.bonus <= e.conversations * SCORE_MAX
     /\ IF w = None THEN 3 \notin m.scales ELSE w.efficiency <= w.samples * SCORE_MAX
     /\ m.scales # {}
     /\ IF m.economics = None THEN TRUE
        ELSE /\ ValidEconomics(m.economics)
             /\ w # None /\ 3 \in m.scales
             /\ m.economics.snap.reward > 0 => 2 \in m.scales
             /\ m.economics.snap.stake > 0 => 4 \in m.scales

-----------------------------------------------------------------------------
(* The judgment. *)

Ratio(n, d) == IF d = 0 THEN 0 ELSE Least(SCORE_MAX, (n * SCORE_MAX + (d \div 2)) \div d)

Component(parts) ==
  (Sum([i \in DOMAIN parts |-> parts[i][1] * parts[i][2]]) + 5000) \div SCORE_MAX

Adjusted(score, bp) == score + Part(SCORE_MAX - score, bp)

ResponseTime(e) ==
  LET full == e.samples * Target.full
      zero == e.samples * Target.zero
  IN CASE e.samples = 0 -> 0
       [] e.samples > 0 /\ e.time <= full -> SCORE_MAX
       [] e.samples > 0 /\ e.time >= zero -> 0
       [] OTHER -> Ratio(zero - e.time, zero - full)

Engagement(e) ==
  Adjusted(Component(<< <<Ratio(e.depth, e.conversations * Target.depth), 4000>>,
                        <<Ratio(e.returning, e.conversations), 3500>>,
                        <<ResponseTime(e), 2500>> >>),
           IF e.conversations = 0 THEN 0 ELSE e.bonus \div e.conversations)

Growth(g) ==
  Component(<< <<Ratio(g.kids, Target.kids), 2500>>, <<Ratio(g.acolytes, Target.acolytes), 2000>>,
               <<Ratio(g.points, Target.points), 2500>>,
               <<Ratio(g.operator + g.recruiter, Target.revenue), 3000>> >>)

Wealth(w) ==
  Component(<< <<Ratio(w.revenue + w.parent, Target.revenue), 6000>>,
               <<Ratio(IF w.samples = 0 THEN 0 ELSE w.efficiency \div w.samples,
                       Target.efficiency), 4000>> >>)

Influence(i) ==
  Component(<< <<Ratio(i.votes, Target.votes), 5000>>, <<Ratio(i.points, Target.influence), 5000>> >>)

\* The appetites for the scales judged, scaled to SCORE_MAX; what rounding
\* leaves goes to the largest fractions, the earlier scale first.
Weights(n, scales) ==
  LET hungry == \E i \in scales : n[i] > 0
      v == [i \in Scale |-> CASE i \notin scales -> 0 [] i \in scales /\ hungry -> n[i] [] OTHER -> 1]
      total == Sum(v)
      share == [i \in Scale |-> (v[i] * SCORE_MAX) \div total]
      rest == [i \in Scale |-> (v[i] * SCORE_MAX) % total]
      ahead(i) == {j \in scales : rest[j] > rest[i] \/ (rest[j] = rest[i] /\ j < i)}
  IN [i \in Scale |->
        IF i \in scales /\ Cardinality(ahead(i)) < SCORE_MAX - Sum(share)
        THEN share[i] + 1 ELSE share[i]]

Scores(m, weights) ==
  LET fx == IF m.economics = None
            THEN [engagement |-> 0, growth |-> 0, wealth |-> 0, influence |-> 0]
            ELSE m.economics.effects
      wealth == CASE m.wealth = None -> None
                  [] m.wealth # None /\ m.economics = None -> Wealth(m.wealth)
                  [] OTHER -> Component(<< <<fx.wealth, 8000>>, <<Wealth(m.wealth), 2000>> >>)
      score == <<Adjusted(Engagement(m.engagement), fx.engagement),
                 Adjusted(Growth(m.growth), fx.growth),
                 IF wealth = None THEN 0 ELSE wealth,
                 Adjusted(Influence(m.influence), fx.influence)>>
      before == Component([i \in Scale |-> <<score[i], weights[i]>>])
      penalty == Least(MAX_STRESS_PENALTY, m.stress * STRESS_PENALTY_PER_EVENT)
  IN [score |-> score, wealth |-> wealth # None, before |-> before, penalty |-> penalty,
      total |-> Minus(before, penalty)]

\* Relief lowers the two lower thresholds, and keeps them in order.
Classify(score, relief) ==
  LET survival == Least(Greatest(Minus(SURVIVAL_MIN_SCORE, relief), 1),
                        PROPAGATION_RIGHTS_MIN_SCORE - 1)
      warning == Least(Minus(STARVATION_WARNING_MIN_SCORE, relief), survival - 1)
  IN CASE score >= PROPAGATION_RIGHTS_MIN_SCORE -> "rights"
       [] score >= survival /\ score < PROPAGATION_RIGHTS_MIN_SCORE -> "survival"
       [] score >= warning /\ score < survival -> "warning"
       [] OTHER -> "dormant"

Outcome(score, relief, eligible) ==
  IF Classify(score, relief) = "rights" /\ ~eligible THEN "survival" ELSE Classify(score, relief)

Rank(outcome) == CASE outcome = "dormant" -> 0 [] outcome = "warning" -> 1
                   [] outcome = "survival" -> 2 [] outcome = "rights" -> 3

Evidence(m) ==
  IF m.economics = None
  THEN [conversations |-> m.engagement.conversations, returning |-> m.engagement.returning,
        stake |-> 0, required |-> 0, eligible |-> m.wealth = None]
  ELSE [conversations |-> m.engagement.conversations, returning |-> m.engagement.returning,
        stake |-> m.economics.snap.stake, required |-> m.economics.required,
        eligible |-> m.economics.eligible]

Relief(m) == IF m.economics = None THEN 0 ELSE m.economics.effects.relief

Judge(m) ==
  LET weights == Weights(m.nature, m.scales)
      scores == Scores(m, weights)
  IN [day |-> m.day, scales |-> m.scales, weights |-> weights, scores |-> scores,
      evidence |-> Evidence(m), relief |-> Relief(m),
      outcome |-> Outcome(scores.total, Relief(m), Evidence(m).eligible)]

Evaluable(m) == m.wealth # None => m.economics # None

ValidJudgment(j) ==
  /\ j.scales # {} /\ (3 \in j.scales => j.scores.wealth)
  /\ Sum(j.weights) = SCORE_MAX
  /\ \A i \in Scale : (i \notin j.scales \/ (i = 3 /\ ~j.scores.wealth)) => j.weights[i] = 0
  /\ \A i \in Scale : j.scores.score[i] <= SCORE_MAX
  /\ j.scores.before <= SCORE_MAX /\ j.scores.penalty <= MAX_STRESS_PENALTY
  /\ j.scores.total = Minus(j.scores.before, j.scores.penalty)
  /\ j.evidence.returning <= j.evidence.conversations
  /\ j.evidence.eligible = (j.evidence.required = 0 \/ j.evidence.stake >= j.evidence.required)
  /\ j.outcome = Outcome(j.scores.total, j.relief, j.evidence.eligible)

ValidRecord(r) ==
  /\ ValidMetrics(r.metrics) /\ ValidJudgment(r.judgment) /\ Evaluable(r.metrics)
  /\ r.metrics.day = r.judgment.day
  /\ (r.metrics.wealth # None) = r.judgment.scores.wealth
  /\ r.metrics.scales = r.judgment.scales
  /\ r.judgment.evidence = Evidence(r.metrics)
  /\ r.judgment.relief = Relief(r.metrics)

ValidHistory(h) ==
  \A i \in DOMAIN h :
    ValidRecord(h[i]) /\ \A k \in 1..(i - 1) : h[k].metrics.day < h[i].metrics.day

-----------------------------------------------------------------------------
Record(m) == [metrics |-> m, judgment |-> Judge(m)]

Init ==
  /\ day = 0 /\ up = TRUE /\ history = <<>>
  /\ nature \in Appetites
  /\ required \in Required
  /\ metrics = Fresh(0, nature)
  /\ records = 0

\* Each recording is saved before the next.
Save(m) ==
  /\ up /\ day = metrics.day
  /\ records < MaxRecords
  /\ records' = records + 1
  /\ metrics' = m
  /\ UNCHANGED <<day, up, nature, required, history>>

RecordConversation(depth, returning, response, bonus) ==
  Save([metrics EXCEPT !.engagement =
          WithConversation(@, depth, returning, response, bonus)])

RecordGrowth(kids, acolytes, points) ==
  Save([metrics EXCEPT !.growth.kids = @ + kids, !.growth.acolytes = @ + acolytes,
                       !.growth.points = @ + points])

RecordEconomicResult(revenue, efficiency) ==
  /\ metrics.wealth # None
  /\ Save(IF metrics.wealth.samples = U32_MAX THEN metrics
          ELSE [metrics EXCEPT !.wealth.revenue = @ + revenue, !.wealth.samples = @ + 1,
                               !.wealth.efficiency = @ + efficiency])

\* Parent, operator and recruiter take their shares, the child keeps the rest.
RecordDistribution(gross) ==
  /\ metrics.wealth # None
  /\ LET parent == (gross * 15) \div 100
         operator == (gross * 10) \div 100
         recruiter == (gross * 5) \div 100
     IN Save([metrics EXCEPT !.wealth.revenue = @ + gross - parent - operator - recruiter,
                             !.wealth.parent = @ + parent, !.growth.operator = @ + operator,
                             !.growth.recruiter = @ + recruiter])

RecordInfluence(votes, points) ==
  Save([metrics EXCEPT !.influence.votes = @ + votes, !.influence.points = @ + points])

RecordNodeEconomics(snap) == Save(Observed(metrics, snap, required))

\* /adjust needs a day without observations, and leaves its mark on it.
AdjustNature(n) ==
  /\ n # nature
  /\ Unobserved(metrics) /\ metrics.economics = None
  /\ up /\ day = metrics.day
  /\ records < MaxRecords
  /\ records' = records + 1
  /\ metrics' = [metrics EXCEPT !.nature = n, !.stress = @ + 1]
  /\ nature' = n
  /\ UNCHANGED <<day, up, required, history>>

\* The day is over: its judgment enters the history, then the next day opens.
AppendHistory ==
  /\ up /\ day > metrics.day
  /\ Evaluable(metrics)
  /\ history' = Append(history, Record(metrics))

CloseDay ==
  /\ AppendHistory
  /\ metrics' = Fresh(day, nature)
  /\ UNCHANGED <<day, up, nature, required, records>>

CrashAfterAppend ==
  /\ AppendHistory
  /\ up' = FALSE
  /\ UNCHANGED <<day, nature, required, metrics, records>>

Crash == up /\ up' = FALSE /\ UNCHANGED <<day, nature, required, metrics, history, records>>

\* A history that is ahead of the metrics by exactly their judgment opens the
\* next day; metrics whose holdings were judged under another policy are refused.
Open(min, n) ==
  LET ahead == history # <<>> /\ metrics.day <= history[Len(history)].metrics.day
      m == IF ahead THEN Fresh(day, nature) ELSE metrics
  IN /\ ahead => metrics = history[Len(history)].metrics /\ day > metrics.day
     /\ IF m.economics = None THEN TRUE
        ELSE m.economics.nature = nature /\ m.economics.required = min
     /\ metrics' = m

Restart(min) ==
  /\ ~up /\ up' = TRUE
  /\ Open(min, nature)
  /\ required' = min
  /\ UNCHANGED <<day, nature, history, records>>

NextDay ==
  /\ day < MaxDay
  /\ day' = day + 1
  /\ UNCHANGED <<up, nature, required, metrics, history, records>>

Next ==
  \/ \E d \in Depth, b \in BOOLEAN, r \in Response \cup {None}, bonus \in {0, SCORE_MAX} :
       RecordConversation(d, b, r, bonus)
  \/ \E kids \in 0..1, points \in {0, 30} : RecordGrowth(kids, 1 - kids, points)
  \/ \E revenue \in {0, 70000}, efficiency \in {0, SCORE_MAX} : RecordEconomicResult(revenue, efficiency)
  \/ RecordDistribution(99999)
  \/ \E points \in {0, 30} : RecordInfluence(1, points)
  \/ \E snap \in Snapshot : RecordNodeEconomics(snap)
  \/ \E n \in Appetites : AdjustNature(n)
  \/ CloseDay
  \/ CrashAfterAppend
  \/ Crash
  \/ \E min \in Required : Restart(min)
  \/ NextDay

Spec == Init /\ [][Next]_vars

-----------------------------------------------------------------------------
\* What the metrics and the history hold is what a restart accepts, and the
\* open day can be judged and its record reloaded, whatever it has recorded.
JudgmentsReload ==
  /\ ValidMetrics(metrics)
  /\ ValidHistory(history)
  /\ Evaluable(metrics) => ValidRecord(Record(metrics))

\* The same day with more verified holdings or stake is never judged worse.
RicherIsNoWorse ==
  \A s, t \in Snapshot :
    s.balance <= t.balance /\ s.stake <= t.stake =>
      LET poor == Judge(Observed(metrics, s, required))
          rich == Judge(Observed(metrics, t, required))
      IN poor.scores.total <= rich.scores.total /\ Rank(poor.outcome) <= Rank(rich.outcome)
=============================================================================
