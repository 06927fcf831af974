------------------------------ MODULE Routing ------------------------------
(***************************************************************************)
(* The routing engine (crates/cthuwu-council/src/routing.rs): hard         *)
(* requirements filter the candidates, a weighted sum ranks the rest, and  *)
(* identifiers break ties.                                                 *)
(*                                                                         *)
(* The engine is a pure function; the state here is the list of offers a   *)
(* rendezvous has collected so far, in their order of arrival.             *)
(***************************************************************************)
EXTENDS Integers, Sequences, SequencesExt, FiniteSets

CONSTANTS
    Advertisement,      \* what Tentacles advertise: see FromTentacle
    Request,            \* routing requests of record type, see Eligible and Score
    MAX_CANDIDATES,
    MaxOffers,          \* bound of the collected offers
    NoTentacle          \* an absent preference (None) and an absent selection

\* What the parameters must satisfy; assumed where they get their values.
RoutingParameters ==
    /\ MAX_CANDIDATES \in Nat
    /\ MaxOffers \in Nat

VARIABLES request, offers

vars == <<request, offers>>

Least(a, b) == IF a <= b THEN a ELSE b

Greatest(a, b) == IF a >= b THEN a ELSE b

-----------------------------------------------------------------------------
\* RouteCandidate::from_tentacle: the load is the worse of what the free
\* sessions and what the load ratio say, and never more than the capacity.
FromTentacle(a) ==
    [cthulhu |-> a.owner, tentacle |-> a.tentacle,
     healthy |-> a.health = "Healthy" /\ a.lifecycle = "Ready",
     offered |-> a.capabilities, protocols |-> a.protocols,
     capacity |-> a.capacity,
     current_load |->
        Least(a.capacity,
              Greatest(Greatest(0, a.capacity - a.available),
                       (a.capacity * a.load_per_mille) \div 1000)),
     allowlisted |-> a.allowlisted, registry |-> a.registry,
     reputation |-> a.reputation]

LoadPercent(c) ==
    IF c.capacity = 0 THEN 100
    ELSE Least(100, (c.current_load * 100) \div c.capacity)

\* The hard requirements of evaluate_candidate; every capability, tool,
\* memory-mode, privacy, local-inference and context requirement is a label.
Eligible(r, c) ==
    /\ c.healthy
    /\ c.capacity \in 1..1000000
    /\ c.current_load <= c.capacity
    /\ c.reputation \in -1000..1000
    /\ LoadPercent(c) <= r.maximum_load_percent
    /\ r.required \subseteq c.offered
    /\ r.protocols \subseteq c.protocols
    /\ r.require_allowlisted => c.allowlisted
    /\ r.require_registry => c.registry
    /\ c.reputation >= r.minimum_reputation

\* A score is an i64; it is kept as <<s \div 10^8, s % 10^8>>.
Unit == 100000000

Normal(units, rest) == <<units + rest \div Unit, rest % Unit>>

IfThen(condition, value) == IF condition THEN value ELSE 0

\* Seeded fault: the explicit choice weighs no more than the affinity.
ScoreWeakChoice(r, c) ==
    LET headroom == Least(10000, Greatest(0, c.capacity - c.current_load))
        preference == IfThen(r.explicit_tentacle = c.tentacle, 10)
                      + IfThen(r.affinity_tentacle = c.tentacle, 100)
                      + IfThen(r.home_tentacle = c.tentacle, 10)
                      + IfThen(c.tentacle \in r.owned, 1)
    IN  Normal(preference + headroom \div 1000, (headroom % 1000) * 100000)

\* Seeded fault: an affinity weighs as much as a home Tentacle.
ScoreWeakAffinity(r, c) ==
    LET headroom == Least(10000, Greatest(0, c.capacity - c.current_load))
        preference == IfThen(r.explicit_tentacle = c.tentacle, 10000)
                      + IfThen(r.affinity_tentacle = c.tentacle, 10)
                      + IfThen(r.home_tentacle = c.tentacle, 10)
                      + IfThen(c.tentacle \in r.owned, 1)
    IN  Normal(preference + headroom \div 1000, (headroom % 1000) * 100000)

\* The weights of evaluate_candidate.
Score(r, c) ==
    LET headroom == Least(10000, Greatest(0, c.capacity - c.current_load))
        preference ==
            (CASE r.explicit_tentacle = c.tentacle -> 10000
               [] r.explicit_tentacle # c.tentacle /\ r.explicit_cthulhu = c.cthulhu -> 5000
               [] OTHER -> 0)
            + IfThen(r.affinity_tentacle = c.tentacle, 100)
            + IfThen(r.home_tentacle = c.tentacle, 10)
            + IfThen(c.tentacle \in r.owned, 1)
        signals == Least(16, Cardinality(c.protocols)) * 10000
                   + IfThen(c.registry, 5000)
                   + IfThen(c.allowlisted, 5000)
                   + c.reputation * 10
                   + (100 - LoadPercent(c))
    IN  Normal(preference + headroom \div 1000, (headroom % 1000) * 100000 + signals)

\* evaluate_candidate: an ineligible candidate scores zero.
EvaluateCandidate(r, c) ==
    [cthulhu |-> c.cthulhu, tentacle |-> c.tentacle, eligible |-> Eligible(r, c),
     score |-> IF Eligible(r, c) THEN Score(r, c) ELSE <<0, 0>>]

Above(a, b) == a[1] > b[1] \/ (a[1] = b[1] /\ a[2] > b[2])

\* Seeded fault: the arrival order breaks ties.
BeforeByScore(a, b) ==
    \/ a.eligible /\ ~b.eligible
    \/ a.eligible = b.eligible /\ Above(a.score, b.score)

\* The order of the explanations: eligible first, then score, then identifiers.
Before(a, b) ==
    \/ a.eligible /\ ~b.eligible
    \/ /\ a.eligible = b.eligible
       /\ \/ Above(a.score, b.score)
          \/ /\ a.score = b.score
             /\ \/ a.cthulhu < b.cthulhu
                \/ a.cthulhu = b.cthulhu /\ a.tentacle < b.tentacle

\* A stable insertion sort of the explanations, as slice::sort_by is stable.
SortExplanations(es) ==
    LET Place(sorted, e) ==
            LET n == Cardinality({k \in 1..Len(sorted) : ~Before(e, sorted[k])})
            IN  SubSeq(sorted, 1, n) \o <<e>> \o SubSeq(sorted, n + 1, Len(sorted))
    IN  FoldLeft(Place, <<>>, es)

\* RoutingEngine::route: the outcome and, when there is one, the selection.
Route(r, cs) ==
    LET identities == {<<cs[k].cthulhu, cs[k].tentacle>> : k \in DOMAIN cs}
        sorted == SortExplanations([k \in DOMAIN cs |-> EvaluateCandidate(r, cs[k])])
    IN  CASE Len(cs) > MAX_CANDIDATES -> <<"TooManyCandidates", NoTentacle>>
          [] /\ Len(cs) <= MAX_CANDIDATES
             /\ Cardinality(identities) < Len(cs) -> <<"DuplicateCandidate", NoTentacle>>
          [] /\ Len(cs) <= MAX_CANDIDATES
             /\ Cardinality(identities) = Len(cs)
             /\ \A k \in DOMAIN cs : ~Eligible(r, cs[k]) ->
                <<"NoEligibleCandidate", NoTentacle>>
          [] OTHER -> <<"Ok", sorted[1].tentacle>>

-----------------------------------------------------------------------------
Init ==
    /\ request \in Request
    /\ offers = <<>>

\* One more offer arrives for the request.
Advertise(a) ==
    /\ Len(offers) < MaxOffers
    /\ offers' = Append(offers, FromTentacle(a))
    /\ UNCHANGED request

Next == \E a \in Advertisement : Advertise(a)

Spec == Init /\ [][Next]_vars

-----------------------------------------------------------------------------
(* Properties *)

Reordered(cs) ==
    {[k \in DOMAIN cs |-> cs[p[k]]] : p \in
        {q \in [DOMAIN cs -> DOMAIN cs] : \A x, y \in DOMAIN cs : q[x] = q[y] => x = y}}

\* "The tie-breaker uses stable identifiers, not arrival order": the decision,
\* refusals included, is the same for every order in which offers arrive.
ArrivalOrderIrrelevant ==
    \A cs \in Reordered(offers) : Route(request, cs) = Route(request, offers)

Routed == Route(request, offers)[1] = "Ok"

Contender(t) == \E k \in DOMAIN offers :
    offers[k].tentacle = t /\ Eligible(request, offers[k])

\* An eligible explicitly chosen Tentacle is selected, whatever affinity, home,
\* ownership, capacity and reputation the others add up to.
ExplicitChoiceWins ==
    Routed /\ Contender(request.explicit_tentacle) =>
        Route(request, offers)[2] = request.explicit_tentacle

\* Without an explicit choice, an eligible Tentacle with the session's affinity
\* is selected over any home, owned, larger or better-reputed one.
AffinityKept ==
    /\ Routed
    /\ request.explicit_tentacle = NoTentacle
    /\ request.explicit_cthulhu = NoTentacle
    /\ Contender(request.affinity_tentacle)
    => Route(request, offers)[2] = request.affinity_tentacle
=============================================================================
