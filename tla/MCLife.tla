------------------------------ MODULE MCLife ------------------------------
(***************************************************************************)
(* Finite instances of what a Tentacle's life goes through: its ERC-8004   *)
(* registration, its lifecycle runtime (twice: with automatic spawning,    *)
(* and with an acolyte's rewards), the awakening ritual, the lineage, the  *)
(* Death ledger and the scales it is judged on.  A behaviour exercises one *)
(* of them, named by part, and leaves the others in an initial state.      *)
(***************************************************************************)
EXTENDS Registration

VARIABLES
    part,
    day, files, runtime, done, crashes,
    log, nature, bound, ritual, clock, faults,
    nodes, spawns, absorptions, revision,
    now, pending, shutdown, intents, receipts, canceled, projecting, projections, lineage,
    offered, mined,
    today, up, judged, required, metrics, history, records

-----------------------------------------------------------------------------
MCFields == <<"uri", "allegiance">>
Blank == [uri |-> 0, allegiance |-> 0]
Published == [uri |-> 1, allegiance |-> 1]
Declared == [uri |-> 0, allegiance |-> 1]

\* Nothing registered; a migration candidate; two duplicates, the newer bound.
MCWorlds ==
    {[agents |-> <<>>, bound |-> None],
     [agents |-> <<Declared>>, bound |-> None],
     [agents |-> <<Published, Published>>, bound |-> 2]}

\* Children born of themselves, a public turn under way; rewards beside them.
Spawning ==
    INSTANCE Lifecycle WITH
        Child <- {<<"named", 0>>}, Event <- {}, Turn <- {"t"}, AutoSpawn <- TRUE, HasParent <- TRUE,
        MaxDay <- 2, MaxEpoch <- 2, MaxCrashes <- 1, disk <- files, mem <- runtime
Rewarding ==
    INSTANCE Lifecycle WITH
        Child <- {<<"named", 0>>}, Event <- {"e"}, Turn <- {"t"}, AutoSpawn <- FALSE, HasParent <- TRUE,
        MaxDay <- 2, MaxEpoch <- 2, MaxCrashes <- 1, disk <- files, mem <- runtime

Awakening ==
    INSTANCE Awakening WITH
        Message <- {<<"message", 1>>, <<"message", 2>>}, Pid <- {1}, Top <- 1, MAX_LOG_ENTRIES <- 3, MaxNow <- 1,
        MaxFaults <- 1, mem <- ritual, now <- clock

Lineage ==
    INSTANCE Lineage WITH
        Tentacle <- {"r", "c", "d"}, Root <- "r", Parent <- "p", NatureId <- {"m", "n", "o"},
        MaxTime <- 1

\* One judgment, one relative, one transaction: two burns may claim it.
Death ==
    INSTANCE Death WITH
        Judgment <- {"j"}, Terms <- {"b"}, Grace <- {1}, Relative <- {"p"}, Tx <- {"t"},
        LIFECYCLE_RECEIPT_CLOCK_SKEW_MS <- 1, MaxAttempt <- 2, MaxNow <- 1

Scales ==
    INSTANCE Scales WITH
        Appetites <- {<<90, 0, 35, 60>>, <<33, 33, 34, 1>>},
        Balance <- {0, 10000}, Stake <- {0, 10000}, Required <- {0, 100}, Depth <- {3},
        Response <- {60000}, U32_MAX <- 1, MaxDay <- 1, MaxRecords <- 2,
        day <- today, nature <- judged

ASSUME LifeAssumption ==
    Lineage!LineageParameters /\ Death!DeathParameters /\ Scales!ScalesParameters

-----------------------------------------------------------------------------
lifecycleVars == <<day, files, runtime, done, crashes>>
awakeningVars == <<log, nature, bound, ritual, clock, faults>>
lineageVars == <<nodes, spawns, absorptions, revision>>
deathVars == <<now, pending, shutdown, intents, receipts, canceled, projecting, projections,
               lineage, offered, mined>>
scalesVars == <<today, up, judged, required, metrics, history, records>>

lifeVars == <<vars, lifecycleVars, awakeningVars, lineageVars, deathVars, scalesVars, part>>

\* Only the exercised component's initial states are varied.
LifeInit ==
    /\ part \in {"registration", "spawning", "rewarding", "awakening", "lineage", "death",
                 "scales"}
    /\ Init /\ (part = "registration" \/ agents = <<>>)
    /\ IF part = "rewarding" THEN Rewarding!LifecycleInit ELSE Spawning!LifecycleInit
    /\ part \in {"spawning", "rewarding"} \/ (files.life = Spawning!NoLife /\ ~files.log.killed)
    /\ Awakening!Init /\ Death!Init
    /\ Lineage!Init
    /\ part = "lineage" \/ nodes["r"] = Lineage!Node(None, Lineage!Nature("m", 1, "n"), 0)
    /\ Scales!Init
    /\ part = "scales" \/ (judged = <<33, 33, 34, 1>> /\ required = 0)

\* The rest of the parts stays as it is.
Only(p, others) == part = p /\ UNCHANGED part /\ UNCHANGED others

LifeNext ==
    \/ Only("registration", <<lifecycleVars, awakeningVars, lineageVars, deathVars, scalesVars>>)
       /\ Next
    \/ Only("spawning", <<vars, awakeningVars, lineageVars, deathVars, scalesVars>>)
       /\ Spawning!LifecycleNext
    \/ Only("rewarding", <<vars, awakeningVars, lineageVars, deathVars, scalesVars>>)
       /\ Rewarding!LifecycleNext
    \/ Only("awakening", <<vars, lifecycleVars, lineageVars, deathVars, scalesVars>>)
       /\ Awakening!Next
    \/ Only("lineage", <<vars, lifecycleVars, awakeningVars, deathVars, scalesVars>>)
       /\ Lineage!Next
    \/ Only("death", <<vars, lifecycleVars, awakeningVars, lineageVars, scalesVars>>)
       /\ Death!Next
    \/ Only("scales", <<vars, lifecycleVars, awakeningVars, lineageVars, deathVars>>)
       /\ Scales!Next

LifeSpec == LifeInit /\ [][LifeNext]_lifeVars

\* The registration alone, with the fairness of its module.
RegistrationSpec == part = "registration" /\ LifeSpec /\ Fairness

-----------------------------------------------------------------------------
\* Bound of the ledger: one action fails for good.
LifeBound == part = "death" => Cardinality({r \in receipts : ~r.ok}) <= 1

-----------------------------------------------------------------------------
(* Properties, as stated in their modules. *)

\* What is counted for a day is counted in it once: children, adjustments and
\* public turns, whatever crash fell between the files that record them.
PeriodsAccount ==
    /\ part = "spawning" => Spawning!PeriodsAddUp /\ Spawning!TurnsKeepTheirPeriod
    /\ part = "rewarding" => Rewarding!PeriodsAddUp /\ Rewarding!TurnsKeepTheirPeriod

\* What a step left on disk is what the next start accepts: the awakening's log
\* with its Nature, the ledger of a Death, the family.
LifeReloads ==
    /\ part = "awakening" => Awakening!Recoverable
    /\ part = "death" => Death!LedgerReloads
    /\ part = "lineage" => Lineage!FamilyReloads

\* A day can always be judged and its record reloaded, and more verified holdings
\* never make the judgment worse.
JudgmentsSound == part = "scales" => Scales!JudgmentsReload /\ Scales!RicherIsNoWorse
=============================================================================
