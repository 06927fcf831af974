---------------------------- MODULE MCConvergence ----------------------------
(***************************************************************************)
(* What the other retrying components reach in the end, under the fairness *)
(* their modules state: the supervisors carry out a binding Death (part    *)
(* "death"), promised bounties are paid ("growth") and Hermes makes the    *)
(* knowledge of linked nodes equal ("hermes").  A behaviour exercises one  *)
(* of them and leaves the others in an initial state.                      *)
(***************************************************************************)
EXTENDS Supervisor

VARIABLES
    part,
    state, growth_saved, reward, accepted, notice, journal, allocated, payments, mined,
    funded, growth_crashes, growth_failures,
    node, node_saved, wire, faults

-----------------------------------------------------------------------------
\* Growth: one Acolyte b, on an inbox of its own, and an operator o.
Growth ==
    INSTANCE Growth WITH
        Address <- {"b", "o", "m"}, minter <- "m", Inbox <- {"i1", "i2", "i3", "io"},
        ContactUses <- {<<"i2", "b">>}, OperatorUses <- {<<"io", "o">>},
        Reward <- {1}, MAX_RECORDS <- 1, MaxCrashes <- 0, MaxFailedSaves <- 0,
        OperatorsAnswer <- TRUE,
        saved <- growth_saved, inflight <- notice,
        crashes <- growth_crashes, failures <- growth_failures

-----------------------------------------------------------------------------
(* Hermes: three nodes in a line, the last one banned from sending; two    *)
(* items, one of them in a better revision too.                            *)

First == [id |-> 1, rank |-> 0, at |-> 2, digest |-> 1, author |-> 1]
Second == [id |-> 2, rank |-> 0, at |-> 1, digest |-> 2, author |-> 1]
Better == [id |-> 1, rank |-> 1, at |-> 1, digest |-> 3, author |-> 2]

Hermes ==
    INSTANCE Hermes WITH
        Node <- 1..3, Links <- {{1, 2}, {2, 3}}, Revision <- {First, Second, Better},
        MAX_KNOWLEDGE_ITEMS <- 2, MAX_PENDING_OUTBOUND <- 1, MAX_PATH_HOPS <- 3,
        MAX_OUTBOUND_BATCH <- 1, MaxWire <- 0, MaxFaults <- 0, Banned <- {3},
        saved <- node_saved

ASSUME ConvergenceAssumption == Growth!GrowthParameters /\ Hermes!HermesParameters

-----------------------------------------------------------------------------
growthVars ==
    <<state, growth_saved, reward, accepted, notice, journal, allocated, payments, mined,
      funded, growth_crashes, growth_failures>>

hermesVars == <<node, node_saved, wire, faults>>

PartsInit ==
    part \in {"death", "growth", "hermes"} /\ Init /\ Growth!GrowthInit /\ Hermes!HermesInit

PartsNext ==
    /\ UNCHANGED part
    /\ \/ part = "death" /\ Next /\ UNCHANGED <<growthVars, hermesVars>>
       \/ part = "growth" /\ Growth!GrowthNext /\ UNCHANGED <<vars, hermesVars>>
       \/ part = "hermes" /\ Hermes!HermesNext /\ UNCHANGED <<vars, growthVars>>

\* The fairness of the part a behaviour exercises.
PartsFairness ==
    \/ []<>(part = "death") /\ Fairness
    \/ []<>(part = "growth") /\ Growth!Fairness
    \/ []<>(part = "hermes") /\ Hermes!Fairness

PartsSpec ==
    PartsInit /\ [][PartsNext]_<<vars, growthVars, hermesVars, part>> /\ PartsFairness

-----------------------------------------------------------------------------
(* Properties *)

\* A Death is bought off or ends in a receipted Shutdown: a hanging executor or
\* RPC server, open turns and restarts only delay it.
DeathArrives == []<>(part = "death") => DeathIsCarriedOut

\* "Reconciliation resumes automatically after funding": once the treasury is and
\* stays funded, every promised bounty is confirmed and its referrer told.
ResumesWhenFunded == []<>(part = "growth") => Growth!ResumesWhenFunded

\* "Queue pressure cannot permanently strand knowledge": in the end every peer of
\* a node that may send holds revisions at least as good as its own.
Converges == []<>(part = "hermes") => Hermes!Converges
=============================================================================
