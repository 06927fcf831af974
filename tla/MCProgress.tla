------------------------------ MODULE MCProgress -----------------------------
(***************************************************************************)
(* What the two durable queues of chain work reach in the end: the         *)
(* registration journal an active registration (part "registration"), and  *)
(* every offer of Branding that is due its turn ("offers").  A behaviour   *)
(* exercises one of them and leaves the other in an initial state.         *)
(***************************************************************************)
EXTENDS Naturals, Sequences

CONSTANTS NewAgent, None

VARIABLES
    part,
    state, disk, audited, audits, job, helpers, allocated, mint_allocation, actions,
    agents, chain, firm, final, height, mempool, sent, used,
    queue, saved, open, inflight, window, active, treasury, minted, bound, offers,
    crashes, failures

-----------------------------------------------------------------------------
(* Registration. *)

Blank == [uri |-> 0, allegiance |-> 0]
Published == [uri |-> 1, allegiance |-> 1]
Declared == [uri |-> 0, allegiance |-> 1]

\* Nothing registered; a migration candidate; two duplicates, the newer bound.
MCWorlds ==
    {[agents |-> <<>>, bound |-> None],
     [agents |-> <<Declared>>, bound |-> None],
     [agents |-> <<Published, Published>>, bound |-> 2]}

Registration ==
    INSTANCE Registration WITH
        Fields <- <<"uri", "allegiance">>, Worlds <- MCWorlds, auto_register <- TRUE,
        MaxFaults <- 2, MaxLost <- 1, MaxCrashes <- 1, MaxReorgs <- 1,
        MaxReplacements <- 1, MaxReverts <- 0, MaxForeign <- 0, MaxCommands <- 0,
        MaxBlocks <- 1, MaxTroubles <- 2

\* Offers: two conversations with one referrer and room for both.
Offers ==
    INSTANCE Offers WITH
        Talk <- {"t", "u"}, Referrer <- {"r"}, Controller <- {"k"}, Treasury <- {1},
        Signature <- {"s"}, MAX_ACTIONS <- 2, MaxOffers <- 2,
        MaxCrashes <- 0, MaxFailedSaves <- 0

ASSUME ProgressAssumption == Offers!OffersParameters

-----------------------------------------------------------------------------
registrationVars ==
    <<state, disk, audited, audits, job, helpers, allocated, mint_allocation, actions,
      agents, chain, firm, final, height, mempool, sent, used>>

offersVars ==
    <<queue, saved, open, inflight, window, active, treasury, minted, bound, offers,
      crashes, failures>>

ProgressInit ==
    /\ part \in {"registration", "offers"}
    /\ Registration!Init /\ (part = "registration" \/ agents = <<>>)
    /\ Offers!Init

ProgressNext ==
    /\ UNCHANGED part
    /\ \/ part = "registration" /\ Registration!Next /\ UNCHANGED offersVars
       \/ part = "offers" /\ Offers!Next /\ UNCHANGED registrationVars

\* The fairness of the part a behaviour exercises.
ProgressFairness ==
    \/ []<>(part = "registration") /\ Registration!Fairness
    \/ []<>(part = "offers") /\ Offers!Fairness

ProgressSpec ==
    ProgressInit /\ [][ProgressNext]_<<registrationVars, offersVars, part>> /\ ProgressFairness

\* The two conversations are alike: the first offer is made in the first.
ConversationsInOrder ==
    \A n \in DOMAIN queue.actions : queue.actions[n].id = 1 => queue.actions[n].talk = "t"

-----------------------------------------------------------------------------
(* Properties *)

\* Whatever is lost, reorganized or replaced within the bounds, the journal gets to
\* an active registration or to a state in which it waits for its operator.
EventuallyActive == []<>(part = "registration") => Registration!EventuallyActive

\* "One failing action can never starve the rest after a crash": an offer that is
\* due is served or retired, whatever the other offers do.
EveryDueActionServed == []<>(part = "offers") => Offers!EveryDueActionServed
=============================================================================
