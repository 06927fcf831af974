------------------------------ MODULE MCEconomy ------------------------------
(***************************************************************************)
(* Finite instances of what moves UWU: the Acolyte Branding contract,      *)
(* growth with its bounties, and the queue of mint offers.  A behaviour    *)
(* exercises one of them, named by part, and leaves the others in an       *)
(* initial state.                                                          *)
(***************************************************************************)
EXTENDS Branding, Growth, TLC

CONSTANTS w1, w2, a1, g1, g2

VARIABLES
    part,
    queue, offers_saved, open, delivery, window, active, treasury, minted, bound, offers,
    offers_crashes, offers_failures

-----------------------------------------------------------------------------
(* The contract. *)

\* One consent: the acolyte accepts w1 and names w2 as its referrer.
MCConsents ==
    {[acolyte |-> a1, minter |-> w1, controllerAgentId |-> g1, referrer |-> w2,
      initialDeclaredPrice |-> 100, nonce |-> 0, deadline |-> 1]}

\* Each controller starts with an agent of its own; the first agent is rebound,
\* deregistered, unreadable and back.
MCRegistry == g1 :> w1 @@ g2 :> w2
MCMoves == {<<g1, w1>>, <<g1, w2>>, <<g1, Nobody>>, <<g1, Unreadable>>}

\* w2 can afford a purchase at 20000 (it is the referrer and gets 2000 back),
\* but not the upkeep on top.
MCFunds == w1 :> 24000 @@ w2 :> 18000 @@ a1 :> 0

-----------------------------------------------------------------------------
(* Growth: Acolytes a (on two inboxes), b and c (on a shared one), and an  *)
(* operator o.                                                             *)

MCContactUses == {<<"i1", "a">>, <<"i3", "a">>, <<"i2", "b">>, <<"i2", "c">>}
MCOperatorUses == {<<"io", "o">>}

\* Offers: one conversation, whose third offer finds the queue full.
Offers ==
    INSTANCE Offers WITH
        Talk <- {"t"}, Referrer <- {"r"}, Controller <- {"k", "l"}, Treasury <- {1, 2},
        Signature <- {"s"}, MAX_ACTIONS <- 2, MaxOffers <- 3,
        MaxCrashes <- 1, MaxFailedSaves <- 1,
        saved <- offers_saved, inflight <- delivery,
        crashes <- offers_crashes, failures <- offers_failures

ASSUME EconomyAssumption == InboxesApart /\ Offers!OffersParameters

-----------------------------------------------------------------------------
offersVars ==
    <<queue, offers_saved, open, delivery, window, active, treasury, minted, bound, offers,
      offers_crashes, offers_failures>>

economyVars == <<vars, growthVars, offersVars, part>>

EconomyInit ==
    /\ part \in {"branding", "growth", "offers"}
    /\ Init /\ GrowthInit
    /\ Offers!Init /\ (part = "offers" \/ (active = "k" /\ treasury = 1))

EconomyNext ==
    /\ UNCHANGED part
    /\ \/ part = "branding" /\ Next /\ UNCHANGED <<growthVars, offersVars>>
       \/ part = "growth" /\ GrowthNext /\ UNCHANGED <<vars, offersVars>>
       \/ part = "offers" /\ Offers!Next /\ UNCHANGED <<vars, growthVars>>

EconomySpec == EconomyInit /\ [][EconomyNext]_economyVars

\* One fault a behaviour; the registration and the treasury move, one at a time,
\* while there is one offer at most.
OffersBound ==
    /\ offers_crashes + offers_failures <= 1
    /\ active = "k" \/ treasury = 1
    /\ offers > 1 => active = "k" /\ treasury = 1

-----------------------------------------------------------------------------
(* The property of the offers, as stated in their module. *)

\* While a consent may be executed nothing else of its conversation is live, and
\* only an offer whose consent was answered as bound is ever minted from.
ConsentIsBinding == part = "offers" => Offers!ConsentIsBinding
=============================================================================
