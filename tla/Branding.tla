------------------------------ MODULE Branding ------------------------------
(***************************************************************************)
(* CthuwuAcolyteBranding.sol: the Base contract holding one branding (a    *)
(* service right) per acolyte address.  A transaction is atomic and a      *)
(* revert leaves no trace, so each external function is one action whose   *)
(* guards are its reverts.  The controller of a branding prepays service   *)
(* week by week at a price it declares itself, and any eligible Tentacle   *)
(* may take an active branding by paying that price.                       *)
(*                                                                         *)
(* Abstractions.  A token id is its acolyte's address.  A signature is     *)
(* valid when the acolyte signed exactly that consent (Consents).  The     *)
(* five bounded registry reads about an agent come down to the one wallet  *)
(* they prove eligible, Nobody, or Unreadable.  An UWU transfer needs the  *)
(* payer's balance; allowances only make a transaction revert.  Events,    *)
(* the royalty record and the JSON metadata are left out, and the avatar   *)
(* and the traits, which no rule here reads, are in BrandingTraits.        *)
(***************************************************************************)
EXTENDS Integers

CONSTANTS
  Addresses,         \* wallets, acolytes and referrers: they may coincide
  Acolytes,          \* the addresses brandings are about
  Controllers,       \* the wallets that hold registered agents
  Agents,            \* ERC-8004 agent ids
  Consents,          \* the MintConsents their acolytes have signed
  Prices,            \* the prices callers declare, in UWU base units
  Deadlines,         \* the deadlines callers put in a transaction
  Funds,             \* the UWU each address starts with
  InitialRegistry,   \* what the registry says at first
  RegistryMoves,     \* what it may say later: pairs of an agent and a wallet
  NoOne, Nobody, Unreadable,
  WEEK, UPKEEP_BPS, REFERRAL_BPS, BPS_DENOMINATOR,
  MaxTimestamp,      \* type(uint256).max
  MaxTime,           \* bound of the run: the last block timestamp
  MaxTransfers       \* bound of the run: purchases and claims

ASSUME AddressAssumption ==
  /\ Acolytes \subseteq Addresses
  /\ Controllers \subseteq Addresses
  /\ NoOne \notin Addresses
  /\ Nobody \notin Addresses
  /\ Unreadable \notin Addresses \cup {Nobody}

ASSUME RegistryAssumption ==
  /\ InitialRegistry \in [Agents -> Controllers \cup {Nobody, Unreadable}]
  /\ RegistryMoves \subseteq
       Agents \X (Controllers \cup {Nobody, Unreadable})

ASSUME PriceAssumption == Prices \subseteq Nat \ {0}

ASSUME RateAssumption ==
  /\ BPS_DENOMINATOR \in Nat \ {0}
  /\ UPKEEP_BPS \in 0..BPS_DENOMINATOR
  /\ REFERRAL_BPS \in 0..BPS_DENOMINATOR

ASSUME TimeAssumption ==
  /\ WEEK \in Nat \ {0}
  /\ MaxTimestamp \in Nat
  /\ MaxTime \in Nat
  /\ MaxTransfers \in Nat
  /\ Deadlines \subseteq Nat
  /\ Funds \in [Addresses -> Nat]

\* struct MintConsent: what an acolyte signs.
MintConsent ==
  [acolyte: Acolytes, minter: Addresses, controllerAgentId: Agents,
   referrer: Addresses, initialDeclaredPrice: Prices, nonce: Nat,
   deadline: Nat]

ASSUME ConsentAssumption == Consents \subseteq MintConsent

VARIABLES
  now,         \* block.timestamp
  registry,    \* the wallet the canonical registry proves for an agent
  nonces,      \* the next consent nonce of an acolyte
  owner,       \* ERC-721 ownership
  brandings,   \* _brandings
  balances,    \* UWU
  charged,     \* history: the weeks paid for, and the price each was paid at
  transfers    \* history: the number of purchases and claims

vars ==
  <<now, registry, nonces, owner, brandings, balances, charged, transfers>>

\* struct BrandingData, less the acolyte, which is the token id.
BrandingData ==
  [referrer: Addresses \cup {NoOne}, controllerAgentId: Agents \cup {NoOne},
   declaredPrice: Nat, paidThrough: Nat, pendingDeclaredPrice: Nat,
   pendingPriceActivation: Nat]

\* The storage of a token that was never minted.
Unminted ==
  [referrer |-> NoOne, controllerAgentId |-> NoOne, declaredPrice |-> 0,
   paidThrough |-> 0, pendingDeclaredPrice |-> 0,
   pendingPriceActivation |-> 0]

Init ==
  /\ now = 0
  /\ registry = InitialRegistry
  /\ nonces = [a \in Acolytes |-> 0]
  /\ owner = [a \in Acolytes |-> NoOne]
  /\ brandings = [a \in Acolytes |-> Unminted]
  /\ balances = Funds
  /\ charged = [a \in Acolytes |-> {}]
  /\ transfers = 0

-----------------------------------------------------------------------------
(* Views and helpers. *)

\* Seeded fault in WeeklyUpkeepForPrice: rounded downward.
WeeklyUpkeepFloor(price) == (price * UPKEEP_BPS) \div BPS_DENOMINATOR

\* weeklyUpkeepForPrice: rounded upward, so that every price costs something.
WeeklyUpkeepForPrice(price) ==
  (price * UPKEEP_BPS + BPS_DENOMINATOR - 1) \div BPS_DENOMINATOR

\* upkeepReferralForAmount, and the referral of a sale: rounded downward.
ReferralOf(amount) == (amount * REFERRAL_BPS) \div BPS_DENOMINATOR

\* _registryEligibility.
RegistryEligibility(agent, wallet) ==
  IF registry[agent] = Unreadable THEN "Unavailable"
  ELSE IF registry[agent] = wallet THEN "Eligible" ELSE "Ineligible"

\* _requireEligible.
RequireEligible(agent, wallet) ==
  RegistryEligibility(agent, wallet) = "Eligible"

\* _statusOf: an outage hides expiry, and expiry hides ineligibility.
StatusOf(a) ==
  LET e == RegistryEligibility(brandings[a].controllerAgentId, owner[a]) IN
  CASE e = "Unavailable" -> "RegistryUnavailable"
    [] e # "Unavailable" /\ now >= brandings[a].paidThrough -> "Expired"
    [] e = "Ineligible" /\ now < brandings[a].paidThrough -> "Ineligible"
    [] e = "Eligible" /\ now < brandings[a].paidThrough -> "Active"

\* The price in force at a time: the queued one from its activation on.
PriceAt(b, time) ==
  IF b.pendingPriceActivation # 0 /\ time >= b.pendingPriceActivation
  THEN b.pendingDeclaredPrice ELSE b.declaredPrice

\* _effectiveDeclaredPrice.
EffectiveDeclaredPrice(b) == PriceAt(b, now)

\* _syncDeclaredPrice: a due increase becomes the declared price.
Synced(b) ==
  IF b.pendingPriceActivation = 0 \/ now < b.pendingPriceActivation
  THEN b
  ELSE [b EXCEPT !.declaredPrice = b.pendingDeclaredPrice,
                 !.pendingDeclaredPrice = 0,
                 !.pendingPriceActivation = 0]

\* _oneWeekFrom does not revert.
WeekFits(time) == time <= MaxTimestamp - WEEK

\* safeTransferFrom of the UWU token.
Moved(bal, from, to, amount) ==
  [bal EXCEPT ![from] = @ - amount, ![to] = @ + amount]

\* Seeded fault in PayUpkeep: the payer's balance is not checked.
PayUpkeepUnchecked(before, after, payer, acolyte, referrer, upkeep) ==
  after = Moved(Moved(before, payer, referrer, ReferralOf(upkeep)),
                payer, acolyte, upkeep - ReferralOf(upkeep))

\* _payUpkeep: the referrer's share first, then the acolyte's remainder.
PayUpkeep(before, after, payer, acolyte, referrer, upkeep) ==
  LET referral == ReferralOf(upkeep)
      between == Moved(before, payer, referrer, referral)
  IN  /\ before[payer] >= referral
      /\ between[payer] >= upkeep - referral
      /\ after = Moved(between, payer, acolyte, upkeep - referral)

\* A week of service that was paid for.
Week(from, price) == [from |-> from, to |-> from + WEEK, price |-> price]

-----------------------------------------------------------------------------
(* The external functions. *)

\* mintBranding.
MintBranding(sender, consent) ==
  LET a == consent.acolyte
      price == consent.initialDeclaredPrice IN
  /\ consent.minter = sender
  /\ now <= consent.deadline
  /\ consent.nonce = nonces[a]
  /\ nonces[a] < MaxTimestamp
  /\ owner[a] = NoOne
  /\ RequireEligible(consent.controllerAgentId, sender)
  /\ WeekFits(now)
  /\ nonces' = [nonces EXCEPT ![a] = @ + 1]
  /\ brandings' = [brandings EXCEPT ![a] =
       [referrer |-> consent.referrer,
        controllerAgentId |-> consent.controllerAgentId,
        declaredPrice |-> price, paidThrough |-> now + WEEK,
        pendingDeclaredPrice |-> 0, pendingPriceActivation |-> 0]]
  /\ owner' = [owner EXCEPT ![a] = sender]
  /\ PayUpkeep(balances, balances', sender, a, consent.referrer,
               WeeklyUpkeepForPrice(price))
  /\ charged' = [charged EXCEPT ![a] = {Week(now, price)}]
  /\ UNCHANGED <<now, registry, transfers>>

\* The start of the week that a renewal adds.
RenewalBase(b) == IF b.paidThrough > now THEN b.paidThrough ELSE now

\* Seeded fault in RenewalDue: the prepaid cap is off by a week.
RenewalDueEarly(b) == b.paidThrough > now => b.paidThrough - now <= 2 * WEEK

\* A renewal comes no earlier than one week before the expiry.
RenewalDue(b) == b.paidThrough > now => b.paidThrough - now <= WEEK

\* The price a renewal is charged at: a price queued to start with the added
\* week is paid for already.
RenewalPrice(b) == PriceAt(b, RenewalBase(b))

\* renew.
Renew(sender, a) ==
  LET b == Synced(brandings[a])
      base == RenewalBase(b) IN
  /\ owner[a] = sender
  /\ RequireEligible(b.controllerAgentId, sender)
  /\ RenewalDue(b)
  /\ WeekFits(base)
  /\ brandings' = [brandings EXCEPT ![a] =
       [b EXCEPT !.paidThrough = base + WEEK]]
  /\ PayUpkeep(balances, balances', sender, a, b.referrer,
               WeeklyUpkeepForPrice(RenewalPrice(b)))
  /\ charged' = [charged EXCEPT ![a] = @ \cup {Week(base, RenewalPrice(b))}]
  /\ UNCHANGED <<now, registry, nonces, owner, transfers>>

\* Seeded fault in IncreaseOpen: the lock on a prepaid week is missing.
IncreaseOpenAlways(b, price) == TRUE

\* A queued increase may be raised until the week it starts is prepaid.
IncreaseOpen(b, price) ==
  ~ /\ b.pendingPriceActivation # 0
    /\ b.paidThrough > b.pendingPriceActivation
    /\ price > b.pendingDeclaredPrice

\* What setDeclaredPrice makes of a branding.
Repriced(b, price) ==
  IF price <= b.declaredPrice \/ b.paidThrough <= now
  THEN [b EXCEPT !.declaredPrice = price, !.pendingDeclaredPrice = 0,
                 !.pendingPriceActivation = 0]
  ELSE [b EXCEPT !.pendingDeclaredPrice = price,
                 !.pendingPriceActivation = IF @ = 0 THEN b.paidThrough
                                            ELSE @]

\* setDeclaredPrice.
SetDeclaredPrice(sender, a, price) ==
  LET b == Synced(brandings[a]) IN
  /\ owner[a] = sender
  /\ RequireEligible(b.controllerAgentId, sender)
  /\ \/ price <= b.declaredPrice
     \/ b.paidThrough <= now
     \/ IncreaseOpen(b, price)
  /\ brandings' = [brandings EXCEPT ![a] = Repriced(b, price)]
  /\ UNCHANGED <<now, registry, nonces, owner, balances, charged, transfers>>

\* What _settlePurchase and claimUnserved make of a branding.
TakenOver(b, agent, price) ==
  [referrer |-> b.referrer, controllerAgentId |-> agent,
   declaredPrice |-> price, paidThrough |-> now + WEEK,
   pendingDeclaredPrice |-> 0, pendingPriceActivation |-> 0]

\* buy and _settlePurchase.
Buy(sender, a, expectedOwner, expectedAgent, maximum, agent, price, deadline) ==
  LET seller == owner[a]
      b == Synced(brandings[a])
      gross == b.declaredPrice
      referral == ReferralOf(gross)
      afterReferral == Moved(balances, sender, b.referrer, referral)
      afterSale == Moved(afterReferral, sender, seller, gross - referral) IN
  /\ now <= deadline
  /\ seller # NoOne
  /\ seller = expectedOwner
  /\ sender # seller
  /\ b.controllerAgentId = expectedAgent
  /\ StatusOf(a) = "Active"
  /\ RequireEligible(agent, sender)
  /\ gross <= maximum
  /\ WeekFits(now)
  /\ balances[sender] >= referral
  /\ afterReferral[sender] >= gross - referral
  /\ PayUpkeep(afterSale, balances', sender, a, b.referrer,
               WeeklyUpkeepForPrice(price))
  /\ brandings' = [brandings EXCEPT ![a] = TakenOver(b, agent, price)]
  /\ owner' = [owner EXCEPT ![a] = sender]
  /\ charged' = [charged EXCEPT ![a] = {Week(now, price)}]
  /\ transfers < MaxTransfers
  /\ transfers' = transfers + 1
  /\ UNCHANGED <<now, registry, nonces>>

\* Seeded fault in Claimable: an unreadable registry counts as ineligible.
ClaimableInOutage(a) == StatusOf(a) # "Active"

\* The statuses in which a branding may be claimed without payment.
Claimable(a) == StatusOf(a) \in {"Expired", "Ineligible"}

\* claimUnserved.
ClaimUnserved(sender, a, expectedOwner, expectedAgent, agent, price, deadline) ==
  LET b == brandings[a] IN
  /\ now <= deadline
  /\ owner[a] # NoOne
  /\ owner[a] = expectedOwner
  /\ sender # owner[a]
  /\ b.controllerAgentId = expectedAgent
  /\ Claimable(a)
  /\ RequireEligible(agent, sender)
  /\ WeekFits(now)
  /\ brandings' = [brandings EXCEPT ![a] = TakenOver(b, agent, price)]
  /\ owner' = [owner EXCEPT ![a] = sender]
  /\ PayUpkeep(balances, balances', sender, a, b.referrer,
               WeeklyUpkeepForPrice(price))
  /\ charged' = [charged EXCEPT ![a] = {Week(now, price)}]
  /\ transfers < MaxTransfers
  /\ transfers' = transfers + 1
  /\ UNCHANGED <<now, registry, nonces>>

\* The canonical identity registry, outside this contract, changes.
RegistryChange(agent, wallet) ==
  /\ registry[agent] # wallet
  /\ registry' = [registry EXCEPT ![agent] = wallet]
  /\ UNCHANGED <<now, nonces, owner, brandings, balances, charged, transfers>>

\* A later block.  Weeks that are over leave the history.
Block ==
  /\ now < MaxTime
  /\ now' = now + 1
  /\ charged' = [a \in Acolytes |-> {w \in charged[a] : w.to > now + 1}]
  /\ UNCHANGED <<registry, nonces, owner, brandings, balances, transfers>>

Next ==
  \/ \E consent \in Consents : MintBranding(consent.minter, consent)
  \/ \E sender \in Controllers, a \in Acolytes :
       \/ Renew(sender, a)
       \/ \E price \in Prices : SetDeclaredPrice(sender, a, price)
       \/ \E expectedOwner \in Controllers, expectedAgent, agent \in Agents,
             price \in Prices, deadline \in Deadlines :
            \/ \E maximum \in Prices :
                 Buy(sender, a, expectedOwner, expectedAgent, maximum, agent,
                     price, deadline)
            \/ ClaimUnserved(sender, a, expectedOwner, expectedAgent, agent,
                             price, deadline)
  \/ \E move \in RegistryMoves : RegistryChange(move[1], move[2])
  \/ Block

Spec == Init /\ [][Next]_vars

-----------------------------------------------------------------------------
(* Properties. *)

\* The state is well formed.
TypeOK ==
  /\ now \in Nat
  /\ registry \in [Agents -> Controllers \cup {Nobody, Unreadable}]
  /\ nonces \in [Acolytes -> Nat]
  /\ owner \in [Acolytes -> Addresses \cup {NoOne}]
  /\ brandings \in [Acolytes -> BrandingData]
  /\ balances \in [Addresses -> Nat]
  /\ charged \in [Acolytes ->
       SUBSET [from: Nat, to: Nat, price: Nat]]
  /\ transfers \in Nat

\* An active branding is never executable at a price whose upkeep was not
\* paid: some paid week covers the present, and it was charged at no less
\* than the price in force now.  setDeclaredPrice, renew and the lock on
\* prepaid increases together have to make it true.
PricePaidFor ==
  \A a \in Acolytes :
    owner[a] # NoOne /\ now < brandings[a].paidThrough =>
      \E w \in charged[a] :
        /\ w.from <= now /\ now < w.to
        /\ EffectiveDeclaredPrice(brandings[a]) <= w.price

\* The strengthening that makes PricePaidFor inductive.  A queued price is
\* above the declared one and starts no later than the paid interval ends,
\* and not only the present but every later paid moment is covered.
PendingSound(b) ==
  IF b.pendingPriceActivation = 0 THEN b.pendingDeclaredPrice = 0
  ELSE /\ b.pendingPriceActivation <= b.paidThrough
       /\ b.declaredPrice < b.pendingDeclaredPrice

Covered(weeks, b) ==
  \A time \in now .. b.paidThrough - 1 :
    \E w \in weeks :
      w.from <= time /\ time < w.to /\ PriceAt(b, time) <= w.price

PricesCovered ==
  \A a \in Acolytes :
    /\ PendingSound(brandings[a])
    /\ owner[a] # NoOne => Covered(charged[a], brandings[a])

\* A minted branding has its referrer and its controller's agent.
MintedComplete ==
  \A a \in Acolytes :
    owner[a] # NoOne => /\ brandings[a].referrer \in Addresses
                        /\ brandings[a].controllerAgentId \in Agents

\* No sequence of renewals, purchases and claims prepays more than two weeks.
PrepaidCapped ==
  \A a \in Acolytes : brandings[a].paidThrough <= now + 2 * WEEK

\* A branding never changes hands while the registry cannot be read, and its
\* owner loses it unpaid only once it expired or proved ineligible: an active
\* one costs the buyer the price in force, less the referral.
OwnerCompensated ==
  [][\A a \in Acolytes :
       owner[a] # NoOne /\ owner'[a] # owner[a] =>
         \/ StatusOf(a) \in {"Expired", "Ineligible"}
         \/ /\ StatusOf(a) = "Active"
            /\ LET gross == EffectiveDeclaredPrice(brandings[a]) IN
               balances'[owner[a]] >=
                 balances[owner[a]] + gross - ReferralOf(gross)]_vars

\* Whoever extends the paid interval pays for it: the paid-through time moves
\* only with UWU reaching the acolyte, except where the payer is the acolyte.
ServiceReachesAcolyte ==
  [][\A a \in Acolytes :
       brandings'[a].paidThrough > brandings[a].paidThrough
         /\ owner'[a] # a =>
           balances'[a] > balances[a]]_vars
=============================================================================
