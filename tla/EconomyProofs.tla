---------------------------- MODULE EconomyProofs ---------------------------
(***************************************************************************)
(* Proofs about what moves UWU: the branding contract, for every set of    *)
(* addresses, agents, consents and prices, every rate and every length of  *)
(* the week, and growth with its bounties, for every set of people,        *)
(* inboxes and amounts and any number of crashes and failed saves.         *)
(*                                                                         *)
(* PricePaidFor speaks of the present only, and says nothing of the week   *)
(* after a queued increase starts.  IInv therefore covers every paid       *)
(* moment to come, and keeps a queued price above the declared one and     *)
(* inside the paid interval.                                               *)
(*                                                                         *)
(* BountyAsPinned compares transactions with records, but a transaction    *)
(* follows the signer's journal, which is written before the growth        *)
(* runtime hears of it and survives the answers it loses.  GrowthInv       *)
(* therefore ties the transactions to the journal (ChainSound), the        *)
(* journal and the acknowledged referrers to the snapshot on disk          *)
(* (Backed), and says of a snapshot what keeps every later one valid       *)
(* (Fits): above all that a referrer's inbox is one it really uses.        *)
(***************************************************************************)
EXTENDS Branding, Growth, FiniteSetTheorems, TLAPS

\* The records of the history `charged'.
PaidWeek == [from: Nat, to: Nat, price: Nat]

\* The inductive invariant.
IInv ==
  /\ TypeOK
  /\ PricesCovered
  /\ MintedComplete
  /\ PrepaidCapped

-----------------------------------------------------------------------------
(* Arithmetic of the shares. *)

\* A product grows with its second factor.
LEMMA ProductMonotone ==
  ASSUME NEW m \in Nat, NEW n \in Nat, NEW d \in Nat, m <= n
  PROVE  d * m <= d * n
  OBVIOUS

\* Division rounds downward.
LEMMA QuotientFloor ==
  ASSUME NEW n \in Nat, NEW d \in Nat \ {0}
  PROVE  n \div d \in Nat /\ d * (n \div d) <= n
  OBVIOUS

\* The referral of an amount is a part of it.
LEMMA ReferralPart ==
  ASSUME NEW x \in Nat
  PROVE  ReferralOf(x) \in 0..x
  <1> DEFINE r == REFERRAL_BPS
             d == BPS_DENOMINATOR
             q == (x * r) \div d
  <1>0. r \in Nat /\ d \in Nat \ {0} /\ r <= d
    BY RateAssumption
  <1>1. x * r \in Nat
    BY <1>0
  <1>2. q \in Nat /\ d * q <= x * r
    BY <1>0, <1>1, QuotientFloor
  <1>3. x * r <= x * d
    BY <1>0, ProductMonotone
  <1>4. x * d = d * x
    BY <1>0
  <1>5. q <= x
    <2>1. SUFFICES ASSUME q >= x + 1 PROVE FALSE
      BY <1>2
    <2>2. d * (x + 1) <= d * q
      BY <1>0, <1>2, <2>1, ProductMonotone, x + 1 \in Nat
    <2>3. d * (x + 1) = d * x + d
      BY <1>0
    <2>4. d * x \in Nat /\ d * q \in Nat
      BY <1>0, <1>2
    <2> HIDE DEF q, r, d
    <2> QED
      BY <1>0, <1>1, <1>2, <1>3, <1>4, <2>2, <2>3, <2>4
  <1> QED
    BY <1>2, <1>5 DEF ReferralOf

\* The upkeep of a price is an amount.
LEMMA UpkeepNat ==
  ASSUME NEW price \in Nat
  PROVE  WeeklyUpkeepForPrice(price) \in Nat
  <1>1. BPS_DENOMINATOR \in Nat \ {0} /\ UPKEEP_BPS \in Nat
    BY RateAssumption
  <1>2. price * UPKEEP_BPS \in Nat
    BY <1>1
  <1>3. price * UPKEEP_BPS + BPS_DENOMINATOR - 1 \in Nat
    BY <1>1, <1>2
  <1> QED
    BY <1>1, <1>3, QuotientFloor DEF WeeklyUpkeepForPrice

-----------------------------------------------------------------------------
(* Payments. *)

\* A covered transfer leaves balances, and takes from the payer alone.
LEMMA MovedKeeps ==
  ASSUME NEW bal \in [Addresses -> Nat],
         NEW from \in Addresses, NEW to \in Addresses,
         NEW amount \in Nat, bal[from] >= amount
  PROVE  /\ Moved(bal, from, to, amount) \in [Addresses -> Nat]
         /\ \A x \in Addresses :
              x # from => Moved(bal, from, to, amount)[x] >= bal[x]
         /\ to # from =>
              Moved(bal, from, to, amount)[to] = bal[to] + amount
  BY DEF Moved

\* So does the payment of a week's upkeep.
LEMMA PayUpkeepKeeps ==
  ASSUME NEW before \in [Addresses -> Nat], NEW after,
         NEW payer \in Addresses, NEW acolyte \in Addresses,
         NEW referrer \in Addresses, NEW upkeep \in Nat,
         PayUpkeep(before, after, payer, acolyte, referrer, upkeep)
  PROVE  /\ after \in [Addresses -> Nat]
         /\ \A x \in Addresses : x # payer => after[x] >= before[x]
  <1> DEFINE referral == ReferralOf(upkeep)
             between == Moved(before, payer, referrer, referral)
  <1>1. referral \in Nat /\ upkeep - referral \in Nat
    BY ReferralPart
  <1>2. /\ before[payer] >= referral
        /\ between[payer] >= upkeep - referral
        /\ after = Moved(between, payer, acolyte, upkeep - referral)
    BY DEF PayUpkeep
  <1> HIDE DEF referral
  <1>3. /\ between \in [Addresses -> Nat]
        /\ \A x \in Addresses : x # payer => between[x] >= before[x]
    BY <1>1, <1>2, MovedKeeps
  <1> HIDE DEF between
  <1>4. /\ after \in [Addresses -> Nat]
        /\ \A x \in Addresses : x # payer => after[x] >= between[x]
    BY <1>1, <1>2, <1>3, MovedKeeps
  <1> QED
    BY <1>3, <1>4

-----------------------------------------------------------------------------
(* Prices. *)

\* Folding a due increase into the declared price changes no price to come.
LEMMA SyncedSame ==
  ASSUME now \in Nat, NEW b \in BrandingData, PendingSound(b)
  PROVE  /\ Synced(b) \in BrandingData
         /\ PendingSound(Synced(b))
         /\ Synced(b).paidThrough = b.paidThrough
         /\ Synced(b).referrer = b.referrer
         /\ Synced(b).controllerAgentId = b.controllerAgentId
         /\ \A time \in Nat : time >= now =>
              PriceAt(Synced(b), time) = PriceAt(b, time)
  <1>1. CASE b.pendingPriceActivation = 0 \/ now < b.pendingPriceActivation
    BY <1>1 DEF Synced
  <1>2. CASE ~(b.pendingPriceActivation = 0 \/ now < b.pendingPriceActivation)
    <2> DEFINE c == [b EXCEPT !.declaredPrice = b.pendingDeclaredPrice,
                              !.pendingDeclaredPrice = 0,
                              !.pendingPriceActivation = 0]
    <2>1. Synced(b) = c
      BY <1>2 DEF Synced
    <2>2. /\ c \in BrandingData
          /\ c.declaredPrice = b.pendingDeclaredPrice
          /\ c.pendingDeclaredPrice = 0 /\ c.pendingPriceActivation = 0
          /\ c.paidThrough = b.paidThrough /\ c.referrer = b.referrer
          /\ c.controllerAgentId = b.controllerAgentId
      BY DEF BrandingData
    <2> HIDE DEF c
    <2>3. PendingSound(c)
      BY <2>2 DEF PendingSound
    <2>4. ASSUME NEW time \in Nat, time >= now
          PROVE  PriceAt(c, time) = PriceAt(b, time)
      BY <1>2, <2>2, <2>4 DEF PriceAt, BrandingData
    <2> QED
      BY <2>1, <2>2, <2>3, <2>4
  <1> QED
    BY <1>1, <1>2

\* No price change raises the price in force at a moment already paid for.
LEMMA RepricedBelow ==
  ASSUME now \in Nat, NEW b \in BrandingData, PendingSound(b),
         NEW price \in Nat,
         \/ price <= b.declaredPrice
         \/ b.paidThrough <= now
         \/ IncreaseOpen(b, price)
  PROVE  /\ Repriced(b, price) \in BrandingData
         /\ PendingSound(Repriced(b, price))
         /\ Repriced(b, price).paidThrough = b.paidThrough
         /\ Repriced(b, price).referrer = b.referrer
         /\ Repriced(b, price).controllerAgentId = b.controllerAgentId
         /\ \A time \in now .. b.paidThrough - 1 :
              PriceAt(Repriced(b, price), time) <= PriceAt(b, time)
  <1> DEFINE c == Repriced(b, price)
  <1>1. CASE price <= b.declaredPrice \/ b.paidThrough <= now
    <2>1. /\ c \in BrandingData
          /\ c.declaredPrice = price
          /\ c.pendingDeclaredPrice = 0 /\ c.pendingPriceActivation = 0
          /\ c.paidThrough = b.paidThrough /\ c.referrer = b.referrer
          /\ c.controllerAgentId = b.controllerAgentId
      BY <1>1 DEF Repriced, BrandingData
    <2> HIDE DEF c
    <2>2. PendingSound(c)
      BY <2>1 DEF PendingSound
    <2>3. ASSUME NEW time \in now .. b.paidThrough - 1
          PROVE  PriceAt(c, time) <= PriceAt(b, time)
      BY <1>1, <2>1, <2>3 DEF PriceAt, PendingSound, BrandingData
    <2> QED
      BY <2>1, <2>2, <2>3 DEF c
  <1>2. CASE ~(price <= b.declaredPrice \/ b.paidThrough <= now)
    <2>1. IncreaseOpen(b, price)
      BY <1>2
    <2>2. /\ c \in BrandingData
          /\ c.declaredPrice = b.declaredPrice
          /\ c.pendingDeclaredPrice = price
          /\ c.pendingPriceActivation =
               IF b.pendingPriceActivation = 0 THEN b.paidThrough
               ELSE b.pendingPriceActivation
          /\ c.paidThrough = b.paidThrough /\ c.referrer = b.referrer
          /\ c.controllerAgentId = b.controllerAgentId
      BY <1>2 DEF Repriced, BrandingData
    <2> HIDE DEF c
    <2>3. PendingSound(c)
      BY <1>2, <2>2 DEF PendingSound, BrandingData
    <2>4. ASSUME NEW time \in now .. b.paidThrough - 1
          PROVE  PriceAt(c, time) <= PriceAt(b, time)
      BY <1>2, <2>1, <2>2, <2>4
         DEF PriceAt, PendingSound, IncreaseOpen, BrandingData
    <2> QED
      BY <2>2, <2>3, <2>4 DEF c
  <1> QED
    BY <1>1, <1>2

\* Prices that only fall, over the same interval, stay covered.
LEMMA CoveredBelow ==
  ASSUME now \in Nat, NEW weeks \in SUBSET PaidWeek,
         NEW b \in BrandingData, NEW c \in BrandingData,
         Covered(weeks, b), c.paidThrough = b.paidThrough,
         \A time \in now .. b.paidThrough - 1 :
           PriceAt(c, time) <= PriceAt(b, time)
  PROVE  Covered(weeks, c)
  <1> SUFFICES ASSUME NEW time \in now .. c.paidThrough - 1
               PROVE  \E w \in weeks : /\ w.from <= time /\ time < w.to
                                       /\ PriceAt(c, time) <= w.price
    BY DEF Covered
  <1>1. PICK w \in weeks : /\ w.from <= time /\ time < w.to
                           /\ PriceAt(b, time) <= w.price
    BY DEF Covered
  <1>2. PriceAt(c, time) <= PriceAt(b, time)
    OBVIOUS
  <1>3. PriceAt(b, time) \in Nat /\ PriceAt(c, time) \in Nat /\ w.price \in Nat
    BY DEF PriceAt, BrandingData, PaidWeek
  <1> QED
    BY <1>1, <1>2, <1>3

\* The week a renewal adds is charged at the price in force throughout it.
LEMMA RenewedCovered ==
  ASSUME now \in Nat, NEW weeks \in SUBSET PaidWeek,
         NEW b \in BrandingData, PendingSound(b), Covered(weeks, b),
         b.paidThrough <= now + 2 * WEEK, RenewalDue(b)
  PROVE  LET base == RenewalBase(b)
             c == [b EXCEPT !.paidThrough = base + WEEK]
             more == weeks \cup {Week(base, RenewalPrice(b))}
         IN  /\ c \in BrandingData
             /\ PendingSound(c)
             /\ more \in SUBSET PaidWeek
             /\ Covered(more, c)
             /\ c.paidThrough <= now + 2 * WEEK
  <1> DEFINE base == RenewalBase(b)
             c == [b EXCEPT !.paidThrough = base + WEEK]
             week == Week(base, RenewalPrice(b))
             more == weeks \cup {week}
  <1>0. WEEK \in Nat \ {0}
    BY TimeAssumption
  <1>1. /\ base \in Nat /\ base >= now /\ base >= b.paidThrough
        /\ base <= now + WEEK
        /\ base = b.paidThrough \/ base = now
    BY <1>0 DEF RenewalBase, RenewalDue, BrandingData
  <1>2. RenewalPrice(b) \in Nat
    BY DEF RenewalPrice, PriceAt, BrandingData
  <1>3. week \in PaidWeek /\ week.from = base /\ week.to = base + WEEK
          /\ week.price = RenewalPrice(b)
    BY <1>0, <1>1, <1>2 DEF Week, PaidWeek
  <1>4. \A time \in Nat : PriceAt(c, time) = PriceAt(b, time)
    BY DEF PriceAt, BrandingData
  <1>5. \A time \in Nat : time >= base => PriceAt(b, time) = RenewalPrice(b)
    BY <1>1 DEF PriceAt, RenewalPrice, PendingSound, BrandingData
  <1>6. c \in BrandingData /\ c.paidThrough = base + WEEK
    BY <1>0, <1>1 DEF BrandingData
  <1>7. PendingSound(c)
    BY <1>0, <1>1 DEF PendingSound, BrandingData
  <1>8. Covered(more, c)
    <2> SUFFICES ASSUME NEW time \in now .. c.paidThrough - 1
                 PROVE  \E w \in more : /\ w.from <= time /\ time < w.to
                                        /\ PriceAt(c, time) <= w.price
      BY DEF Covered
    <2>0. time \in Nat /\ time >= now /\ time < base + WEEK
      BY <1>0, <1>1, <1>6
    <2>1. CASE time >= base
      <3>1. PriceAt(c, time) <= week.price
        BY <1>2, <1>3, <1>4, <1>5, <2>0, <2>1
      <3> QED
        BY <1>3, <2>0, <2>1, <3>1
    <2>2. CASE time < base
      <3>1. time < b.paidThrough
        BY <1>1, <2>0, <2>2 DEF BrandingData
      <3>2. time \in now .. b.paidThrough - 1
        BY <2>0, <3>1 DEF BrandingData
      <3>3. PICK w \in weeks : /\ w.from <= time /\ time < w.to
                               /\ PriceAt(b, time) <= w.price
        BY <3>2 DEF Covered
      <3> QED
        BY <1>4, <2>0, <3>3
    <2> QED
      BY <1>1, <2>0, <2>1, <2>2
  <1> QED
    BY <1>0, <1>1, <1>3, <1>6, <1>7, <1>8

\* The week a new owner pays for is charged at the price it declares.
LEMMA FirstWeekCovered ==
  ASSUME now \in Nat, NEW b \in BrandingData, NEW price \in Nat,
         b.declaredPrice = price, b.paidThrough = now + WEEK,
         b.pendingDeclaredPrice = 0, b.pendingPriceActivation = 0
  PROVE  /\ PendingSound(b)
         /\ {Week(now, price)} \in SUBSET PaidWeek
         /\ Covered({Week(now, price)}, b)
         /\ b.paidThrough <= now + 2 * WEEK
  <1>1. WEEK \in Nat \ {0}
    BY TimeAssumption
  <1>2. /\ Week(now, price) \in PaidWeek
        /\ Week(now, price).from = now
        /\ Week(now, price).to = now + WEEK
        /\ Week(now, price).price = price
    BY <1>1 DEF Week, PaidWeek
  <1>3. \A time \in Nat : PriceAt(b, time) = price
    BY DEF PriceAt
  <1>4. Covered({Week(now, price)}, b)
    BY <1>1, <1>2, <1>3 DEF Covered
  <1> QED
    BY <1>1, <1>2, <1>4 DEF PendingSound

-----------------------------------------------------------------------------
(* The inductive invariant. *)

\* A transaction about one branding that leaves it sound keeps the invariant.
LEMMA OneBranding ==
  ASSUME IInv, NEW a \in Acolytes, NEW o \in Addresses,
         NEW b \in BrandingData, NEW weeks \in SUBSET PaidWeek,
         PendingSound(b), Covered(weeks, b), b.paidThrough <= now + 2 * WEEK,
         b.referrer \in Addresses, b.controllerAgentId \in Agents,
         brandings' = [brandings EXCEPT ![a] = b],
         charged' = [charged EXCEPT ![a] = weeks],
         owner' = [owner EXCEPT ![a] = o],
         now' = now, registry' = registry,
         nonces' \in [Acolytes -> Nat], balances' \in [Addresses -> Nat],
         transfers' \in Nat
  PROVE  IInv'
  <1>1. TypeOK'
    BY DEF IInv, TypeOK, PaidWeek
  <1>2. /\ brandings'[a] = b /\ charged'[a] = weeks /\ owner'[a] = o
        /\ \A x \in Acolytes : x # a =>
             /\ brandings'[x] = brandings[x]
             /\ charged'[x] = charged[x]
             /\ owner'[x] = owner[x]
    BY DEF IInv, TypeOK
  <1>3. ASSUME NEW x \in Acolytes
        PROVE  /\ PendingSound(brandings'[x])
               /\ owner'[x] # NoOne => Covered(charged'[x], brandings'[x])
    BY <1>2 DEF IInv, PricesCovered
  <1>4. ASSUME NEW x \in Acolytes, owner'[x] # NoOne
        PROVE  Covered(charged[x], brandings[x])'
    BY <1>3, <1>4 DEF Covered, PriceAt
  <1>5. PricesCovered'
    BY <1>3, <1>4 DEF PricesCovered, PendingSound
  <1>6. MintedComplete'
    BY <1>2 DEF IInv, MintedComplete
  <1>7. PrepaidCapped'
    BY <1>2 DEF IInv, PrepaidCapped
  <1> QED
    BY <1>1, <1>5, <1>6, <1>7 DEF IInv

\* mintBranding keeps the invariant: the first week is paid at the price.
LEMMA MintKeeps ==
  ASSUME IInv, NEW consent \in Consents, MintBranding(consent.minter, consent)
  PROVE  IInv'
  <1> DEFINE a == consent.acolyte
             price == consent.initialDeclaredPrice
             b == [referrer |-> consent.referrer,
                   controllerAgentId |-> consent.controllerAgentId,
                   declaredPrice |-> price, paidThrough |-> now + WEEK,
                   pendingDeclaredPrice |-> 0, pendingPriceActivation |-> 0]
  <1>0. /\ now \in Nat /\ nonces \in [Acolytes -> Nat]
        /\ balances \in [Addresses -> Nat] /\ transfers \in Nat
        /\ WEEK \in Nat
    BY TimeAssumption DEF IInv, TypeOK
  <1>1. /\ a \in Acolytes /\ a \in Addresses /\ price \in Nat
        /\ consent.minter \in Addresses /\ consent.referrer \in Addresses
        /\ consent.controllerAgentId \in Agents
    BY ConsentAssumption, AddressAssumption, PriceAssumption DEF MintConsent
  <1>2. b \in BrandingData
    BY <1>0, <1>1 DEF BrandingData
  <1>3. /\ PendingSound(b)
        /\ {Week(now, price)} \in SUBSET PaidWeek
        /\ Covered({Week(now, price)}, b)
        /\ b.paidThrough <= now + 2 * WEEK
    BY <1>0, <1>1, <1>2, FirstWeekCovered
  <1>4. /\ brandings' = [brandings EXCEPT ![a] = b]
        /\ charged' = [charged EXCEPT ![a] = {Week(now, price)}]
        /\ owner' = [owner EXCEPT ![a] = consent.minter]
        /\ nonces' = [nonces EXCEPT ![a] = @ + 1]
        /\ now' = now /\ registry' = registry /\ transfers' = transfers
        /\ PayUpkeep(balances, balances', consent.minter, a, consent.referrer,
                     WeeklyUpkeepForPrice(price))
    BY DEF MintBranding
  <1>5. balances' \in [Addresses -> Nat]
    BY <1>0, <1>1, <1>4, UpkeepNat, PayUpkeepKeeps
  <1>6. nonces' \in [Acolytes -> Nat]
    BY <1>0, <1>1, <1>4
  <1>7. b.referrer \in Addresses /\ b.controllerAgentId \in Agents
    BY <1>1
  <1> HIDE DEF a, b, price
  <1> QED
    BY <1>0, <1>1, <1>2, <1>3, <1>4, <1>5, <1>6, <1>7, OneBranding

\* renew keeps it: the added week is paid at the price in force in it.
LEMMA RenewKeeps ==
  ASSUME IInv, NEW sender \in Controllers, NEW a \in Acolytes,
         Renew(sender, a)
  PROVE  IInv'
  <1> DEFINE d == brandings[a]
             b == Synced(d)
             base == RenewalBase(b)
             c == [b EXCEPT !.paidThrough = base + WEEK]
             more == charged[a] \cup {Week(base, RenewalPrice(b))}
  <1>0. /\ now \in Nat /\ nonces \in [Acolytes -> Nat]
        /\ owner \in [Acolytes -> Addresses \cup {NoOne}]
        /\ balances \in [Addresses -> Nat] /\ transfers \in Nat
        /\ d \in BrandingData /\ charged[a] \in SUBSET PaidWeek
        /\ sender \in Addresses /\ a \in Addresses /\ sender # NoOne
    BY AddressAssumption DEF IInv, TypeOK, PaidWeek
  <1>1. /\ owner[a] = sender /\ RenewalDue(b)
        /\ brandings' = [brandings EXCEPT ![a] = c]
        /\ charged' = [charged EXCEPT ![a] = more]
        /\ PayUpkeep(balances, balances', sender, a, b.referrer,
                     WeeklyUpkeepForPrice(RenewalPrice(b)))
        /\ now' = now /\ registry' = registry /\ nonces' = nonces
        /\ owner' = owner /\ transfers' = transfers
    BY <1>0 DEF Renew, IInv, TypeOK
  <1>2. /\ PendingSound(d) /\ Covered(charged[a], d)
        /\ d.referrer \in Addresses /\ d.controllerAgentId \in Agents
        /\ d.paidThrough <= now + 2 * WEEK
    BY <1>0, <1>1 DEF IInv, PricesCovered, MintedComplete, PrepaidCapped
  <1> HIDE DEF d
  <1>3. /\ b \in BrandingData /\ PendingSound(b)
        /\ b.paidThrough = d.paidThrough /\ b.referrer = d.referrer
        /\ b.controllerAgentId = d.controllerAgentId
        /\ \A time \in Nat : time >= now => PriceAt(b, time) = PriceAt(d, time)
    BY <1>0, <1>2, SyncedSame
  <1> HIDE DEF b
  <1>4. \A time \in now .. d.paidThrough - 1 :
          PriceAt(b, time) <= PriceAt(d, time)
    <2> TAKE time \in now .. d.paidThrough - 1
    <2>1. time \in Nat /\ time >= now
      BY <1>0 DEF BrandingData
    <2>2. PriceAt(d, time) \in Nat
      BY <1>0 DEF PriceAt, BrandingData
    <2> QED
      BY <1>3, <2>1, <2>2
  <1>5. Covered(charged[a], b)
    BY <1>0, <1>2, <1>3, <1>4, CoveredBelow
  <1>6. /\ c \in BrandingData /\ PendingSound(c)
        /\ more \in SUBSET PaidWeek /\ Covered(more, c)
        /\ c.paidThrough <= now + 2 * WEEK
    BY <1>0, <1>1, <1>2, <1>3, <1>5, RenewedCovered
  <1>7. c.referrer \in Addresses /\ c.controllerAgentId \in Agents
    BY <1>2, <1>3 DEF BrandingData
  <1>8. RenewalPrice(b) \in Nat
    BY <1>3 DEF RenewalPrice, PriceAt, BrandingData
  <1>9. balances' \in [Addresses -> Nat]
    BY <1>0, <1>1, <1>2, <1>3, <1>8, UpkeepNat, PayUpkeepKeeps
  <1>10. owner' = [owner EXCEPT ![a] = sender]
    BY <1>0, <1>1
  <1> HIDE DEF c, more, base
  <1> QED
    BY <1>0, <1>1, <1>6, <1>7, <1>9, <1>10, OneBranding

\* setDeclaredPrice keeps it: no paid moment becomes dearer.
LEMMA SetDeclaredPriceKeeps ==
  ASSUME IInv, NEW sender \in Controllers, NEW a \in Acolytes,
         NEW price \in Prices, SetDeclaredPrice(sender, a, price)
  PROVE  IInv'
  <1> DEFINE d == brandings[a]
             b == Synced(d)
             c == Repriced(b, price)
  <1>0. /\ now \in Nat /\ nonces \in [Acolytes -> Nat]
        /\ owner \in [Acolytes -> Addresses \cup {NoOne}]
        /\ charged \in [Acolytes -> SUBSET PaidWeek]
        /\ balances \in [Addresses -> Nat] /\ transfers \in Nat
        /\ d \in BrandingData /\ charged[a] \in SUBSET PaidWeek
        /\ sender \in Addresses /\ sender # NoOne /\ price \in Nat
    BY AddressAssumption, PriceAssumption DEF IInv, TypeOK, PaidWeek
  <1>1. /\ owner[a] = sender
        /\ \/ price <= b.declaredPrice
           \/ b.paidThrough <= now
           \/ IncreaseOpen(b, price)
        /\ brandings' = [brandings EXCEPT ![a] = c]
        /\ now' = now /\ registry' = registry /\ nonces' = nonces
        /\ owner' = owner /\ balances' = balances /\ charged' = charged
        /\ transfers' = transfers
    BY DEF SetDeclaredPrice
  <1>2. /\ PendingSound(d) /\ Covered(charged[a], d)
        /\ d.referrer \in Addresses /\ d.controllerAgentId \in Agents
        /\ d.paidThrough <= now + 2 * WEEK
    BY <1>0, <1>1 DEF IInv, PricesCovered, MintedComplete, PrepaidCapped
  <1> HIDE DEF d
  <1>3. /\ b \in BrandingData /\ PendingSound(b)
        /\ b.paidThrough = d.paidThrough /\ b.referrer = d.referrer
        /\ b.controllerAgentId = d.controllerAgentId
        /\ \A time \in Nat : time >= now => PriceAt(b, time) = PriceAt(d, time)
    BY <1>0, <1>2, SyncedSame
  <1> HIDE DEF b
  <1>4. /\ c \in BrandingData /\ PendingSound(c)
        /\ c.paidThrough = b.paidThrough /\ c.referrer = b.referrer
        /\ c.controllerAgentId = b.controllerAgentId
        /\ \A time \in now .. b.paidThrough - 1 :
             PriceAt(c, time) <= PriceAt(b, time)
    BY <1>0, <1>1, <1>3, RepricedBelow
  <1> HIDE DEF c
  <1>5. \A time \in now .. d.paidThrough - 1 :
          PriceAt(c, time) <= PriceAt(d, time)
    <2> TAKE time \in now .. d.paidThrough - 1
    <2>1. time \in Nat /\ time >= now
      BY <1>0 DEF BrandingData
    <2> QED
      BY <1>3, <1>4, <2>1
  <1>6. Covered(charged[a], c)
    BY <1>0, <1>2, <1>3, <1>4, <1>5, CoveredBelow
  <1>7. /\ owner' = [owner EXCEPT ![a] = sender]
        /\ charged' = [charged EXCEPT ![a] = charged[a]]
    BY <1>0, <1>1
  <1>8. /\ c.paidThrough <= now + 2 * WEEK
        /\ c.referrer \in Addresses /\ c.controllerAgentId \in Agents
    BY <1>2, <1>3, <1>4
  <1>9. nonces' \in [Acolytes -> Nat] /\ balances' \in [Addresses -> Nat]
          /\ transfers' \in Nat
    BY <1>0, <1>1
  <1> QED
    BY <1>0, <1>1, <1>4, <1>6, <1>7, <1>8, <1>9, OneBranding

\* What a purchase or a claim makes of a branding is sound.
LEMMA TakenOverSound ==
  ASSUME now \in Nat, NEW b \in BrandingData, b.referrer \in Addresses,
         NEW agent \in Agents, NEW price \in Nat
  PROVE  /\ TakenOver(b, agent, price) \in BrandingData
         /\ PendingSound(TakenOver(b, agent, price))
         /\ {Week(now, price)} \in SUBSET PaidWeek
         /\ Covered({Week(now, price)}, TakenOver(b, agent, price))
         /\ TakenOver(b, agent, price).paidThrough <= now + 2 * WEEK
         /\ TakenOver(b, agent, price).referrer \in Addresses
         /\ TakenOver(b, agent, price).controllerAgentId \in Agents
  <1> DEFINE c == TakenOver(b, agent, price)
  <1>1. now + WEEK \in Nat
    BY TimeAssumption
  <1>2. /\ c \in BrandingData
        /\ c.declaredPrice = price /\ c.paidThrough = now + WEEK
        /\ c.pendingDeclaredPrice = 0 /\ c.pendingPriceActivation = 0
        /\ c.referrer = b.referrer /\ c.controllerAgentId = agent
    BY <1>1 DEF TakenOver, BrandingData
  <1> HIDE DEF c
  <1>3. /\ PendingSound(c)
        /\ {Week(now, price)} \in SUBSET PaidWeek
        /\ Covered({Week(now, price)}, c)
        /\ c.paidThrough <= now + 2 * WEEK
    BY <1>2, FirstWeekCovered
  <1> QED
    BY <1>2, <1>3 DEF c

\* A purchase moves the price in force, less the referral, to the seller, and
\* takes from the buyer alone.
LEMMA BuyPays ==
  ASSUME IInv, NEW sender \in Controllers, NEW a \in Acolytes,
         NEW expectedOwner, NEW expectedAgent, NEW maximum,
         NEW agent \in Agents, NEW price \in Prices, NEW deadline,
         Buy(sender, a, expectedOwner, expectedAgent, maximum, agent, price,
             deadline)
  PROVE  /\ balances' \in [Addresses -> Nat]
         /\ LET gross == EffectiveDeclaredPrice(brandings[a]) IN
            balances'[owner[a]] >=
              balances[owner[a]] + gross - ReferralOf(gross)
         /\ Synced(brandings[a]) \in BrandingData
         /\ Synced(brandings[a]).referrer \in Addresses
  <1> DEFINE d == brandings[a]
             seller == owner[a]
             b == Synced(d)
             gross == b.declaredPrice
             referral == ReferralOf(gross)
             first == Moved(balances, sender, b.referrer, referral)
             second == Moved(first, sender, seller, gross - referral)
  <1>0. /\ now \in Nat /\ balances \in [Addresses -> Nat]
        /\ d \in BrandingData /\ seller \in Addresses \cup {NoOne}
        /\ sender \in Addresses /\ a \in Addresses /\ price \in Nat
    BY AddressAssumption, PriceAssumption DEF IInv, TypeOK
  <1>1. /\ seller # NoOne /\ sender # seller
        /\ balances[sender] >= referral
        /\ first[sender] >= gross - referral
        /\ PayUpkeep(second, balances', sender, a, b.referrer,
                     WeeklyUpkeepForPrice(price))
    BY DEF Buy
  <1>2. PendingSound(d) /\ d.referrer \in Addresses
    BY <1>0, <1>1 DEF IInv, PricesCovered, MintedComplete
  <1>3. /\ b \in BrandingData /\ b.referrer \in Addresses
        /\ \A time \in Nat : time >= now => PriceAt(b, time) = PriceAt(d, time)
    BY <1>0, <1>2, SyncedSame
  <1>4. b.declaredPrice = EffectiveDeclaredPrice(d)
    BY <1>0 DEF Synced, EffectiveDeclaredPrice, PriceAt, BrandingData
  <1>5. gross \in Nat /\ referral \in Nat /\ gross - referral \in Nat
    BY <1>3, ReferralPart DEF BrandingData
  <1> HIDE DEF referral, gross, b
  <1>6. /\ first \in [Addresses -> Nat]
        /\ \A x \in Addresses : x # sender => first[x] >= balances[x]
    BY <1>0, <1>1, <1>3, <1>5, MovedKeeps
  <1> HIDE DEF first
  <1>7. /\ second \in [Addresses -> Nat]
        /\ second[seller] = first[seller] + (gross - referral)
    BY <1>0, <1>1, <1>5, <1>6, MovedKeeps
  <1> HIDE DEF second
  <1>8. /\ balances' \in [Addresses -> Nat]
        /\ \A x \in Addresses : x # sender => balances'[x] >= second[x]
    BY <1>0, <1>1, <1>3, <1>7, UpkeepNat, PayUpkeepKeeps
  <1>9. balances'[seller] >= balances[seller] + gross - referral
    BY <1>0, <1>1, <1>5, <1>6, <1>7, <1>8
  <1> QED
    BY <1>3, <1>4, <1>8, <1>9 DEF b, gross, referral

\* buy keeps it: the buyer starts a week of its own.
LEMMA BuyKeeps ==
  ASSUME IInv, NEW sender \in Controllers, NEW a \in Acolytes,
         NEW expectedOwner, NEW expectedAgent, NEW maximum,
         NEW agent \in Agents, NEW price \in Prices, NEW deadline,
         Buy(sender, a, expectedOwner, expectedAgent, maximum, agent, price,
             deadline)
  PROVE  IInv'
  <1> DEFINE b == Synced(brandings[a])
             c == TakenOver(b, agent, price)
             weeks == {Week(now, price)}
  <1>1. /\ balances' \in [Addresses -> Nat]
        /\ b \in BrandingData /\ b.referrer \in Addresses
    BY BuyPays
  <1>2. /\ now \in Nat /\ price \in Nat /\ sender \in Addresses
        /\ nonces \in [Acolytes -> Nat] /\ transfers \in Nat
    BY AddressAssumption, PriceAssumption DEF IInv, TypeOK
  <1>3. /\ brandings' = [brandings EXCEPT ![a] = c]
        /\ charged' = [charged EXCEPT ![a] = weeks]
        /\ owner' = [owner EXCEPT ![a] = sender]
        /\ transfers' = transfers + 1
        /\ now' = now /\ registry' = registry /\ nonces' = nonces
    BY DEF Buy
  <1> HIDE DEF b
  <1>4. /\ c \in BrandingData /\ PendingSound(c)
        /\ weeks \in SUBSET PaidWeek /\ Covered(weeks, c)
        /\ c.paidThrough <= now + 2 * WEEK
        /\ c.referrer \in Addresses /\ c.controllerAgentId \in Agents
    BY <1>1, <1>2, TakenOverSound
  <1> HIDE DEF c, weeks
  <1>5. nonces' \in [Acolytes -> Nat] /\ transfers' \in Nat
    BY <1>2, <1>3
  <1> QED
    BY <1>1, <1>2, <1>3, <1>4, <1>5, OneBranding

\* claimUnserved keeps it: so does the claimant.
LEMMA ClaimKeeps ==
  ASSUME IInv, NEW sender \in Controllers, NEW a \in Acolytes,
         NEW expectedOwner, NEW expectedAgent,
         NEW agent \in Agents, NEW price \in Prices, NEW deadline,
         ClaimUnserved(sender, a, expectedOwner, expectedAgent, agent, price,
                       deadline)
  PROVE  IInv'
  <1> DEFINE b == brandings[a]
             c == TakenOver(b, agent, price)
             weeks == {Week(now, price)}
  <1>1. /\ now \in Nat /\ price \in Nat /\ sender \in Addresses
        /\ a \in Addresses /\ b \in BrandingData
        /\ balances \in [Addresses -> Nat]
        /\ nonces \in [Acolytes -> Nat] /\ transfers \in Nat
    BY AddressAssumption, PriceAssumption DEF IInv, TypeOK
  <1>2. /\ owner[a] # NoOne
        /\ brandings' = [brandings EXCEPT ![a] = c]
        /\ charged' = [charged EXCEPT ![a] = weeks]
        /\ owner' = [owner EXCEPT ![a] = sender]
        /\ transfers' = transfers + 1
        /\ now' = now /\ registry' = registry /\ nonces' = nonces
        /\ PayUpkeep(balances, balances', sender, a, b.referrer,
                     WeeklyUpkeepForPrice(price))
    BY DEF ClaimUnserved
  <1>3. b.referrer \in Addresses
    BY <1>2 DEF IInv, MintedComplete
  <1> HIDE DEF b
  <1>4. /\ c \in BrandingData /\ PendingSound(c)
        /\ weeks \in SUBSET PaidWeek /\ Covered(weeks, c)
        /\ c.paidThrough <= now + 2 * WEEK
        /\ c.referrer \in Addresses /\ c.controllerAgentId \in Agents
    BY <1>1, <1>3, TakenOverSound
  <1>5. balances' \in [Addresses -> Nat]
    BY <1>1, <1>2, <1>3, UpkeepNat, PayUpkeepKeeps
  <1> HIDE DEF c, weeks
  <1>6. nonces' \in [Acolytes -> Nat] /\ transfers' \in Nat
    BY <1>1, <1>2
  <1> QED
    BY <1>1, <1>2, <1>4, <1>5, <1>6, OneBranding

\* The registry touches neither prices nor paid weeks.
LEMMA RegistryChangeKeeps ==
  ASSUME IInv, NEW move \in RegistryMoves, RegistryChange(move[1], move[2])
  PROVE  IInv'
  <1>1. move[1] \in Agents /\ move[2] \in Controllers \cup {Nobody, Unreadable}
    BY RegistryAssumption
  <1>2. TypeOK'
    BY <1>1 DEF IInv, TypeOK, RegistryChange
  <1>3. PricesCovered' /\ MintedComplete' /\ PrepaidCapped'
    BY DEF IInv, RegistryChange, PricesCovered, PendingSound, Covered,
           PriceAt, MintedComplete, PrepaidCapped
  <1> QED
    BY <1>2, <1>3 DEF IInv

\* Time only drops weeks that are over, and only shortens what is to cover.
LEMMA BlockKeeps ==
  ASSUME IInv, Block
  PROVE  IInv'
  <1>1. /\ now \in Nat /\ now' = now + 1 /\ owner' = owner
        /\ brandings' = brandings /\ registry' = registry
        /\ nonces' = nonces /\ balances' = balances /\ transfers' = transfers
        /\ charged' = [a \in Acolytes |->
                         {w \in charged[a] : w.to > now + 1}]
        /\ \A a \in Acolytes : /\ charged[a] \in SUBSET PaidWeek
                               /\ brandings[a] \in BrandingData
    BY DEF IInv, TypeOK, Block, PaidWeek
  <1>2. TypeOK'
    BY <1>1 DEF IInv, TypeOK, PaidWeek
  <1>3. ASSUME NEW a \in Acolytes, owner[a] # NoOne,
               NEW time \in now' .. brandings[a].paidThrough - 1
        PROVE  \E w \in charged'[a] : /\ w.from <= time /\ time < w.to
                                      /\ PriceAt(brandings[a], time) <= w.price
    <2>1. time \in Nat /\ time >= now + 1
            /\ time \in now .. brandings[a].paidThrough - 1
      BY <1>1, <1>3 DEF BrandingData
    <2>2. PICK w \in charged[a] : /\ w.from <= time /\ time < w.to
                                  /\ PriceAt(brandings[a], time) <= w.price
      BY <1>3, <2>1 DEF IInv, PricesCovered, Covered
    <2>3. w.to \in Nat
      BY <1>1 DEF PaidWeek
    <2>4. w \in charged'[a]
      BY <1>1, <2>1, <2>2, <2>3
    <2> QED
      BY <2>2, <2>4
  <1>4. PricesCovered'
    BY <1>1, <1>3 DEF IInv, PricesCovered, PendingSound, Covered, PriceAt
  <1>5. MintedComplete'
    BY <1>1 DEF IInv, MintedComplete
  <1>6. PrepaidCapped'
    BY <1>1, TimeAssumption DEF IInv, PrepaidCapped, BrandingData
  <1> QED
    BY <1>2, <1>4, <1>5, <1>6 DEF IInv

-----------------------------------------------------------------------------
(* The theorems. *)

\* Every reachable state of the contract satisfies the inductive invariant.
THEOREM ContractSound == Spec => []IInv
  <1>1. Init => IInv
    <2> SUFFICES ASSUME Init PROVE IInv
      OBVIOUS
    <2>1. TypeOK
      BY TimeAssumption, RegistryAssumption
         DEF Init, TypeOK, BrandingData, Unminted
    <2>2. PricesCovered
      BY DEF Init, PricesCovered, PendingSound, Unminted
    <2>3. MintedComplete
      BY DEF Init, MintedComplete
    <2>4. PrepaidCapped
      BY TimeAssumption DEF Init, PrepaidCapped, Unminted
    <2> QED
      BY <2>1, <2>2, <2>3, <2>4 DEF IInv
  <1>2. IInv /\ [Next]_vars => IInv'
    <2> SUFFICES ASSUME IInv, [Next]_vars PROVE IInv'
      OBVIOUS
    <2>1. CASE \E consent \in Consents : MintBranding(consent.minter, consent)
      BY <2>1, MintKeeps
    <2>2. CASE \E sender \in Controllers, a \in Acolytes : Renew(sender, a)
      BY <2>2, RenewKeeps
    <2>3. CASE \E sender \in Controllers, a \in Acolytes, price \in Prices :
                 SetDeclaredPrice(sender, a, price)
      BY <2>3, SetDeclaredPriceKeeps
    <2>4. CASE \E sender \in Controllers, a \in Acolytes,
                  expectedOwner \in Controllers,
                  expectedAgent, agent \in Agents,
                  price \in Prices, deadline \in Deadlines,
                  maximum \in Prices :
                 Buy(sender, a, expectedOwner, expectedAgent, maximum, agent,
                     price, deadline)
      BY <2>4, BuyKeeps
    <2>5. CASE \E sender \in Controllers, a \in Acolytes,
                  expectedOwner \in Controllers,
                  expectedAgent, agent \in Agents,
                  price \in Prices, deadline \in Deadlines :
                 ClaimUnserved(sender, a, expectedOwner, expectedAgent, agent,
                               price, deadline)
      BY <2>5, ClaimKeeps
    <2>6. CASE \E move \in RegistryMoves : RegistryChange(move[1], move[2])
      BY <2>6, RegistryChangeKeeps
    <2>7. CASE Block
      BY <2>7, BlockKeeps
    <2>8. CASE UNCHANGED vars
      BY <2>8 DEF vars, IInv, TypeOK, PricesCovered, PendingSound, Covered,
                  PriceAt, MintedComplete, PrepaidCapped
    <2> QED
      BY <2>1, <2>2, <2>3, <2>4, <2>5, <2>6, <2>7, <2>8 DEF Next
  <1> QED
    BY <1>1, <1>2, PTL DEF Spec

\* The state of the contract stays well formed: in particular no UWU balance
\* ever goes below zero.
THEOREM BrandingTypeCorrect == Spec => []TypeOK
  BY ContractSound, PTL DEF IInv

\* An active branding is never executable at a price whose upkeep was unpaid.
THEOREM PricePaidForHolds == Spec => []PricePaidFor
  <1>1. IInv => PricePaidFor
    <2> SUFFICES ASSUME IInv, NEW a \in Acolytes, owner[a] # NoOne,
                        now < brandings[a].paidThrough
                 PROVE  \E w \in charged[a] :
                          /\ w.from <= now /\ now < w.to
                          /\ PriceAt(brandings[a], now) <= w.price
      BY DEF PricePaidFor, EffectiveDeclaredPrice
    <2>1. now \in now .. brandings[a].paidThrough - 1
      BY DEF IInv, TypeOK, BrandingData
    <2> QED
      BY <2>1 DEF IInv, PricesCovered, Covered
  <1> QED
    BY <1>1, ContractSound, PTL

\* No sequence of transactions prepays more than two weeks of service.
THEOREM PrepaidCappedHolds == Spec => []PrepaidCapped
  BY ContractSound, PTL DEF IInv

\* An owner loses a branding unpaid only once it expired or proved ineligible,
\* never during a registry outage; an active one is paid for in full.
THEOREM OwnerCompensatedHolds == Spec => OwnerCompensated
  <1> DEFINE Kept ==
        \A a \in Acolytes :
          owner[a] # NoOne /\ owner'[a] # owner[a] =>
            \/ StatusOf(a) \in {"Expired", "Ineligible"}
            \/ /\ StatusOf(a) = "Active"
               /\ LET gross == EffectiveDeclaredPrice(brandings[a]) IN
                  balances'[owner[a]] >=
                    balances[owner[a]] + gross - ReferralOf(gross)
  <1>1. IInv /\ [Next]_vars => [Kept]_vars
    <2> SUFFICES ASSUME IInv, Next, NEW a \in Acolytes, owner[a] # NoOne,
                        owner'[a] # owner[a]
                 PROVE  \/ StatusOf(a) \in {"Expired", "Ineligible"}
                        \/ /\ StatusOf(a) = "Active"
                           /\ LET gross == EffectiveDeclaredPrice(brandings[a])
                              IN  balances'[owner[a]] >=
                                    balances[owner[a]] + gross
                                      - ReferralOf(gross)
      OBVIOUS
    <2>0. owner \in [Acolytes -> Addresses \cup {NoOne}]
      BY DEF IInv, TypeOK
    <2>1. ASSUME NEW consent \in Consents,
                 MintBranding(consent.minter, consent)
          PROVE  FALSE
      BY <2>0, <2>1 DEF MintBranding
    <2>2. ASSUME NEW sender \in Controllers, NEW x \in Acolytes,
                 NEW expectedOwner \in Controllers,
                 NEW expectedAgent \in Agents, NEW agent \in Agents,
                 NEW price \in Prices, NEW deadline \in Deadlines,
                 NEW maximum \in Prices,
                 Buy(sender, x, expectedOwner, expectedAgent, maximum, agent,
                     price, deadline)
          PROVE  /\ StatusOf(a) = "Active"
                 /\ LET gross == EffectiveDeclaredPrice(brandings[a]) IN
                    balances'[owner[a]] >=
                      balances[owner[a]] + gross - ReferralOf(gross)
      <3>1. x = a
        BY <2>0, <2>2 DEF Buy
      <3>2. StatusOf(x) = "Active"
        BY <2>2 DEF Buy
      <3>3. LET gross == EffectiveDeclaredPrice(brandings[x]) IN
            balances'[owner[x]] >=
              balances[owner[x]] + gross - ReferralOf(gross)
        BY <2>2, BuyPays
      <3> QED
        BY <3>1, <3>2, <3>3
    <2>3. ASSUME NEW sender \in Controllers, NEW x \in Acolytes,
                 NEW expectedOwner \in Controllers,
                 NEW expectedAgent \in Agents, NEW agent \in Agents,
                 NEW price \in Prices, NEW deadline \in Deadlines,
                 ClaimUnserved(sender, x, expectedOwner, expectedAgent, agent,
                               price, deadline)
          PROVE  StatusOf(a) \in {"Expired", "Ineligible"}
      <3>1. x = a
        BY <2>0, <2>3 DEF ClaimUnserved
      <3>2. StatusOf(x) \in {"Expired", "Ineligible"}
        BY <2>3 DEF ClaimUnserved, Claimable
      <3> QED
        BY <3>1, <3>2
    <2>4. ASSUME \/ \E sender \in Controllers, x \in Acolytes :
                      \/ Renew(sender, x)
                      \/ \E price \in Prices :
                           SetDeclaredPrice(sender, x, price)
                 \/ \E move \in RegistryMoves :
                      RegistryChange(move[1], move[2])
                 \/ Block
          PROVE  FALSE
      BY <2>4 DEF Renew, SetDeclaredPrice, RegistryChange, Block
    <2> QED
      BY <2>1, <2>2, <2>3, <2>4 DEF Next
  <1> QED
    BY <1>1, ContractSound, PTL DEF Spec, OwnerCompensated

-----------------------------------------------------------------------------
(* Growth: where a snapshot's people are reached. *)

\* The referrer can be reached where the record says: an operator at its inbox, or
\* an Acolyte with a record at an inbox of its own.
Reachable(s, r) ==
  \/ <<r.referrer_inbox, r.referrer>> \in OperatorUses
  \/ /\ r.referrer \in KnownAcolytes(s)
     /\ <<r.referrer_inbox, r.referrer>> \in ContactUses

\* What the validation demands of one record, and where its inboxes come from.
RecordSound(s, a, amount) ==
  LET r == s.records[a] IN
  /\ <<r.inbox, a>> \in ContactUses
  /\ r.referrer # None => minter \notin {a, r.referrer} /\ r.referrer # a /\ Reachable(s, r)
  /\ (r.referrer = None) = (r.referrer_inbox = None)
  /\ InboxesApart => r.referrer_inbox # r.inbox
  /\ PhaseFits(r)
  /\ r.phase # "Confirmed" => r.amount = amount

OwnInboxes(s) ==
  InboxesApart =>
  \A a, b \in KnownAcolytes(s) : s.records[a].inbox = s.records[b].inbox => a = b

OperatorsSound(s) ==
  /\ s.operator # None => s.operators[s.operator[2]] = s.operator[1]
  /\ s.operators[minter] = None
  /\ \A a, b \in Address : s.operators[a] # None /\ s.operators[a] = s.operators[b] => a = b
  /\ \A a \in Address : s.operators[a] # None => <<s.operators[a], a>> \in OperatorUses

\* A snapshot of the program: valid, and with inboxes its people really use.
Fits(s, amount) ==
  /\ s \in Snapshot
  /\ IsFiniteSet(KnownAcolytes(s)) /\ Cardinality(KnownAcolytes(s)) <= MAX_RECORDS
  /\ OperatorsSound(s)
  /\ OwnInboxes(s)
  /\ \A a \in KnownAcolytes(s) : RecordSound(s, a, amount)

\* Such a snapshot can be saved, and opened.
LEMMA FitsIsValid ==
  ASSUME NEW s, NEW amount, Fits(s, amount), InboxesApart
  PROVE  ValidSnapshot(s, amount)
  BY DEF Fits, ValidSnapshot, OperatorsSound, OwnInboxes, RecordSound

\* A known Acolyte has a record.
LEMMA KnownRecord ==
  ASSUME NEW s \in Snapshot, NEW a \in KnownAcolytes(s)
  PROVE  a \in Address /\ s.records[a] \in Record
  BY DEF KnownAcolytes, Snapshot

\* What is written about records without touching who is known, at which inbox and
\* by whom referred.
Rewrites(t, s, promised) ==
  /\ t.operators = s.operators
  /\ t.operator = s.operator
  /\ KnownAcolytes(t) = KnownAcolytes(s)
  /\ \A a \in KnownAcolytes(s) :
       /\ t.records[a].inbox = s.records[a].inbox
       /\ t.records[a].referrer = s.records[a].referrer
       /\ t.records[a].referrer_inbox = s.records[a].referrer_inbox
       /\ PhaseFits(t.records[a])
       /\ t.records[a].phase # "Confirmed" => t.records[a].amount = promised

\* Records rewritten like that stay sound, for the amount they now promise.
LEMMA RewrittenFits ==
  ASSUME NEW s, NEW t \in Snapshot, NEW amount, NEW promised, Fits(s, amount),
         Rewrites(t, s, promised)
  PROVE  Fits(t, promised)
<1>0. t.operators = s.operators /\ t.operator = s.operator
      /\ KnownAcolytes(t) = KnownAcolytes(s)
  BY DEF Rewrites
<1>1. IsFiniteSet(KnownAcolytes(t)) /\ Cardinality(KnownAcolytes(t)) <= MAX_RECORDS
  BY <1>0 DEF Fits
<1>2. OperatorsSound(t)
  BY <1>0 DEF Fits, OperatorsSound
<1>3. OwnInboxes(t)
  BY <1>0 DEF Fits, OwnInboxes, Rewrites
<1>4. ASSUME NEW a \in KnownAcolytes(t) PROVE RecordSound(t, a, promised)
  <2>1. RecordSound(s, a, amount) BY <1>0 DEF Fits
  <2>2. Reachable(s, s.records[a]) => Reachable(t, t.records[a])
    BY <1>0 DEF Reachable, Rewrites
  <2>. QED BY <1>0, <2>1, <2>2 DEF RecordSound, Rewrites
<1>. QED BY <1>1, <1>2, <1>3, <1>4 DEF Fits

\* One record is written.
Put(s, a, r) == [s EXCEPT !.records[a] = r]

Written(t, s, a, r) ==
  /\ t.records[a] = r
  /\ \A b \in Address \ {a} : t.records[b] = s.records[b]
  /\ t.operators = s.operators
  /\ t.operator = s.operator
  /\ t.prompt = s.prompt
  /\ t.reminders = s.reminders

\* What a snapshot holds after one record is written.
LEMMA PutIs ==
  ASSUME NEW s \in Snapshot, NEW a \in Address, NEW r \in Record
  PROVE  /\ Put(s, a, r) \in Snapshot
         /\ Written(Put(s, a, r), s, a, r)
  BY DEF Put, Snapshot, Written

\* Writing a record makes its Acolyte known, and nobody else.
LEMMA PutKnown ==
  ASSUME NEW s \in Snapshot, NEW a \in Address, NEW r \in Record, GrowthParameters
  PROVE  KnownAcolytes(Put(s, a, r)) = KnownAcolytes(s) \cup {a}
<1>. DEFINE t == Put(s, a, r)
<1>1. /\ t.records[a] = r
      /\ \A b \in Address \ {a} : t.records[b] = s.records[b]
  BY PutIs DEF Written
<1>2. r # None BY DEF GrowthParameters
<1>. HIDE DEF t
<1>3. KnownAcolytes(t) = KnownAcolytes(s) \cup {a} BY <1>1, <1>2 DEF KnownAcolytes
<1>. QED BY <1>3 DEF t

\* A contact's record is created or rewritten at an inbox nobody else holds.
LEMMA ContactFits ==
  ASSUME NEW s, NEW amount, NEW a \in Address, NEW r \in Record, Fits(s, amount),
         GrowthParameters,
         a \in KnownAcolytes(s) \/ Cardinality(KnownAcolytes(s)) < MAX_RECORDS,
         InboxesApart => \A b \in KnownAcolytes(s) \ {a} : s.records[b].inbox # r.inbox,
         RecordSound(Put(s, a, r), a, amount)
  PROVE  Fits(Put(s, a, r), amount)
<1>. DEFINE t == Put(s, a, r)
<1>1. s \in Snapshot BY DEF Fits
<1>2. t \in Snapshot /\ KnownAcolytes(t) = KnownAcolytes(s) \cup {a}
  BY <1>1, PutIs, PutKnown
<1>w. Written(t, s, a, r) BY <1>1, PutIs
<1>3. IsFiniteSet(KnownAcolytes(t)) /\ Cardinality(KnownAcolytes(t)) <= MAX_RECORDS
  <2>1. IsFiniteSet(KnownAcolytes(s)) /\ Cardinality(KnownAcolytes(s)) <= MAX_RECORDS
    BY DEF Fits
  <2>2. CASE a \in KnownAcolytes(s)
    <3>1. KnownAcolytes(t) = KnownAcolytes(s) BY <1>2, <2>2
    <3>. QED BY <2>1, <3>1
  <2>3. CASE a \notin KnownAcolytes(s)
    <3>1. /\ IsFiniteSet(KnownAcolytes(s) \cup {a})
          /\ Cardinality(KnownAcolytes(s) \cup {a}) = Cardinality(KnownAcolytes(s)) + 1
      BY <2>1, <2>3, FS_AddElement
    <3>2. Cardinality(KnownAcolytes(s)) \in Nat BY <2>1, FS_CardinalityType
    <3>3. MAX_RECORDS \in Nat BY DEF GrowthParameters
    <3>. QED BY <1>2, <2>3, <3>1, <3>2, <3>3
  <2>. QED BY <2>2, <2>3
<1>4. OperatorsSound(t)
  BY <1>w DEF Fits, OperatorsSound, Written
<1>5. OwnInboxes(t)
  <2>. SUFFICES ASSUME InboxesApart PROVE OwnInboxes(t) BY DEF OwnInboxes
  <2>1. t.records[a] = r /\ \A b \in Address \ {a} : t.records[b] = s.records[b]
    BY <1>w DEF Written
  <2>2. KnownAcolytes(s) \subseteq Address BY DEF KnownAcolytes
  <2>3. \A b, c \in KnownAcolytes(s) : s.records[b].inbox = s.records[c].inbox => b = c
    BY DEF Fits, OwnInboxes
  <2>. QED BY <1>2, <2>1, <2>2, <2>3 DEF OwnInboxes
<1>6. ASSUME NEW b \in KnownAcolytes(t) PROVE RecordSound(t, b, amount)
  <2>1. CASE b = a BY <2>1
  <2>2. CASE b # a
    <3>1. b \in KnownAcolytes(s) /\ b \in Address BY <1>2, <2>2 DEF KnownAcolytes
    <3>2. RecordSound(s, b, amount) BY <3>1 DEF Fits
    <3>3. t.records[b] = s.records[b] BY <1>w, <2>2, <3>1 DEF Written
    <3>4. Reachable(s, s.records[b]) => Reachable(t, t.records[b])
      BY <1>2, <3>3 DEF Reachable
    <3>. QED BY <3>2, <3>3, <3>4 DEF RecordSound
  <2>. QED BY <2>1, <2>2
<1>. QED BY <1>2, <1>3, <1>4, <1>5, <1>6 DEF Fits

\* The notices of those a contact or an operator referred follow it to its inbox.
Redirected(s, a, inbox) ==
  [s EXCEPT !.records =
     [b \in Address |->
        IF s.records[b] # None /\ s.records[b].referrer = a /\ s.records[b].inbox # inbox
        THEN [s.records[b] EXCEPT !.referrer_inbox = inbox] ELSE s.records[b]]]

\* What a snapshot holds after notices are redirected.
LEMMA RedirectedIs ==
  ASSUME NEW s \in Snapshot, NEW a \in Address, NEW inbox \in Inbox, GrowthParameters
  PROVE  LET t == Redirected(s, a, inbox) IN
         /\ t \in Snapshot
         /\ KnownAcolytes(t) = KnownAcolytes(s)
         /\ t.operators = s.operators /\ t.operator = s.operator
         /\ \A b \in KnownAcolytes(s) :
              /\ t.records[b] \in Record
              /\ t.records[b] = IF s.records[b].referrer = a /\ s.records[b].inbox # inbox
                                THEN [s.records[b] EXCEPT !.referrer_inbox = inbox]
                                ELSE s.records[b]
<1>. DEFINE New(b) ==
       IF s.records[b] # None /\ s.records[b].referrer = a /\ s.records[b].inbox # inbox
       THEN [s.records[b] EXCEPT !.referrer_inbox = inbox] ELSE s.records[b]
            t == Redirected(s, a, inbox)
<1>1. ASSUME NEW b \in Address
      PROVE /\ New(b) \in Record \cup {None}
            /\ (New(b) = None) = (s.records[b] = None)
  <2>1. s.records[b] \in Record \cup {None} BY DEF Snapshot
  <2>2. ASSUME NEW r \in Record PROVE [r EXCEPT !.referrer_inbox = inbox] \in Record
    BY <2>2 DEF Record
  <2>3. None \notin Record BY DEF GrowthParameters
  <2>. QED BY <2>1, <2>2, <2>3
<1>2. t = [s EXCEPT !.records = [b \in Address |-> New(b)]]
  BY DEF Redirected
<1>. HIDE DEF New
<1>3. t \in Snapshot /\ t.records = [b \in Address |-> New(b)]
      /\ t.operators = s.operators /\ t.operator = s.operator
  <2>. HIDE DEF t
  <2>. QED BY <1>1, <1>2 DEF Snapshot
<1>4. \A b \in Address : t.records[b] = New(b)
  BY <1>3
<1>5. KnownAcolytes(t) = KnownAcolytes(s)
  BY <1>1, <1>4 DEF KnownAcolytes
<1>6. ASSUME NEW b \in KnownAcolytes(s)
      PROVE /\ t.records[b] \in Record
            /\ t.records[b] = IF s.records[b].referrer = a /\ s.records[b].inbox # inbox
                              THEN [s.records[b] EXCEPT !.referrer_inbox = inbox]
                              ELSE s.records[b]
  <2>1. b \in Address /\ s.records[b] # None BY DEF KnownAcolytes
  <2>2. t.records[b] = New(b) BY <1>4, <2>1
  <2>3. New(b) \in Record BY <1>1, <2>1
  <2>4. New(b) = IF s.records[b].referrer = a /\ s.records[b].inbox # inbox
                 THEN [s.records[b] EXCEPT !.referrer_inbox = inbox]
                 ELSE s.records[b]
    BY <2>1 DEF New
  <2>. QED BY <2>2, <2>3, <2>4
<1>. QED BY <1>3, <1>5, <1>6

\* It stays sound if the person really uses the inbox.
LEMMA RedirectedFits ==
  ASSUME NEW s, NEW amount, NEW a \in Address, NEW inbox \in Inbox, Fits(s, amount),
         GrowthParameters,
         \/ <<inbox, a>> \in OperatorUses
         \/ a \in KnownAcolytes(s) /\ <<inbox, a>> \in ContactUses
  PROVE  Fits(Redirected(s, a, inbox), amount)
<1>. DEFINE t == Redirected(s, a, inbox)
<1>1. s \in Snapshot BY DEF Fits
<1>2. /\ t \in Snapshot
      /\ KnownAcolytes(t) = KnownAcolytes(s)
      /\ t.operators = s.operators /\ t.operator = s.operator
  BY <1>1, RedirectedIs
<1>3. IsFiniteSet(KnownAcolytes(t)) /\ Cardinality(KnownAcolytes(t)) <= MAX_RECORDS
  BY <1>2 DEF Fits
<1>4. OperatorsSound(t) BY <1>2 DEF Fits, OperatorsSound
<1>5. ASSUME NEW b \in KnownAcolytes(s)
      PROVE  /\ t.records[b].inbox = s.records[b].inbox
             /\ RecordSound(t, b, amount)
  <2>1. b \in Address /\ s.records[b] \in Record BY <1>1, KnownRecord
  <2>2. RecordSound(s, b, amount) BY DEF Fits
  <2>3. CASE s.records[b].referrer = a /\ s.records[b].inbox # inbox
    <3>1. t.records[b] = [s.records[b] EXCEPT !.referrer_inbox = inbox]
      BY <1>1, <2>3, RedirectedIs
    <3>. DEFINE r == s.records[b]
                q == t.records[b]
    <3>2. /\ q.inbox = r.inbox /\ q.referrer = r.referrer /\ q.referrer_inbox = inbox
          /\ q.phase = r.phase /\ q.onboarded = r.onboarded /\ q.amount = r.amount
          /\ q.nonce = r.nonce /\ q.delivery = r.delivery
          /\ q.next_attempt = r.next_attempt
      BY <2>1, <3>1 DEF Record
    <3>. HIDE DEF q
    <3>3. Reachable(t, q) BY <1>2, <2>3, <3>2 DEF Reachable
    <3>4. PhaseFits(q) BY <2>2, <3>2 DEF RecordSound, PhaseFits
    <3>5. a # None /\ inbox # None BY DEF GrowthParameters
    <3>6. q.inbox = r.inbox BY <3>2
    <3>7. RecordSound(t, b, amount)
      <4>1. /\ <<q.inbox, b>> \in ContactUses
            /\ minter \notin {b, q.referrer} /\ q.referrer # b
            /\ q.referrer # None /\ q.referrer_inbox # None
            /\ InboxesApart => q.referrer_inbox # q.inbox
            /\ q.phase # "Confirmed" => q.amount = amount
        BY <2>2, <2>3, <3>2, <3>5 DEF RecordSound
      <4>. QED BY <4>1, <3>3, <3>4 DEF RecordSound, q
    <3>. QED BY <3>6, <3>7 DEF q
  <2>4. CASE ~(s.records[b].referrer = a /\ s.records[b].inbox # inbox)
    <3>1. t.records[b] = s.records[b] BY <1>1, <2>4, RedirectedIs
    <3>2. Reachable(s, s.records[b]) => Reachable(t, t.records[b])
      BY <1>2, <3>1 DEF Reachable
    <3>. QED BY <2>2, <3>1, <3>2 DEF RecordSound
  <2>. QED BY <2>3, <2>4
<1>6. OwnInboxes(t)
  <2>. SUFFICES ASSUME InboxesApart PROVE OwnInboxes(t) BY DEF OwnInboxes
  <2>1. \A b, c \in KnownAcolytes(s) : s.records[b].inbox = s.records[c].inbox => b = c
    BY DEF Fits, OwnInboxes
  <2>. QED BY <1>2, <1>5, <2>1 DEF OwnInboxes
<1>7. \A b \in KnownAcolytes(t) : RecordSound(t, b, amount) BY <1>2, <1>5
<1>. HIDE DEF t
<1>8. Fits(t, amount) BY <1>2, <1>3, <1>4, <1>6, <1>7 DEF Fits
<1>. QED BY <1>8 DEF t
-----------------------------------------------------------------------------
(* What a change of the snapshot keeps. *)

\* Records stay, a pinned referrer stays, and so does a promised amount.
Continues(s, t) ==
  \A a \in KnownAcolytes(s) :
    /\ a \in KnownAcolytes(t)
    /\ s.records[a].referrer # None => t.records[a].referrer = s.records[a].referrer
    /\ s.records[a].phase \notin Unrewarded =>
         /\ t.records[a].phase \notin Unrewarded
         /\ t.records[a].amount = s.records[a].amount

Keeps(t, s, amount) == Fits(t, amount) /\ Continues(s, t)

\* Two changes in a row, where a pinned referrer is there in between.
LEMMA ContinuesOn ==
  ASSUME NEW s, NEW t, NEW u, Continues(s, t), Continues(t, u),
         \A a \in KnownAcolytes(s) : s.records[a].referrer # None => t.records[a].referrer # None
  PROVE  Continues(s, u)
  BY DEF Continues

\* One record is rewritten where it is.
LEMMA RewriteOne ==
  ASSUME NEW s, NEW amount, NEW a \in KnownAcolytes(s), NEW r \in Record, Fits(s, amount),
         GrowthParameters,
         r.inbox = s.records[a].inbox, r.referrer = s.records[a].referrer,
         r.referrer_inbox = s.records[a].referrer_inbox, PhaseFits(r),
         r.amount = s.records[a].amount,
         s.records[a].phase \notin Unrewarded => r.phase \notin Unrewarded,
         r.phase # "Confirmed" => s.records[a].phase # "Confirmed"
  PROVE  Keeps(Put(s, a, r), s, amount)
<1>. DEFINE t == Put(s, a, r)
<1>1. s \in Snapshot /\ a \in Address BY DEF Fits, KnownAcolytes
<1>2. t \in Snapshot /\ Written(t, s, a, r) BY <1>1, PutIs
<1>3. KnownAcolytes(t) = KnownAcolytes(s)
  <2>1. KnownAcolytes(t) = KnownAcolytes(s) \cup {a} BY <1>1, PutKnown
  <2>. HIDE DEF t
  <2>. QED BY <2>1
<1>. HIDE DEF t
<1>4. ASSUME NEW b \in KnownAcolytes(s)
      PROVE /\ t.records[b].inbox = s.records[b].inbox
            /\ t.records[b].referrer = s.records[b].referrer
            /\ t.records[b].referrer_inbox = s.records[b].referrer_inbox
            /\ PhaseFits(t.records[b])
            /\ t.records[b].phase # "Confirmed" => t.records[b].amount = amount
            /\ s.records[b].phase \notin Unrewarded =>
                 /\ t.records[b].phase \notin Unrewarded
                 /\ t.records[b].amount = s.records[b].amount
  <2>1. RecordSound(s, b, amount) BY DEF Fits
  <2>2. CASE b = a
    <3>1. t.records[b] = r BY <1>2, <2>2 DEF Written
    <3>. QED BY <2>1, <2>2, <3>1 DEF RecordSound
  <2>3. CASE b # a
    <3>1. t.records[b] = s.records[b] BY <1>2, <2>3 DEF Written, KnownAcolytes
    <3>. QED BY <2>1, <3>1 DEF RecordSound
  <2>. QED BY <2>2, <2>3
<1>5. t.operators = s.operators /\ t.operator = s.operator BY <1>2 DEF Written
<1>6. Rewrites(t, s, amount) BY <1>3, <1>4, <1>5 DEF Rewrites
<1>8. Fits(t, amount) BY <1>2, <1>6, RewrittenFits
<1>7. Continues(s, t) BY <1>3, <1>4 DEF Continues
<1>. QED BY <1>7, <1>8 DEF Keeps, t

\* Prompt and reminders concern no record.
LEMMA SameRecords ==
  ASSUME NEW s, NEW t \in Snapshot, NEW amount, Fits(s, amount), t.records = s.records,
         t.operators = s.operators, t.operator = s.operator
  PROVE  Keeps(t, s, amount)
<1>1. KnownAcolytes(t) = KnownAcolytes(s) BY DEF KnownAcolytes
<1>2. ASSUME NEW a \in KnownAcolytes(s)
      PROVE  PhaseFits(t.records[a]) /\ (t.records[a].phase # "Confirmed" => t.records[a].amount = amount)
  <2>1. RecordSound(s, a, amount) BY <1>2 DEF Fits
  <2>2. PhaseFits(s.records[a]) /\ (s.records[a].phase # "Confirmed" => s.records[a].amount = amount)
    BY <2>1 DEF RecordSound
  <2>. QED BY <2>2
<1>3. Rewrites(t, s, amount) BY <1>1, <1>2 DEF Rewrites
<1>4. Fits(t, amount) BY <1>3, RewrittenFits
<1>. QED BY <1>1, <1>4 DEF Keeps, Continues

\* Every retry is put off, or every retry comes due and every cooldown ends.
Retimed(t, s) ==
  /\ KnownAcolytes(t) = KnownAcolytes(s)
  /\ t.operators = s.operators
  /\ t.operator = s.operator
  /\ \A a \in KnownAcolytes(s) : \E n \in BOOLEAN, d \in Due :
       /\ t.records[a] = [s.records[a] EXCEPT !.noticed = n, !.next_attempt = d]
       /\ d = "never" => s.records[a].next_attempt = "never"

\* It changes nothing the validation looks at.
LEMMA RetimedFits ==
  ASSUME NEW s, NEW t \in Snapshot, NEW amount, Fits(s, amount), Retimed(t, s)
  PROVE  Keeps(t, s, amount)
<1>0. KnownAcolytes(t) = KnownAcolytes(s) /\ t.operators = s.operators
      /\ t.operator = s.operator
  BY DEF Retimed
<1>1. ASSUME NEW a \in KnownAcolytes(s)
      PROVE /\ t.records[a].inbox = s.records[a].inbox
            /\ t.records[a].referrer = s.records[a].referrer
            /\ t.records[a].referrer_inbox = s.records[a].referrer_inbox
            /\ PhaseFits(t.records[a])
            /\ t.records[a].phase # "Confirmed" => t.records[a].amount = amount
            /\ t.records[a].phase = s.records[a].phase
            /\ t.records[a].amount = s.records[a].amount
  <2>1. PICK n \in BOOLEAN, d \in Due :
           /\ t.records[a] = [s.records[a] EXCEPT !.noticed = n, !.next_attempt = d]
           /\ d = "never" => s.records[a].next_attempt = "never"
    BY DEF Retimed
  <2>2. s.records[a] \in Record BY KnownRecord DEF Fits
  <2>3. RecordSound(s, a, amount) BY DEF Fits
  <2>. DEFINE r == s.records[a]
              q == t.records[a]
  <2>4. /\ q.inbox = r.inbox /\ q.referrer = r.referrer /\ q.referrer_inbox = r.referrer_inbox
        /\ q.phase = r.phase /\ q.onboarded = r.onboarded /\ q.amount = r.amount
        /\ q.nonce = r.nonce /\ q.delivery = r.delivery /\ q.next_attempt = d
    BY <2>1, <2>2 DEF Record
  <2>. HIDE DEF q
  <2>5. PhaseFits(q) /\ (q.phase # "Confirmed" => q.amount = amount)
    BY <2>1, <2>3, <2>4 DEF RecordSound, PhaseFits
  <2>. QED BY <2>4, <2>5 DEF q
<1>2. Rewrites(t, s, amount) BY <1>0, <1>1 DEF Rewrites
<1>3. Fits(t, amount) BY <1>2, RewrittenFits
<1>. QED BY <1>0, <1>1, <1>3 DEF Keeps, Continues

\* An Acolyte's new inbox is nobody else's, and not that of its referrer.
LEMMA Elsewhere ==
  ASSUME NEW s, NEW amount, NEW a \in KnownAcolytes(s), NEW inbox \in Inbox, Fits(s, amount),
         <<inbox, a>> \in ContactUses, InboxesApart, GrowthParameters
  PROVE  /\ s.records[a].referrer_inbox # inbox
         /\ \A b \in KnownAcolytes(s) \ {a} : s.records[b].inbox # inbox
<1>. DEFINE r == s.records[a]
<1>1. RecordSound(s, a, amount) BY DEF Fits
<1>2. <<r.inbox, a>> \in ContactUses BY <1>1 DEF RecordSound
<1>3. CASE r.inbox = inbox
  <2>1. r.referrer_inbox # inbox BY <1>1, <1>3 DEF RecordSound
  <2>2. \A b \in KnownAcolytes(s) \ {a} : s.records[b].inbox # inbox
    BY <1>3 DEF Fits, OwnInboxes
  <2>. QED BY <2>1, <2>2
<1>4. CASE r.inbox # inbox
  <2>1. ASSUME NEW b, b # a, <<inbox, b>> \in ContactUses PROVE FALSE
    <3>1. <<r.inbox, a>> = <<inbox, a>>
      BY <1>2, <2>1 DEF InboxesApart
    <3>. QED BY <3>1, <1>4
  <2>2. r.referrer_inbox # inbox
    <3>1. CASE r.referrer = None
      BY <1>1, <3>1 DEF RecordSound, GrowthParameters
    <3>2. CASE r.referrer # None
      <4>1. r.referrer # a /\ Reachable(s, r) BY <1>1, <3>2 DEF RecordSound
      <4>2. <<r.referrer_inbox, r.referrer>> \in OperatorUses \cup ContactUses
        BY <4>1 DEF Reachable
      <4>3. SUFFICES ASSUME r.referrer_inbox = inbox PROVE FALSE OBVIOUS
      <4>4. CASE <<r.referrer_inbox, r.referrer>> \in OperatorUses
        BY <4>3, <4>4 DEF InboxesApart
      <4>5. CASE <<r.referrer_inbox, r.referrer>> \in ContactUses
        BY <2>1, <4>1, <4>3, <4>5
      <4>. QED BY <4>2, <4>4, <4>5
    <3>. QED BY <3>1, <3>2
  <2>3. ASSUME NEW b \in KnownAcolytes(s) \ {a} PROVE s.records[b].inbox # inbox
    <3>1. RecordSound(s, b, amount) BY DEF Fits
    <3>2. <<s.records[b].inbox, b>> \in ContactUses BY <3>1 DEF RecordSound
    <3>. QED BY <2>1, <3>2
  <2>. QED BY <2>2, <2>3
<1>. QED BY <1>3, <1>4

\* What a rewritten record has of the old one.
Follows(r, old) ==
  /\ old.referrer # None => r.referrer = old.referrer
  /\ old.phase \notin Unrewarded => r.phase \notin Unrewarded /\ r.amount = old.amount

\* A record that follows its old one continues the snapshot.
LEMMA PutContinues ==
  ASSUME NEW s \in Snapshot, NEW a \in Address, NEW r \in Record, GrowthParameters,
         a \in KnownAcolytes(s) => Follows(r, s.records[a])
  PROVE  Continues(s, Put(s, a, r))
<1>. DEFINE t == Put(s, a, r)
<1>1. Written(t, s, a, r) /\ KnownAcolytes(t) = KnownAcolytes(s) \cup {a} BY PutIs, PutKnown
<1>. HIDE DEF t
<1>2. ASSUME NEW b \in KnownAcolytes(s)
      PROVE /\ b \in KnownAcolytes(t)
            /\ s.records[b].referrer # None => t.records[b].referrer = s.records[b].referrer
            /\ s.records[b].phase \notin Unrewarded =>
                 /\ t.records[b].phase \notin Unrewarded
                 /\ t.records[b].amount = s.records[b].amount
  <2>1. CASE b = a
    BY <1>1, <2>1 DEF Written, Follows
  <2>2. CASE b # a
    <3>1. t.records[b] = s.records[b] BY <1>1, <2>2 DEF Written, KnownAcolytes
    <3>. QED BY <1>1, <3>1
  <2>. QED BY <2>1, <2>2
<1>3. Continues(s, t) BY <1>2 DEF Continues
<1>. QED BY <1>3 DEF t

MovedTo(s, a, inbox) == Put(s, a, [s.records[a] EXCEPT !.inbox = inbox])

\* The Acolyte's inbox changes: mark_contact and note_branding_state.
LEMMA MovedInboxKeeps ==
  ASSUME NEW s, NEW amount, NEW a \in KnownAcolytes(s), NEW inbox \in Inbox, Fits(s, amount),
         <<inbox, a>> \in ContactUses, GrowthParameters
  PROVE  /\ Keeps(MovedTo(s, a, inbox), s, amount)
         /\ KnownAcolytes(MovedTo(s, a, inbox)) = KnownAcolytes(s)
<1>. DEFINE old == s.records[a]
            r == [old EXCEPT !.inbox = inbox]
<1>1. s \in Snapshot /\ a \in Address /\ old \in Record BY KnownRecord DEF Fits
<1>2. /\ r \in Record /\ r.inbox = inbox
      /\ r.referrer = old.referrer /\ r.referrer_inbox = old.referrer_inbox
      /\ r.phase = old.phase /\ r.onboarded = old.onboarded /\ r.amount = old.amount
      /\ r.nonce = old.nonce /\ r.delivery = old.delivery
      /\ r.next_attempt = old.next_attempt
  BY <1>1 DEF Record
<1>. HIDE DEF r
<1>3. RecordSound(s, a, amount) BY DEF Fits
<1>4. RecordSound(Put(s, a, r), a, amount)
  <2>. DEFINE t == Put(s, a, r)
  <2>1. Written(t, s, a, r) /\ KnownAcolytes(t) = KnownAcolytes(s) \cup {a}
    BY <1>1, <1>2, PutIs, PutKnown
  <2>. HIDE DEF t
  <2>2. t.records[a] = r BY <2>1 DEF Written
  <2>3. Reachable(s, old) => Reachable(t, r) BY <1>2, <2>1 DEF Reachable
  <2>4. PhaseFits(r) BY <1>2, <1>3 DEF RecordSound, PhaseFits
  <2>5. InboxesApart => r.referrer_inbox # r.inbox BY <1>2, Elsewhere
  <2>6. RecordSound(t, a, amount)
    BY <1>2, <1>3, <2>2, <2>3, <2>4, <2>5 DEF RecordSound
  <2>. QED BY <2>6 DEF t
<1>5. InboxesApart => \A b \in KnownAcolytes(s) \ {a} : s.records[b].inbox # r.inbox
  BY <1>2, Elsewhere
<1>6. Fits(Put(s, a, r), amount)
  BY <1>1, <1>2, <1>4, <1>5, ContactFits
<1>7. Follows(r, old) BY <1>2 DEF Follows
<1>8. Continues(s, Put(s, a, r)) BY <1>1, <1>2, <1>7, PutContinues
<1>9. KnownAcolytes(Put(s, a, r)) = KnownAcolytes(s)
  <2>1. KnownAcolytes(Put(s, a, r)) = KnownAcolytes(s) \cup {a} BY <1>1, <1>2, PutKnown
  <2>2. KnownAcolytes(s) \cup {a} = KnownAcolytes(s) OBVIOUS
  <2>. QED BY <2>1, <2>2
<1>. QED BY <1>6, <1>8, <1>9 DEF Keeps, MovedTo, r

\* A change of inbox and of the notices that follow it.
LEMMA RedirectedKeeps ==
  ASSUME NEW s, NEW amount, NEW a \in Address, NEW inbox \in Inbox, Fits(s, amount),
         GrowthParameters,
         \/ <<inbox, a>> \in OperatorUses
         \/ a \in KnownAcolytes(s) /\ <<inbox, a>> \in ContactUses
  PROVE  Keeps(Redirected(s, a, inbox), s, amount)
<1>. DEFINE t == Redirected(s, a, inbox)
<1>1. Fits(t, amount) BY RedirectedFits
<1>2. s \in Snapshot BY DEF Fits
<1>3. ASSUME NEW b \in KnownAcolytes(s)
      PROVE /\ b \in KnownAcolytes(t)
            /\ t.records[b].referrer = s.records[b].referrer
            /\ t.records[b].phase = s.records[b].phase
            /\ t.records[b].amount = s.records[b].amount
  <2>1. s.records[b] \in Record BY <1>2, KnownRecord
  <2>2. b \in KnownAcolytes(t) BY <1>2, RedirectedIs
  <2>3. t.records[b] = IF s.records[b].referrer = a /\ s.records[b].inbox # inbox
                       THEN [s.records[b] EXCEPT !.referrer_inbox = inbox]
                       ELSE s.records[b]
    BY <1>2, RedirectedIs
  <2>. HIDE DEF t
  <2>. QED BY <2>1, <2>2, <2>3 DEF Record
<1>. HIDE DEF t
<1>4. Continues(s, t) BY <1>3 DEF Continues
<1>. QED BY <1>1, <1>4 DEF Keeps, t

\* Two changes in a row.
LEMMA KeepsOn ==
  ASSUME NEW s, NEW t, NEW u, NEW amount, Keeps(t, s, amount), Keeps(u, t, amount),
         Fits(s, amount), GrowthParameters
  PROVE  Keeps(u, s, amount)
<1>1. ASSUME NEW a \in KnownAcolytes(s), s.records[a].referrer # None
      PROVE  t.records[a].referrer = s.records[a].referrer
  BY <1>1 DEF Keeps, Continues
<1>. QED BY <1>1, ContinuesOn DEF Keeps

-----------------------------------------------------------------------------
(* The memory after each operation. *)

\* A contact returns on another inbox.
LEMMA MovedContactKeeps ==
  ASSUME NEW a \in KnownAcolytes(state), NEW inbox \in Inbox, Fits(state, reward),
         <<inbox, a>> \in ContactUses, GrowthParameters
  PROVE  Keeps(MovedContact(inbox, a), state, reward)
<1>. DEFINE m == MovedTo(state, a, inbox)
            old == state.records[a]
            t == Redirected(m, a, inbox)
            f == [b \in Address |->
                   IF b = a THEN [state.records[a] EXCEPT !.inbox = inbox]
                   ELSE IF state.records[b] # None /\ state.records[b].referrer = a
                           /\ state.records[b].inbox # inbox
                        THEN [state.records[b] EXCEPT !.referrer_inbox = inbox]
                        ELSE state.records[b]]
            g == [b \in Address |->
                   IF m.records[b] # None /\ m.records[b].referrer = a /\ m.records[b].inbox # inbox
                   THEN [m.records[b] EXCEPT !.referrer_inbox = inbox] ELSE m.records[b]]
            r == [old EXCEPT !.inbox = inbox]
<1>1. state \in Snapshot /\ a \in Address /\ old \in Record BY KnownRecord DEF Fits
<1>2. Keeps(m, state, reward) /\ KnownAcolytes(m) = KnownAcolytes(state) BY MovedInboxKeeps
<1>3. r \in Record /\ r.referrer = old.referrer BY <1>1 DEF Record
<1>4. old.referrer # a
  <2>1. RecordSound(state, a, reward) BY DEF Fits
  <2>. QED BY <2>1, <1>1 DEF RecordSound, GrowthParameters
<1>5. Written(m, state, a, r) BY <1>1, <1>3, PutIs DEF MovedTo
<1>6. m \in Snapshot BY <1>2 DEF Keeps, Fits
<1>7. MovedContact(inbox, a) = [state EXCEPT !.records = f] BY DEF MovedContact
<1>8. t = [m EXCEPT !.records = g] BY DEF Redirected
<1>9. f = g
  <2>. HIDE DEF m, r, old
  <2>1. ASSUME NEW b \in Address PROVE f[b] = g[b]
    <3>1. CASE b = a
      <4>1. m.records[b] = r BY <1>5, <3>1 DEF Written
      <4>2. f[b] = r BY <3>1 DEF r, old
      <4>3. g[b] = m.records[b] BY <1>3, <1>4, <3>1, <4>1
      <4>. QED BY <4>1, <4>2, <4>3
    <3>2. CASE b # a
      <4>1. m.records[b] = state.records[b] BY <1>5, <3>2 DEF Written
      <4>. QED BY <3>2, <4>1
    <3>. QED BY <3>1, <3>2
  <2>. QED BY <2>1
<1>10. t = MovedContact(inbox, a)
  <2>. HIDE DEF f, g, m, t
  <2>. QED BY <1>1, <1>5, <1>6, <1>7, <1>8, <1>9 DEF Snapshot, Written
<1>11. Keeps(t, m, reward)
  BY <1>1, <1>2, RedirectedKeeps DEF Keeps
<1>12. Keeps(t, state, reward) BY <1>2, <1>11, KeepsOn
<1>. QED BY <1>10, <1>12

\* A new contact, at an inbox no other record has.
LEMMA NewContactKeeps ==
  ASSUME NEW a \in Address, NEW inbox \in Inbox, Fits(state, reward), reward \in Reward,
         a \notin KnownAcolytes(state), <<inbox, a>> \in ContactUses,
         ~IdentityConflicts(inbox, a), RoomForRecord(a), GrowthParameters
  PROVE  Keeps(Update(a, NewRecord(inbox, "NewContact")), state, reward)
<1>. DEFINE r == NewRecord(inbox, "NewContact")
            t == Put(state, a, r)
<1>1. state \in Snapshot BY DEF Fits
<1>2. r \in Record BY DEF NewRecord, Record, Phase, Due
<1>3. /\ r.inbox = inbox /\ r.referrer = None /\ r.referrer_inbox = None
      /\ r.phase = "NewContact" /\ r.onboarded = FALSE /\ r.amount = reward
      /\ r.nonce = None /\ r.delivery = None
  BY DEF NewRecord
<1>. HIDE DEF r
<1>4. Written(t, state, a, r) BY <1>1, <1>2, PutIs
<1>5. PhaseFits(r)
  BY <1>3 DEF PhaseFits, Unrewarded, GrowthParameters
<1>6. None # inbox BY DEF GrowthParameters
<1>7. RecordSound(t, a, reward)
  <2>. HIDE DEF t
  <2>. QED BY <1>3, <1>4, <1>5, <1>6 DEF RecordSound, Written
<1>8. \A b \in KnownAcolytes(state) \ {a} : state.records[b].inbox # r.inbox
  BY <1>3 DEF IdentityConflicts
<1>9. Fits(t, reward)
  BY <1>2, <1>7, <1>8, ContactFits DEF RoomForRecord
<1>10. Continues(state, t) BY <1>1, <1>2, PutContinues
<1>11. t = Update(a, r) BY DEF Put, Update
<1>. HIDE DEF t
<1>12. Keeps(t, state, reward) BY <1>9, <1>10 DEF Keeps
<1>13. Keeps(Update(a, r), state, reward) BY <1>11, <1>12
<1>. QED BY <1>13 DEF r

\* The control message pins a referrer that can be reached.
LEMMA VerifiedReaches ==
  ASSUME NEW referrer \in Address, Fits(state, reward), GrowthParameters,
         VerifiedReferrerInbox(referrer) # None
  PROVE  /\ VerifiedReferrerInbox(referrer) \in Inbox
         /\ \/ <<VerifiedReferrerInbox(referrer), referrer>> \in OperatorUses
            \/ /\ referrer \in KnownAcolytes(state)
               /\ <<VerifiedReferrerInbox(referrer), referrer>> \in ContactUses
<1>1. state \in Snapshot BY DEF Fits
<1>2. CASE referrer \in KnownAcolytes(state) /\ state.records[referrer].onboarded
  <2>1. RecordSound(state, referrer, reward) BY <1>2 DEF Fits
  <2>2. state.records[referrer] \in Record BY <1>1, <1>2, KnownRecord
  <2>. QED BY <1>2, <2>1, <2>2 DEF VerifiedReferrerInbox, RecordSound, Record
<1>3. CASE ~(referrer \in KnownAcolytes(state) /\ state.records[referrer].onboarded)
  <2>1. VerifiedReferrerInbox(referrer) = state.operators[referrer]
    BY <1>3 DEF VerifiedReferrerInbox
  <2>2. OperatorsSound(state) BY DEF Fits
  <2>3. state.operators[referrer] \in Inbox \cup {None} BY <1>1 DEF Snapshot
  <2>. QED BY <2>1, <2>2, <2>3 DEF OperatorsSound
<1>. QED BY <1>2, <1>3

Pinned(r, inbox, referrer) ==
  [r EXCEPT !.inbox = inbox, !.referrer = referrer,
            !.referrer_inbox = VerifiedReferrerInbox(referrer), !.phase = "Attributed"]

\* Attribution keeps the snapshot sound and pins the referrer.
LEMMA PinnedKeeps ==
  ASSUME NEW a \in Address, NEW inbox \in Inbox, NEW referrer \in Address, NEW r \in Record,
         Fits(state, reward), reward \in Reward, GrowthParameters,
         <<inbox, a>> \in ContactUses, ~IdentityConflicts(inbox, a), RoomForRecord(a),
         minter \notin {a, referrer}, a # referrer, Attributable(a),
         VerifiedReferrerInbox(referrer) \notin {None, inbox},
         r = IF a \in KnownAcolytes(state) THEN state.records[a] ELSE NewRecord(inbox, "Attributed")
  PROVE  /\ Keeps(Update(a, Pinned(r, inbox, referrer)), state, reward)
         /\ a \in KnownAcolytes(Update(a, Pinned(r, inbox, referrer)))
         /\ Update(a, Pinned(r, inbox, referrer)).records[a].referrer = referrer
<1>. DEFINE p == Pinned(r, inbox, referrer)
            t == Put(state, a, p)
            at == VerifiedReferrerInbox(referrer)
<1>1. state \in Snapshot BY DEF Fits
<1>2. at \in Inbox /\ at # inbox /\ at # None BY VerifiedReaches
<1>3. /\ p \in Record /\ p.inbox = inbox /\ p.referrer = referrer /\ p.referrer_inbox = at
      /\ p.phase = "Attributed" /\ p.onboarded = r.onboarded /\ p.amount = r.amount
      /\ p.nonce = r.nonce /\ p.delivery = r.delivery
  <2>. HIDE DEF at
  <2>1. p = [r EXCEPT !.inbox = inbox, !.referrer = referrer, !.referrer_inbox = at,
                      !.phase = "Attributed"] BY DEF Pinned, at
  <2>. HIDE DEF p
  <2>. QED BY <2>1, <1>2 DEF Record, Phase
<1>4. /\ ~r.onboarded /\ r.amount = reward /\ r.nonce = None /\ r.delivery = None
  <2>1. CASE a \in KnownAcolytes(state)
    <3>1. RecordSound(state, a, reward) BY <2>1 DEF Fits
    <3>2. ~r.onboarded /\ r = state.records[a] BY <2>1 DEF Attributable
    <3>3. r.phase \in {"NewContact", "Attributed"} BY <3>1, <3>2 DEF RecordSound, PhaseFits, Record
    <3>. QED BY <3>1, <3>2, <3>3 DEF RecordSound, PhaseFits, Record, Unrewarded
  <2>2. CASE a \notin KnownAcolytes(state)
    BY <2>2 DEF NewRecord
  <2>. QED BY <2>1, <2>2
<1>. HIDE DEF p
<1>5. Written(t, state, a, p) /\ KnownAcolytes(t) = KnownAcolytes(state) \cup {a}
  BY <1>1, <1>3, PutIs, PutKnown
<1>6. PhaseFits(p)
  BY <1>3, <1>4 DEF PhaseFits, Unrewarded, GrowthParameters, Record
<1>7. RecordSound(t, a, reward)
  <2>1. Reachable(t, p)
    <3>1. \/ <<at, referrer>> \in OperatorUses
          \/ referrer \in KnownAcolytes(state) /\ <<at, referrer>> \in ContactUses
      BY <1>2, VerifiedReaches
    <3>. HIDE DEF at, t
    <3>. QED BY <1>3, <1>5, <3>1 DEF Reachable
  <2>2. referrer # None BY DEF GrowthParameters
  <2>. HIDE DEF t, at
  <2>. QED BY <1>2, <1>3, <1>4, <1>5, <1>6, <2>1, <2>2 DEF RecordSound, Written
<1>8. \A b \in KnownAcolytes(state) \ {a} : state.records[b].inbox # p.inbox
  BY <1>3 DEF IdentityConflicts
<1>9. Fits(t, reward)
  BY <1>3, <1>7, <1>8, ContactFits DEF RoomForRecord
<1>10. ASSUME a \in KnownAcolytes(state) PROVE Follows(p, state.records[a])
  <2>1. RecordSound(state, a, reward) BY <1>10 DEF Fits
  <2>2. state.records[a].referrer = None /\ ~state.records[a].onboarded
    BY <1>10 DEF Attributable
  <2>3. state.records[a] \in Record BY <1>1, <1>10, KnownRecord
  <2>4. state.records[a].phase \in Unrewarded
    BY <2>1, <2>2, <2>3 DEF RecordSound, PhaseFits, Unrewarded
  <2>. QED BY <2>2, <2>4 DEF Follows
<1>11. Continues(state, t) BY <1>1, <1>3, <1>10, PutContinues
<1>12. t = Update(a, p) BY DEF Put, Update
<1>. HIDE DEF t
<1>13. /\ Keeps(Update(a, p), state, reward)
       /\ a \in KnownAcolytes(Update(a, p)) /\ Update(a, p).records[a].referrer = referrer
  BY <1>3, <1>5, <1>9, <1>11, <1>12 DEF Keeps, Written
<1>. QED BY <1>13 DEF p

\* The onboarding ends at an inbox of the contact's own, and may prepare a bounty.
Onboarded(r, inbox) ==
  [r EXCEPT !.inbox = inbox, !.onboarded = TRUE,
            !.phase = IF r.referrer = None THEN "Direct" ELSE "OnboardingComplete",
            !.next_attempt = IF r.referrer = None THEN "never" ELSE "now"]

\* The terminal event of the onboarding keeps the snapshot sound.
LEMMA OnboardedKeeps ==
  ASSUME NEW a \in Address, NEW inbox \in Inbox, NEW r \in Record,
         Fits(state, reward), reward \in Reward, GrowthParameters,
         <<inbox, a>> \in ContactUses, ~IdentityConflicts(inbox, a), RoomForRecord(a),
         a \in KnownAcolytes(state) => ~state.records[a].onboarded,
         r = IF a \in KnownAcolytes(state) THEN state.records[a] ELSE NewRecord(inbox, "Direct")
  PROVE  /\ Onboarded(r, inbox) \in Record
         /\ Keeps(Update(a, Onboarded(r, inbox)), state, reward)
<1>. DEFINE p == Onboarded(r, inbox)
            t == Put(state, a, p)
<1>1. state \in Snapshot BY DEF Fits
<1>2. /\ p \in Record /\ p.inbox = inbox /\ p.referrer = r.referrer
      /\ p.referrer_inbox = r.referrer_inbox /\ p.onboarded = TRUE
      /\ p.phase = (IF r.referrer = None THEN "Direct" ELSE "OnboardingComplete")
      /\ p.next_attempt = (IF r.referrer = None THEN "never" ELSE "now")
      /\ p.amount = r.amount /\ p.nonce = r.nonce /\ p.delivery = r.delivery
  <2>. DEFINE ph == IF r.referrer = None THEN "Direct" ELSE "OnboardingComplete"
              at == IF r.referrer = None THEN "never" ELSE "now"
  <2>1. ph \in Phase /\ at \in Due BY DEF Phase, Due
  <2>2. p = [r EXCEPT !.inbox = inbox, !.onboarded = TRUE, !.phase = ph, !.next_attempt = at]
    BY DEF Onboarded
  <2>. HIDE DEF p, ph, at
  <2>3. /\ p \in Record /\ p.inbox = inbox /\ p.referrer = r.referrer
        /\ p.referrer_inbox = r.referrer_inbox /\ p.onboarded = TRUE
        /\ p.phase = ph /\ p.next_attempt = at
        /\ p.amount = r.amount /\ p.nonce = r.nonce /\ p.delivery = r.delivery
    BY <2>1, <2>2 DEF Record
  <2>. QED BY <2>3 DEF ph, at
<1>. HIDE DEF p
<1>3. /\ r.amount = reward /\ r.nonce = None /\ r.delivery = None
      /\ r.referrer # None => minter \notin {a, r.referrer} /\ r.referrer # a /\ Reachable(state, r)
      /\ (r.referrer = None) = (r.referrer_inbox = None)
      /\ InboxesApart => r.referrer_inbox # inbox
      /\ a \in KnownAcolytes(state) => r.phase \in Unrewarded
  <2>1. CASE a \in KnownAcolytes(state)
    <3>1. RecordSound(state, a, reward) BY <2>1 DEF Fits
    <3>2. ~r.onboarded /\ r = state.records[a] BY <2>1
    <3>3. r.phase \in {"NewContact", "Attributed"} BY <3>1, <3>2 DEF RecordSound, PhaseFits, Record
    <3>4. InboxesApart => r.referrer_inbox # inbox BY <2>1, <3>2, Elsewhere
    <3>. QED BY <3>1, <3>2, <3>3, <3>4 DEF RecordSound, PhaseFits, Record, Unrewarded
  <2>2. CASE a \notin KnownAcolytes(state)
    <3>1. None # inbox BY DEF GrowthParameters
    <3>. QED BY <2>2, <3>1 DEF NewRecord
  <2>. QED BY <2>1, <2>2
<1>5. Written(t, state, a, p) /\ KnownAcolytes(t) = KnownAcolytes(state) \cup {a}
  BY <1>1, <1>2, PutIs, PutKnown
<1>6. PhaseFits(p)
  <2>1. CASE r.referrer = None
    BY <1>2, <1>3, <2>1 DEF PhaseFits, Unrewarded, GrowthParameters
  <2>2. CASE r.referrer # None
    <3>1. /\ p.phase = "OnboardingComplete" /\ p.next_attempt = "now" /\ p.referrer # None
          /\ p.onboarded = TRUE /\ p.nonce = None /\ p.delivery = None
      BY <1>2, <1>3, <2>2
    <3>2. None \notin {"funding", "confirmed"} BY DEF GrowthParameters
    <3>3. (p.phase \in {"NewContact", "Direct"}) = (p.referrer = None) BY <3>1
    <3>4. p.onboarded = (p.phase \notin {"NewContact", "Attributed"}) BY <3>1
    <3>5. p.phase \in {"Submitted", "Confirmed"} => p.nonce # None BY <3>1
    <3>6. p.phase = "OnboardingComplete" => p.next_attempt # "never" BY <3>1
    <3>7. /\ p.delivery = "funding" => p.phase = "RewardPending"
          /\ p.delivery = "confirmed" => p.phase = "Confirmed"
      BY <3>1, <3>2
    <3>. QED BY <3>1, <3>3, <3>4, <3>5, <3>6, <3>7 DEF PhaseFits
  <2>. QED BY <2>1, <2>2
<1>7. RecordSound(t, a, reward)
  <2>1. Reachable(state, r) => Reachable(t, p)
    <3>. HIDE DEF t
    <3>. QED BY <1>2, <1>5 DEF Reachable
  <2>. HIDE DEF t
  <2>. QED BY <1>2, <1>3, <1>5, <1>6, <2>1 DEF RecordSound, Written
<1>8. \A b \in KnownAcolytes(state) \ {a} : state.records[b].inbox # p.inbox
  BY <1>2 DEF IdentityConflicts
<1>9. Fits(t, reward)
  BY <1>2, <1>7, <1>8, ContactFits DEF RoomForRecord
<1>10. ASSUME a \in KnownAcolytes(state) PROVE Follows(p, state.records[a])
  BY <1>2, <1>3, <1>10 DEF Follows
<1>11. Continues(state, t) BY <1>1, <1>2, <1>10, PutContinues
<1>12. t = Update(a, p) BY DEF Put, Update
<1>. HIDE DEF t
<1>13. p \in Record /\ Keeps(Update(a, p), state, reward)
  BY <1>2, <1>9, <1>11, <1>12 DEF Keeps
<1>. QED BY <1>13 DEF p

\* The prompt of the operator is due.
LEMMA PromptedKeeps ==
  ASSUME NEW s, NEW amount, Fits(s, amount), NEW p \in {"idle", "due", "pending"}
  PROVE  Keeps([s EXCEPT !.prompt = p], s, amount)
<1>1. s \in Snapshot BY DEF Fits
<1>. DEFINE t == [s EXCEPT !.prompt = p]
<1>2. /\ t \in Snapshot /\ t.records = s.records /\ t.operators = s.operators
      /\ t.operator = s.operator
  BY <1>1 DEF Snapshot
<1>. HIDE DEF t
<1>3. Keeps(t, s, amount) BY <1>2, SameRecords
<1>. QED BY <1>3 DEF t

\* The bounty of a completed onboarding is prepared.
LEMMA PreparedKeeps ==
  ASSUME NEW s, NEW amount, NEW a \in KnownAcolytes(s), Fits(s, amount), GrowthParameters,
         s.records[a].phase = "OnboardingComplete"
  PROVE  Keeps([s EXCEPT !.records[a].phase = "RewardPending"], s, amount)
<1>. DEFINE r == [s.records[a] EXCEPT !.phase = "RewardPending"]
            old == s.records[a]
<1>1. s \in Snapshot /\ a \in Address /\ old \in Record BY KnownRecord DEF Fits
<1>2. /\ r \in Record /\ r.inbox = old.inbox /\ r.referrer = old.referrer
      /\ r.referrer_inbox = old.referrer_inbox /\ r.onboarded = old.onboarded
      /\ r.phase = "RewardPending" /\ r.amount = old.amount /\ r.nonce = old.nonce
      /\ r.delivery = old.delivery
  BY <1>1 DEF Record, Phase
<1>. HIDE DEF r
<1>3. RecordSound(s, a, amount) BY DEF Fits
<1>4. PhaseFits(r) BY <1>2, <1>3 DEF RecordSound, PhaseFits, Unrewarded
<1>5. r.phase \notin Unrewarded BY <1>2 DEF Unrewarded
<1>6. Keeps(Put(s, a, r), s, amount) BY <1>2, <1>4, <1>5, RewriteOne
<1>7. [s EXCEPT !.records[a].phase = "RewardPending"] = Put(s, a, r)
  BY <1>1 DEF Snapshot, Put, r
<1>. QED BY <1>6, <1>7

\* Another operator takes over.
LEMMA OperatorsChange ==
  ASSUME NEW s, NEW t \in Snapshot, NEW amount, Fits(s, amount), t.records = s.records,
         OperatorsSound(t)
  PROVE  Keeps(t, s, amount)
<1>1. KnownAcolytes(t) = KnownAcolytes(s) BY DEF KnownAcolytes
<1>2. ASSUME NEW a \in KnownAcolytes(t) PROVE RecordSound(t, a, amount)
  <2>1. RecordSound(s, a, amount) BY <1>1 DEF Fits
  <2>2. Reachable(s, s.records[a]) => Reachable(t, t.records[a]) BY <1>1 DEF Reachable
  <2>. QED BY <2>1, <2>2 DEF RecordSound
<1>3. OwnInboxes(t) BY <1>1 DEF Fits, OwnInboxes
<1>4. Fits(t, amount) BY <1>1, <1>2, <1>3 DEF Fits
<1>. QED BY <1>1, <1>4 DEF Keeps, Continues

RebindingTo(s, inbox, a) ==
  [b \in Address |-> IF b = a THEN inbox ELSE IF s.operators[b] = inbox THEN None ELSE s.operators[b]]

\* An operator that takes over an inbox takes it from its earlier owner.
LEMMA RebindingSound ==
  ASSUME NEW s \in Snapshot, NEW t, NEW amount, NEW a \in Address, NEW inbox \in Inbox,
         OperatorsSound(s), <<inbox, a>> \in OperatorUses, a # minter, GrowthParameters,
         t.operators = RebindingTo(s, inbox, a), t.operator = <<inbox, a>>
  PROVE  OperatorsSound(t)
<1>. DEFINE at == t.operators
<1>1. \A b \in Address :
        at[b] = IF b = a THEN inbox ELSE IF s.operators[b] = inbox THEN None ELSE s.operators[b]
  BY DEF RebindingTo
<1>2. inbox # None /\ minter \in Address BY DEF GrowthParameters
<1>3. t.operator[2] = a /\ t.operator[1] = inbox OBVIOUS
<1>. HIDE DEF at
<1>4. at[a] = inbox BY <1>1
<1>5. at[minter] = None BY <1>1, <1>2 DEF OperatorsSound
<1>6. ASSUME NEW b \in Address, NEW c \in Address, at[b] # None, at[b] = at[c] PROVE b = c
  BY <1>1, <1>2, <1>6 DEF OperatorsSound
<1>7. ASSUME NEW b \in Address, at[b] # None PROVE <<at[b], b>> \in OperatorUses
  BY <1>1, <1>7 DEF OperatorsSound
<1>. QED BY <1>3, <1>4, <1>5, <1>6, <1>7 DEF OperatorsSound, at

\* register_operator keeps the snapshot sound.
LEMMA RegisteredKeeps ==
  ASSUME NEW a \in Address, NEW inbox \in Inbox, Fits(state, reward), GrowthParameters,
         <<inbox, a>> \in OperatorUses, a # minter
  PROVE  Keeps([state EXCEPT
          !.operators = [b \in Address |-> IF b = a THEN inbox
                                           ELSE IF @[b] = inbox THEN None ELSE @[b]],
          !.operator = <<inbox, a>>,
          !.prompt = IF @ = "pending" THEN "due" ELSE @,
          !.records = [b \in Address |->
             IF @[b] # None /\ @[b].referrer = a /\ @[b].inbox # inbox
             THEN [@[b] EXCEPT !.referrer_inbox = inbox] ELSE @[b]]], state, reward)
<1>. DEFINE o == RebindingTo(state, inbox, a)
            p == IF state.prompt = "pending" THEN "due" ELSE state.prompt
            m == Redirected(state, a, inbox)
            f == [b \in Address |->
                   IF state.records[b] # None /\ state.records[b].referrer = a
                      /\ state.records[b].inbox # inbox
                   THEN [state.records[b] EXCEPT !.referrer_inbox = inbox]
                   ELSE state.records[b]]
            t == [state EXCEPT !.operators = o, !.operator = <<inbox, a>>, !.prompt = p,
                               !.records = f]
<1>1. state \in Snapshot /\ OperatorsSound(state) BY DEF Fits
<1>2. Keeps(m, state, reward) BY RedirectedKeeps
<1>3. m \in Snapshot BY <1>2 DEF Keeps, Fits
<1>4. m = [state EXCEPT !.records = f] BY DEF Redirected
<1>5. o \in [Address -> Inbox \cup {None}]
  <2>1. state.operators \in [Address -> Inbox \cup {None}] BY <1>1 DEF Snapshot
  <2>. QED BY <2>1 DEF RebindingTo
<1>6. p \in {"idle", "due", "pending"} BY <1>1 DEF Snapshot
<1>7. /\ t \in Snapshot /\ t.records = m.records
      /\ t.operators = o /\ t.operator = <<inbox, a>>
  <2>. HIDE DEF f, m, o, p
  <2>1. f = m.records /\ f \in [Address -> Record \cup {None}]
    BY <1>1, <1>3, <1>4 DEF Snapshot
  <2>2. <<inbox, a>> \in Inbox \X Address OBVIOUS
  <2>. QED BY <1>1, <1>5, <1>6, <2>1, <2>2 DEF Snapshot
<1>. HIDE DEF t, m, f
<1>8. OperatorsSound(t) BY <1>1, <1>7, RebindingSound
<1>9. Keeps(t, m, reward) BY <1>2, <1>7, <1>8, OperatorsChange DEF Keeps
<1>10. Keeps(t, state, reward) BY <1>2, <1>9, KeepsOn
<1>. QED BY <1>10 DEF t, f, RebindingTo

\* The reminder preferences concern no record.
LEMMA RemindersKeep ==
  ASSUME NEW allowed \in BOOLEAN, Fits(state, reward)
  PROVE  Keeps([state EXCEPT !.reminders = allowed,
                             !.prompt = IF @ = "pending" THEN "due" ELSE @], state, reward)
<1>. DEFINE p == IF state.prompt = "pending" THEN "due" ELSE state.prompt
            t == [state EXCEPT !.reminders = allowed, !.prompt = p]
<1>1. state \in Snapshot BY DEF Fits
<1>2. p \in {"idle", "due", "pending"} BY <1>1 DEF Snapshot
<1>3. /\ t \in Snapshot /\ t.records = state.records /\ t.operators = state.operators
      /\ t.operator = state.operator
  <2>. HIDE DEF p
  <2>. QED BY <1>1, <1>2 DEF Snapshot
<1>. HIDE DEF t
<1>4. Keeps(t, state, reward) BY <1>3, SameRecords
<1>. QED BY <1>4 DEF t

\* What rewriting the times of a record does to it.
LEMMA SameRecord ==
  ASSUME NEW r \in Record
  PROVE  /\ r = [r EXCEPT !.noticed = r.noticed, !.next_attempt = r.next_attempt]
         /\ r.noticed \in BOOLEAN /\ r.next_attempt \in Due
         /\ \A d \in Due : /\ [r EXCEPT !.next_attempt = d] \in Record
                           /\ [r EXCEPT !.next_attempt = d]
                                = [r EXCEPT !.noticed = r.noticed, !.next_attempt = d]
         /\ \A n \in BOOLEAN, d \in Due :
              [r EXCEPT !.noticed = n, !.next_attempt = d] \in Record
  BY DEF Record

\* defer_due keeps the snapshot sound.
LEMMA DeferredKeeps ==
  ASSUME Fits(state, reward), GrowthParameters
  PROVE  Keeps([state EXCEPT !.records =
                [a \in Address |-> IF a \in DueRewards
                                   THEN [@[a] EXCEPT !.next_attempt = "later"] ELSE @[a]]],
               state, reward)
<1>. DEFINE New(a) == IF a \in DueRewards THEN [state.records[a] EXCEPT !.next_attempt = "later"]
                      ELSE state.records[a]
            f == [a \in Address |-> New(a)]
            t == [state EXCEPT !.records = f]
<1>1. state \in Snapshot BY DEF Fits
<1>2. ASSUME NEW a \in Address
      PROVE  New(a) \in Record \cup {None} /\ (New(a) = None) = (state.records[a] = None)
  <2>1. state.records[a] \in Record \cup {None} BY <1>1 DEF Snapshot
  <2>2. a \in DueRewards => state.records[a] \in Record
    BY <2>1 DEF DueRewards, KnownAcolytes
  <2>3. "later" \in Due BY DEF Due
  <2>4. a \in DueRewards => New(a) \in Record BY <2>2, <2>3, SameRecord
  <2>5. None \notin Record BY DEF GrowthParameters
  <2>. QED BY <2>1, <2>2, <2>4, <2>5
<1>3. ASSUME NEW a \in KnownAcolytes(state)
      PROVE  \E n \in BOOLEAN, d \in Due :
               /\ New(a) = [state.records[a] EXCEPT !.noticed = n, !.next_attempt = d]
               /\ d = "never" => state.records[a].next_attempt = "never"
  <2>1. state.records[a] \in Record BY <1>1, KnownRecord
  <2>. DEFINE r == state.records[a]
  <2>2. CASE a \in DueRewards
    <3>1. "later" \in Due BY DEF Due
    <3>2. New(a) = [r EXCEPT !.noticed = r.noticed, !.next_attempt = "later"]
      BY <2>1, <2>2, <3>1, SameRecord
    <3>3. r.noticed \in BOOLEAN BY <2>1, SameRecord
    <3>. HIDE DEF New
    <3>. QED BY <3>1, <3>2, <3>3
  <2>3. CASE a \notin DueRewards
    <3>1. New(a) = [r EXCEPT !.noticed = r.noticed, !.next_attempt = r.next_attempt]
      BY <2>1, <2>3, SameRecord
    <3>2. r.noticed \in BOOLEAN /\ r.next_attempt \in Due BY <2>1, SameRecord
    <3>. HIDE DEF New
    <3>. QED BY <3>1, <3>2
  <2>. QED BY <2>2, <2>3
<1>. HIDE DEF New
<1>4. t \in Snapshot /\ t.operators = state.operators /\ t.operator = state.operator
  BY <1>1, <1>2 DEF Snapshot
<1>5. \A a \in Address : t.records[a] = New(a) BY <1>1 DEF Snapshot
<1>. HIDE DEF t
<1>6. KnownAcolytes(t) = KnownAcolytes(state) BY <1>2, <1>5 DEF KnownAcolytes
<1>7. Retimed(t, state)
  <2>1. \A a \in KnownAcolytes(state) : t.records[a] = New(a) BY <1>5 DEF KnownAcolytes
  <2>. QED BY <1>3, <1>4, <1>6, <2>1 DEF Retimed
<1>8. Keeps(t, state, reward) BY <1>4, <1>7, RetimedFits
<1>. QED BY <1>8 DEF t, New

\* The passage of time keeps the snapshot sound.
LEMMA AgedKeeps ==
  ASSUME NEW s, NEW amount, Fits(s, amount), GrowthParameters
  PROVE  Keeps(Aged(s), s, amount)
<1>. DEFINE at(a) == IF s.records[a].next_attempt = "later" THEN "now"
                     ELSE s.records[a].next_attempt
            New(a) == IF s.records[a] = None THEN None
                      ELSE [s.records[a] EXCEPT !.noticed = FALSE, !.next_attempt = at(a)]
            f == [a \in Address |-> New(a)]
            p == IF s.prompt = "idle" THEN "due" ELSE s.prompt
            t == [s EXCEPT !.prompt = p, !.records = f]
<1>1. s \in Snapshot BY DEF Fits
<1>2. p \in {"idle", "due", "pending"} BY <1>1 DEF Snapshot
<1>3. ASSUME NEW a \in KnownAcolytes(s)
      PROVE  /\ s.records[a] \in Record /\ s.records[a] # None
             /\ at(a) \in Due
             /\ at(a) = "never" => s.records[a].next_attempt = "never"
  <2>1. s.records[a] \in Record BY <1>1, KnownRecord
  <2>2. s.records[a].next_attempt \in Due BY <2>1 DEF Record
  <2>. QED BY <2>1, <2>2 DEF Due, KnownAcolytes
<1>4. t = Aged(s) BY DEF Aged, AgedRecord
<1>. HIDE DEF at
<1>5. ASSUME NEW a \in Address
      PROVE  New(a) \in Record \cup {None} /\ (New(a) = None) = (s.records[a] = None)
  <2>1. CASE s.records[a] = None BY <2>1
  <2>2. CASE s.records[a] # None
    <3>1. a \in KnownAcolytes(s) BY <2>2 DEF KnownAcolytes
    <3>2. New(a) \in Record BY <1>3, <2>2, <3>1, SameRecord
    <3>3. None \notin Record BY DEF GrowthParameters
    <3>. HIDE DEF New
    <3>. QED BY <2>2, <3>2, <3>3
  <2>. QED BY <2>1, <2>2
<1>6. ASSUME NEW a \in KnownAcolytes(s)
      PROVE  \E n \in BOOLEAN, d \in Due :
               /\ New(a) = [s.records[a] EXCEPT !.noticed = n, !.next_attempt = d]
               /\ d = "never" => s.records[a].next_attempt = "never"
  <2>1. New(a) = [s.records[a] EXCEPT !.noticed = FALSE, !.next_attempt = at(a)]
    BY <1>3
  <2>. HIDE DEF New
  <2>. QED BY <1>3, <2>1
<1>. HIDE DEF New, p
<1>7. t \in Snapshot /\ t.operators = s.operators /\ t.operator = s.operator
  BY <1>1, <1>2, <1>5 DEF Snapshot
<1>8. \A a \in Address : t.records[a] = New(a) BY <1>1 DEF Snapshot
<1>. HIDE DEF t
<1>9. KnownAcolytes(t) = KnownAcolytes(s) BY <1>5, <1>8 DEF KnownAcolytes
<1>10. Retimed(t, s)
  <2>1. \A a \in KnownAcolytes(s) : t.records[a] = New(a) BY <1>8 DEF KnownAcolytes
  <2>. QED BY <1>6, <1>7, <1>9, <2>1 DEF Retimed
<1>11. Keeps(t, s, amount) BY <1>7, <1>10, RetimedFits
<1>. QED BY <1>4, <1>11
-----------------------------------------------------------------------------
(* The signer's journal and the transactions in the order of their nonces. *)

Transfer == [acolyte: Address, referrer: Address, amount: Reward]

\* Every transaction is the one its Acolyte's journal reserved the nonce for, so an
\* Acolyte has one at most; only the last may wait for its block, and it belongs to
\* the action that holds the nonce.
ChainSound(j, h, p, m) ==
  /\ j \in [Address -> Entry \cup {None}]
  /\ h \in Address \cup {None}
  /\ p \in Seq(Transfer)
  /\ m \in Nat /\ m <= Len(p) /\ Len(p) <= m + 1
  /\ Len(p) = m + 1 => h # None /\ p[m + 1].acolyte = h
  /\ \A a \in Address : j[a] # None =>
       /\ j[a].nonce <= Len(p)
       /\ j[a].hash => j[a].nonce < Len(p) /\ p[j[a].nonce + 1].acolyte = a
  /\ \A n \in DOMAIN p :
       /\ j[p[n].acolyte] # None
       /\ j[p[n].acolyte].nonce + 1 = n
       /\ j[p[n].acolyte].referrer = p[n].referrer
       /\ j[p[n].acolyte].amount = p[n].amount

\* What a journal entry must say of the transactions.
Journals(e, p, a) ==
  /\ e.nonce <= Len(p)
  /\ e.hash => e.nonce < Len(p) /\ p[e.nonce + 1].acolyte = a
  /\ \A n \in DOMAIN p : p[n].acolyte = a =>
       e.nonce + 1 = n /\ e.referrer = p[n].referrer /\ e.amount = p[n].amount

\* The signer writes an Acolyte's entry before or after the transaction it is for.
LEMMA ChainWrites ==
  ASSUME NEW j, NEW h, NEW p, NEW m, ChainSound(j, h, p, m), NEW a \in Address, NEW e \in Entry,
         Journals(e, p, a), GrowthParameters,
         NEW k \in Address \cup {None}, Len(p) = m + 1 => k = h
  PROVE  ChainSound([j EXCEPT ![a] = e], k, p, m)
<1>. DEFINE w == [j EXCEPT ![a] = e]
<1>1. /\ w \in [Address -> Entry \cup {None}]
      /\ w[a] = e
      /\ \A b \in Address \ {a} : w[b] = j[b]
  BY DEF ChainSound
<1>2. e # None BY DEF GrowthParameters
<1>3. p \in Seq(Transfer) /\ m \in Nat /\ m <= Len(p) /\ Len(p) <= m + 1
  BY DEF ChainSound
<1>4. Len(p) = m + 1 => k # None /\ p[m + 1].acolyte = k BY DEF ChainSound
<1>. HIDE DEF w
<1>5. ASSUME NEW b \in Address, w[b] # None
      PROVE  /\ w[b].nonce <= Len(p)
             /\ w[b].hash => w[b].nonce < Len(p) /\ p[w[b].nonce + 1].acolyte = b
  <2>1. CASE b = a BY <1>1, <2>1 DEF Journals
  <2>2. CASE b # a
    <3>1. w[b] = j[b] BY <1>1, <2>2
    <3>. QED BY <1>5, <3>1 DEF ChainSound
  <2>. QED BY <2>1, <2>2
<1>6. ASSUME NEW n \in DOMAIN p
      PROVE  /\ w[p[n].acolyte] # None
             /\ w[p[n].acolyte].nonce + 1 = n
             /\ w[p[n].acolyte].referrer = p[n].referrer
             /\ w[p[n].acolyte].amount = p[n].amount
  <2>1. CASE p[n].acolyte = a BY <1>1, <1>2, <2>1 DEF Journals
  <2>2. CASE p[n].acolyte # a
    <3>1. p[n] \in Transfer BY <1>3
    <3>2. p[n].acolyte \in Address BY <3>1 DEF Transfer
    <3>3. w[p[n].acolyte] = j[p[n].acolyte] BY <1>1, <2>2, <3>2
    <3>. QED BY <3>3 DEF ChainSound
  <2>. QED BY <2>1, <2>2
<1>7. ChainSound(w, k, p, m) BY <1>1, <1>3, <1>4, <1>5, <1>6 DEF ChainSound
<1>. QED BY <1>7 DEF w

\* The signer broadcasts the transaction its last entry is for.
LEMMA ChainSends ==
  ASSUME NEW j, NEW a \in Address, NEW p, NEW m, ChainSound(j, a, p, m), NEW x \in Transfer,
         Len(p) = m, x.acolyte = a, j[a] # None, j[a].nonce = m, j[a].referrer = x.referrer,
         j[a].amount = x.amount, ~j[a].hash, GrowthParameters
  PROVE  ChainSound(j, a, Append(p, x), m)
<1>. DEFINE q == Append(p, x)
<1>1. /\ j \in [Address -> Entry \cup {None}] /\ p \in Seq(Transfer) /\ m \in Nat
  BY DEF ChainSound
<1>2. q \in Seq(Transfer) /\ Len(q) = m + 1 /\ q[m + 1] = x
      /\ DOMAIN q = 1 .. (m + 1) /\ DOMAIN p = 1 .. m
      /\ \A n \in 1 .. m : q[n] = p[n]
  BY <1>1
<1>. HIDE DEF q
<1>3. a # None BY DEF GrowthParameters
<1>4. ASSUME NEW b \in Address, j[b] # None
      PROVE  /\ j[b].nonce <= Len(q)
             /\ j[b].hash => j[b].nonce < Len(q) /\ q[j[b].nonce + 1].acolyte = b
  <2>1. j[b].nonce \in Nat BY <1>1, <1>4 DEF Entry
  <2>2. j[b].nonce <= m /\ (j[b].hash => j[b].nonce < m /\ p[j[b].nonce + 1].acolyte = b)
    BY <1>4 DEF ChainSound
  <2>3. j[b].hash => q[j[b].nonce + 1] = p[j[b].nonce + 1]
    BY <1>1, <1>2, <2>1, <2>2
  <2>. QED BY <1>1, <1>2, <2>1, <2>2, <2>3
<1>5. ASSUME NEW n \in DOMAIN q
      PROVE  /\ j[q[n].acolyte] # None
             /\ j[q[n].acolyte].nonce + 1 = n
             /\ j[q[n].acolyte].referrer = q[n].referrer
             /\ j[q[n].acolyte].amount = q[n].amount
  <2>1. CASE n = m + 1 BY <1>2, <2>1
  <2>2. CASE n # m + 1
    <3>1. n \in DOMAIN p /\ q[n] = p[n] BY <1>1, <1>2, <2>2
    <3>. QED BY <3>1 DEF ChainSound
  <2>. QED BY <2>1, <2>2
<1>6. ChainSound(j, a, q, m) BY <1>1, <1>2, <1>3, <1>4, <1>5 DEF ChainSound
<1>. QED BY <1>6 DEF q

\* Every point at which a payment may be interrupted leaves the journal sound.
LEMMA PaidSound ==
  ASSUME NEW a \in Address, NEW r \in Record, r.referrer # None, GrowthParameters,
         ChainSound(journal, allocated, payments, mined), ~Conflicts(a, r),
         journal[a] # None => ~journal[a].hash /\ ~(mined > journal[a].nonce),
         ~SignerBusy(a), NEW o \in Paid(a, r)
  PROVE  /\ ChainSound(o.journal, o.allocated, o.payments, mined)
         /\ o.answer \in {"error", "submitted"}
         /\ o.answer = "submitted" => o.journal[a] \in Entry
         /\ \A b \in Address \ {a} : o.journal[b] = journal[b]
         /\ \/ o.journal = journal
            \/ o.journal[a].referrer = r.referrer /\ o.journal[a].amount = r.amount
<1>. DEFINE n == IF journal[a] = None THEN mined ELSE journal[a].nonce
            e == [referrer |-> r.referrer, amount |-> r.amount, nonce |-> n, hash |-> FALSE]
            w == [journal EXCEPT ![a] = e]
            x == TransferOf(a, r)
            q == IF Len(payments) > n THEN payments ELSE Append(payments, x)
            d == [e EXCEPT !.hash = TRUE]
<1>1. /\ journal \in [Address -> Entry \cup {None}] /\ allocated \in Address \cup {None}
      /\ payments \in Seq(Transfer) /\ mined \in Nat /\ Len(payments) \in Nat
      /\ mined <= Len(payments) /\ Len(payments) <= mined + 1
  BY DEF ChainSound
<1>2. r.referrer \in Address /\ r.amount \in Reward BY DEF Record
<1>3. journal[a] # None =>
        /\ journal[a] \in Entry /\ journal[a].nonce \in Nat
        /\ journal[a].referrer = r.referrer /\ journal[a].amount = r.amount
        /\ mined <= journal[a].nonce /\ journal[a].nonce <= Len(payments)
  <2>1. ASSUME journal[a] # None
        PROVE /\ journal[a] \in Entry /\ journal[a].nonce \in Nat
              /\ journal[a].nonce <= Len(payments)
    BY <1>1, <2>1 DEF Entry, ChainSound
  <2>. QED BY <1>1, <2>1 DEF Conflicts
<1>4. n = mined /\ (Len(payments) = mined + 1 => allocated = a /\ journal[a] # None)
  <2>1. ASSUME Len(payments) = mined + 1
        PROVE  /\ allocated = a /\ payments[mined + 1].acolyte = a
               /\ journal[a] # None /\ journal[a].nonce = mined
    <3>1. allocated = a BY <1>1, <2>1 DEF SignerBusy
    <3>2. payments[mined + 1].acolyte = a BY <2>1, <3>1 DEF ChainSound
    <3>3. mined + 1 \in DOMAIN payments BY <1>1, <2>1
    <3>4. journal[a] # None /\ journal[a].nonce + 1 = mined + 1
      BY <3>2, <3>3 DEF ChainSound
    <3>. QED BY <1>1, <1>3, <3>1, <3>2, <3>4
  <2>2. CASE Len(payments) = mined BY <1>1, <1>3, <2>2
  <2>3. CASE Len(payments) = mined + 1 BY <2>1, <2>3
  <2>. QED BY <1>1, <2>1, <2>2, <2>3
<1>5. ASSUME NEW k \in DOMAIN payments, payments[k].acolyte = a
      PROVE  /\ journal[a] # None /\ n + 1 = k
             /\ r.referrer = payments[k].referrer /\ r.amount = payments[k].amount
  BY <1>3, <1>5 DEF ChainSound
<1>6. e \in Entry /\ e.nonce = mined /\ e.hash = FALSE
      /\ e.referrer = r.referrer /\ e.amount = r.amount
  BY <1>1, <1>2, <1>4 DEF Entry
<1>7. d \in Entry /\ d.nonce = mined /\ d.hash = TRUE
      /\ d.referrer = r.referrer /\ d.amount = r.amount
  BY <1>6 DEF Entry
<1>8. x \in Transfer /\ x.acolyte = a /\ x.referrer = r.referrer /\ x.amount = r.amount
  BY <1>2 DEF TransferOf, Transfer
<1>. HIDE DEF e, d, x
<1>9. w[a] = e /\ \A b \in Address \ {a} : w[b] = journal[b] BY <1>1
<1>10. [w EXCEPT ![a].hash = TRUE] = [journal EXCEPT ![a] = d]
       /\ [journal EXCEPT ![a] = d][a] = d
       /\ \A b \in Address \ {a} : [journal EXCEPT ![a] = d][b] = journal[b]
  BY <1>1, <1>9 DEF d
<1>11. [w EXCEPT ![a] = d] = [journal EXCEPT ![a] = d] BY <1>1
<1>12. Journals(e, payments, a)
  BY <1>1, <1>4, <1>5, <1>6 DEF Journals
<1>13. ChainSound(journal, a, payments, mined)
  BY <1>1, <1>4 DEF ChainSound, GrowthParameters
<1>14. ChainSound(w, a, payments, mined)
  BY <1>4, <1>6, <1>12, ChainWrites
<1>15. e # None BY <1>6 DEF GrowthParameters
<1>. HIDE DEF n, w
<1>16. ChainSound(w, a, q, mined)
  <2>1. CASE Len(payments) > mined BY <1>4, <1>14, <2>1
  <2>2. CASE ~(Len(payments) > mined)
    <3>1. Len(payments) = mined /\ q = Append(payments, x) BY <1>1, <1>4, <2>2
    <3>. HIDE DEF q
    <3>2. ChainSound(w, a, Append(payments, x), mined)
      BY <1>6, <1>8, <1>9, <1>14, <1>15, <3>1, ChainSends
    <3>. QED BY <3>1, <3>2
  <2>. QED BY <2>1, <2>2
<1>17. Journals(d, q, a)
  <2>1. Len(q) = mined + 1 /\ q[mined + 1].acolyte = a
    <3>1. CASE Len(payments) > mined
      <4>1. q = payments /\ Len(payments) = mined + 1 /\ allocated = a BY <1>1, <1>4, <3>1
      <4>. HIDE DEF q
      <4>. QED BY <4>1 DEF ChainSound
    <3>2. CASE ~(Len(payments) > mined)
      BY <1>1, <1>4, <1>8, <3>2
    <3>. QED BY <3>1, <3>2
  <2>. HIDE DEF q
  <2>2. ASSUME NEW k \in DOMAIN q, q[k].acolyte = a
        PROVE  mined + 1 = k /\ r.referrer = q[k].referrer /\ r.amount = q[k].amount
    BY <1>6, <1>9, <1>16, <2>2 DEF ChainSound
  <2>. QED BY <1>1, <1>7, <2>1, <2>2 DEF Journals
<1>18. ChainSound([journal EXCEPT ![a] = d], a, q, mined)
  <2>. HIDE DEF q
  <2>. QED BY <1>7, <1>11, <1>16, <1>17, ChainWrites
<1>19. o \in {Outcome(journal, a, payments, "error"), Outcome(w, a, payments, "error"),
              Outcome(w, a, q, "error"),
              Outcome([w EXCEPT ![a].hash = TRUE], a, q, "submitted")}
  BY DEF Paid, w, e, x, n
<1>. HIDE DEF q
<1>20. CASE o = Outcome(journal, a, payments, "error")
  <2>1. /\ o.journal = journal /\ o.allocated = a /\ o.payments = payments
        /\ o.answer = "error"
    BY <1>20 DEF Outcome
  <2>. QED BY <1>13, <2>1
<1>21. CASE o = Outcome(w, a, payments, "error") BY <1>6, <1>9, <1>14, <1>21 DEF Outcome
<1>22. CASE o = Outcome(w, a, q, "error") BY <1>6, <1>9, <1>16, <1>22 DEF Outcome
<1>23. CASE o = Outcome([w EXCEPT ![a].hash = TRUE], a, q, "submitted")
  BY <1>7, <1>10, <1>18, <1>23 DEF Outcome
<1>. QED BY <1>19, <1>20, <1>21, <1>22, <1>23

\* Whatever the signer does for a bounty, and however far it gets.
LEMMA BountySound ==
  ASSUME NEW a \in Address, NEW r \in Record, r.referrer # None, GrowthParameters,
         ChainSound(journal, allocated, payments, mined),
         NEW o \in ExecuteReferralBounty(a, r)
  PROVE  /\ ChainSound(o.journal, o.allocated, o.payments, mined)
         /\ o.answer \in {"error", "submitted", "confirmed", "funding"}
         /\ o.answer \in {"submitted", "confirmed"} => o.journal[a] \in Entry
         /\ o.answer = "funding" => r.nonce = None
         /\ \A b \in Address \ {a} : o.journal[b] = journal[b]
         /\ \/ o.journal = journal
            \/ o.journal[a].referrer = r.referrer /\ o.journal[a].amount = r.amount
<1>1. /\ journal \in [Address -> Entry \cup {None}] /\ payments \in Seq(Transfer)
      /\ mined \in Nat /\ Len(payments) \in Nat
  BY DEF ChainSound
<1>. DEFINE Sound(u) ==
       /\ ChainSound(u.journal, u.allocated, u.payments, mined)
       /\ u.answer \in {"error", "submitted", "confirmed", "funding"}
       /\ u.answer \in {"submitted", "confirmed"} => u.journal[a] \in Entry
       /\ u.answer = "funding" => r.nonce = None
       /\ \A b \in Address \ {a} : u.journal[b] = journal[b]
       /\ \/ u.journal = journal
          \/ u.journal[a].referrer = r.referrer /\ u.journal[a].amount = r.amount
<1>2. ASSUME NEW answer \in {"error", "submitted", "confirmed", "funding"},
             answer \in {"submitted", "confirmed"} => journal[a] \in Entry,
             answer = "funding" => r.nonce = None, o = Stays(answer)
      PROVE  Sound(o)
  <2>1. /\ o.journal = journal /\ o.allocated = allocated /\ o.payments = payments
        /\ o.answer = answer
    BY <1>2 DEF Stays, Outcome
  <2>. QED BY <1>2, <2>1
<1>3. CASE Conflicts(a, r)
  <2>1. o = Stays("error") BY <1>3 DEF ExecuteReferralBounty
  <2>. QED BY <1>2, <2>1
<1>4. CASE ~Conflicts(a, r)
  <2>1. CASE o = Stays("error") BY <1>2, <2>1
  <2>2. CASE o # Stays("error") /\ journal[a] # None /\ journal[a].hash
    <3>1. o = Stays(Receipt(journal[a].nonce)) BY <1>4, <2>2 DEF ExecuteReferralBounty
    <3>2. journal[a] \in Entry BY <1>1, <2>2
    <3>3. Receipt(journal[a].nonce) \in {"confirmed", "submitted"} BY DEF Receipt
    <3>. HIDE DEF Sound
    <3>4. Sound(o) BY <1>2, <3>1, <3>2, <3>3
    <3>. QED BY <3>4 DEF Sound
  <2>3. CASE o # Stays("error") /\ journal[a] # None /\ ~journal[a].hash /\ mined > journal[a].nonce
    <3>. DEFINE e == journal[a]
                d == [e EXCEPT !.hash = TRUE]
    <3>1. /\ payments[e.nonce + 1] = TransferOf(a, r)
          /\ o = Outcome([journal EXCEPT ![a].hash = TRUE], allocated, payments, "confirmed")
      BY <1>4, <2>3 DEF ExecuteReferralBounty
    <3>2. e \in Entry /\ e.nonce \in Nat /\ e.nonce <= Len(payments)
      BY <1>1, <2>3 DEF ChainSound, Entry
    <3>3. /\ d \in Entry /\ d.nonce = e.nonce /\ d.hash = TRUE /\ d.referrer = e.referrer
          /\ d.amount = e.amount
      BY <3>2 DEF Entry
    <3>4. [journal EXCEPT ![a].hash = TRUE] = [journal EXCEPT ![a] = d] BY <1>1
    <3>. HIDE DEF d
    <3>5. /\ [journal EXCEPT ![a] = d][a] = d
          /\ \A b \in Address \ {a} : [journal EXCEPT ![a] = d][b] = journal[b]
      BY <1>1
    <3>6. /\ o.journal = [journal EXCEPT ![a] = d] /\ o.allocated = allocated
          /\ o.payments = payments /\ o.answer = "confirmed"
      BY <3>1, <3>4 DEF Outcome
    <3>7. e.referrer = r.referrer /\ e.amount = r.amount BY <1>4, <2>3 DEF Conflicts
    <3>8. Journals(d, payments, a)
      <4>1. e.nonce < Len(payments) BY <1>1, <2>3, <3>2 DEF ChainSound
      <4>2. payments[e.nonce + 1].acolyte = a BY <3>1 DEF TransferOf
      <4>3. \A k \in DOMAIN payments : payments[k].acolyte = a =>
              e.nonce + 1 = k /\ e.referrer = payments[k].referrer /\ e.amount = payments[k].amount
        BY DEF ChainSound
      <4>. QED BY <3>2, <3>3, <4>1, <4>2, <4>3 DEF Journals
    <3>9. allocated \in Address \cup {None} BY DEF ChainSound
    <3>10. ChainSound([journal EXCEPT ![a] = d], allocated, payments, mined)
      BY <3>3, <3>8, <3>9, ChainWrites
    <3>. QED BY <3>3, <3>5, <3>6, <3>7, <3>10
  <2>4. CASE /\ o # Stays("error")
             /\ journal[a] # None => ~journal[a].hash /\ ~(mined > journal[a].nonce)
    <3>1. CASE ~funded
      <4>1. o = Stays("funding") BY <1>4, <2>4, <3>1 DEF ExecuteReferralBounty
      <4>2. r.nonce = None BY <1>4, <2>4 DEF Conflicts
      <4>. HIDE DEF Sound
      <4>3. Sound(o) BY <1>2, <4>1, <4>2
      <4>. QED BY <4>3 DEF Sound
    <3>2. CASE funded
      <4>1. ~SignerBusy(a) /\ o \in Paid(a, r)
        BY <1>4, <2>4, <3>2 DEF ExecuteReferralBounty
      <4>. QED BY <1>4, <2>4, <4>1, PaidSound
    <3>. QED BY <3>1, <3>2
  <2>. QED BY <2>1, <2>2, <2>3, <2>4
<1>. QED BY <1>3, <1>4

\* A block takes the waiting transaction.
LEMMA MineSound ==
  ASSUME ChainSound(journal, allocated, payments, mined), mined < Len(payments)
  PROVE  ChainSound(journal, None, payments, mined + 1)
<1>1. mined \in Nat /\ Len(payments) \in Nat /\ Len(payments) <= mined + 1
  BY DEF ChainSound
<1>. QED BY <1>1 DEF ChainSound

-----------------------------------------------------------------------------
(* The memory after an answer of the signer, an acknowledgement and an opening. *)

\* One record is rewritten where it is, and nothing was refused.
LEMMA UpdateKeeps ==
  ASSUME NEW a \in KnownAcolytes(state), NEW r \in Record, Fits(state, reward),
         GrowthParameters,
         r.inbox = state.records[a].inbox, r.referrer = state.records[a].referrer,
         r.referrer_inbox = state.records[a].referrer_inbox, PhaseFits(r),
         r.amount = state.records[a].amount,
         state.records[a].phase \notin Unrewarded => r.phase \notin Unrewarded,
         r.phase # "Confirmed" => state.records[a].phase # "Confirmed"
  PROVE  Keeps(Update(a, r), state, reward)
<1>1. Keeps(Put(state, a, r), state, reward) BY RewriteOne
<1>. QED BY <1>1 DEF Put, Update

\* The signer's answer keeps the snapshot sound.
LEMMA AnsweredKeeps ==
  ASSUME NEW a \in KnownAcolytes(state), Fits(state, reward), GrowthParameters,
         state.records[a].phase \in {"RewardPending", "Submitted"},
         state.records[a].delivery = None, NEW nonce,
         NEW answer \in {"error", "submitted", "confirmed", "funding"},
         answer \in {"submitted", "confirmed"} => nonce \in Nat,
         answer = "funding" => state.records[a].nonce = None
  PROVE  Keeps(Update(a, Answered(state.records[a], nonce, answer)), state, reward)
<1>. DEFINE r == state.records[a]
            q == Answered(r, nonce, answer)
<1>1. r \in Record BY KnownRecord DEF Fits
<1>2. RecordSound(state, a, reward) BY DEF Fits
<1>3. /\ (r.phase \in {"NewContact", "Direct"}) = (r.referrer = None)
      /\ r.onboarded = (r.phase \notin {"NewContact", "Attributed"})
      /\ r.phase = "RewardPending" => r.nonce = None
      /\ r.phase = "Submitted" => r.nonce # None
  BY <1>2 DEF RecordSound, PhaseFits
<1>4. r.referrer # None /\ r.onboarded = TRUE BY <1>3
<1>5. None \notin {"funding", "confirmed"} /\ None \notin Nat BY DEF GrowthParameters
<1>. DEFINE Same(s) == /\ s \in Record /\ s.inbox = r.inbox /\ s.referrer = r.referrer
                       /\ s.referrer_inbox = r.referrer_inbox /\ s.amount = r.amount
                       /\ s.onboarded = TRUE
                       /\ s.phase \in {"RewardPending", "Submitted", "Confirmed"}
                       /\ s.phase = "RewardPending" => s.nonce = None
                       /\ s.phase # "RewardPending" => s.nonce # None
                       /\ s.delivery = "funding" => s.phase = "RewardPending"
                       /\ s.delivery = "confirmed" => s.phase = "Confirmed"
<1>6. ASSUME answer = "error" PROVE Same(q)
  <2>1. q = [r EXCEPT !.next_attempt = "later"] BY <1>6 DEF Answered
  <2>2. Same(q)
    <3>. HIDE DEF q
    <3>1. /\ q \in Record /\ q.inbox = r.inbox /\ q.referrer = r.referrer
          /\ q.referrer_inbox = r.referrer_inbox /\ q.amount = r.amount
          /\ q.onboarded = r.onboarded /\ q.phase = r.phase /\ q.nonce = r.nonce
          /\ q.delivery = r.delivery
      BY <1>1, <2>1 DEF Record, Due, Phase
    <3>. QED BY <1>3, <1>4, <1>5, <3>1
  <2>. QED BY <2>2
<1>7. ASSUME answer = "funding", r.noticed PROVE Same(q)
  <2>1. q = [r EXCEPT !.phase = "RewardPending", !.next_attempt = "later"]
    BY <1>7 DEF Answered
  <2>2. Same(q)
    <3>. HIDE DEF q
    <3>1. /\ q \in Record /\ q.inbox = r.inbox /\ q.referrer = r.referrer
          /\ q.referrer_inbox = r.referrer_inbox /\ q.amount = r.amount
          /\ q.onboarded = r.onboarded /\ q.phase = "RewardPending" /\ q.nonce = r.nonce
          /\ q.delivery = r.delivery
      BY <1>1, <1>7, <2>1 DEF Record, Due, Phase
    <3>. QED BY <1>3, <1>4, <1>5, <1>7, <3>1
  <2>. QED BY <2>2
<1>8. ASSUME answer = "funding", ~r.noticed PROVE Same(q)
  <2>1. q = [r EXCEPT !.phase = "RewardPending", !.delivery = "funding"]
    BY <1>8 DEF Answered
  <2>2. Same(q)
    <3>. HIDE DEF q
    <3>1. /\ q \in Record /\ q.inbox = r.inbox /\ q.referrer = r.referrer
          /\ q.referrer_inbox = r.referrer_inbox /\ q.amount = r.amount
          /\ q.onboarded = r.onboarded /\ q.phase = "RewardPending" /\ q.nonce = r.nonce
          /\ q.delivery = "funding"
      BY <1>1, <1>8, <2>1 DEF Record, Due, Phase
    <3>. QED BY <1>3, <1>4, <1>5, <1>8, <3>1
  <2>. QED BY <2>2
<1>9. ASSUME answer = "submitted" PROVE Same(q)
  <2>1. q = [r EXCEPT !.phase = "Submitted", !.nonce = nonce, !.next_attempt = "later"]
    BY <1>9 DEF Answered
  <2>2. Same(q)
    <3>. HIDE DEF q
    <3>1. /\ q \in Record /\ q.inbox = r.inbox /\ q.referrer = r.referrer
          /\ q.referrer_inbox = r.referrer_inbox /\ q.amount = r.amount
          /\ q.onboarded = r.onboarded /\ q.phase = "Submitted" /\ q.nonce = nonce
          /\ q.delivery = r.delivery
      BY <1>1, <1>9, <2>1 DEF Record, Due, Phase
    <3>. QED BY <1>3, <1>4, <1>5, <1>9, <3>1
  <2>. QED BY <2>2
<1>10. ASSUME answer = "confirmed" PROVE Same(q)
  <2>1. q = [r EXCEPT !.phase = "Confirmed", !.nonce = nonce, !.delivery = "confirmed",
                      !.next_attempt = "never"]
    BY <1>10 DEF Answered
  <2>2. Same(q)
    <3>. HIDE DEF q
    <3>1. /\ q \in Record /\ q.inbox = r.inbox /\ q.referrer = r.referrer
          /\ q.referrer_inbox = r.referrer_inbox /\ q.amount = r.amount
          /\ q.onboarded = r.onboarded /\ q.phase = "Confirmed" /\ q.nonce = nonce
          /\ q.delivery = "confirmed"
      BY <1>1, <1>10, <2>1 DEF Record, Due, Phase
    <3>. QED BY <1>3, <1>4, <1>5, <1>10, <3>1
  <2>. QED BY <2>2
<1>11. Same(q)
  <2>. HIDE DEF q, Same
  <2>. QED BY <1>6, <1>7, <1>8, <1>9, <1>10
<1>. HIDE DEF q
<1>12. PhaseFits(q)
  <2>1. (q.phase \in {"NewContact", "Direct"}) = (q.referrer = None) BY <1>4, <1>11
  <2>2. q.onboarded = (q.phase \notin {"NewContact", "Attributed"}) BY <1>11
  <2>3. q.phase \in Unrewarded \cup {"OnboardingComplete", "RewardPending"} => q.nonce = None
    BY <1>11 DEF Unrewarded
  <2>4. /\ q.phase \in {"Submitted", "Confirmed"} => q.nonce # None
        /\ q.phase = "OnboardingComplete" => q.next_attempt # "never"
    BY <1>11
  <2>. QED BY <1>11, <2>1, <2>2, <2>3, <2>4 DEF PhaseFits
<1>13. q.phase \notin Unrewarded /\ r.phase # "Confirmed" BY <1>11 DEF Unrewarded
<1>14. Keeps(Update(a, q), state, reward) BY <1>11, <1>12, <1>13, UpdateKeeps
<1>. QED BY <1>14 DEF q

\* The record of an acknowledged notice.
Told(r) == [r EXCEPT !.delivery = None,
                     !.noticed = r.delivery = "funding" \/ @,
                     !.next_attempt = IF r.delivery = "funding" THEN "later" ELSE @]

\* An acknowledged notice keeps the snapshot sound.
LEMMA ToldKeeps ==
  ASSUME NEW a \in KnownAcolytes(state), Fits(state, reward), GrowthParameters
  PROVE  Keeps(Update(a, Told(state.records[a])), state, reward)
<1>. DEFINE r == state.records[a]
            d == IF r.delivery = "funding" THEN "later" ELSE r.next_attempt
            n == r.delivery = "funding" \/ r.noticed
            q == [r EXCEPT !.delivery = None, !.noticed = n, !.next_attempt = d]
<1>1. r \in Record BY KnownRecord DEF Fits
<1>2. PhaseFits(r)
  <2>1. RecordSound(state, a, reward) BY DEF Fits
  <2>. QED BY <2>1 DEF RecordSound
<1>3. d \in Due /\ n \in BOOLEAN /\ (d = "never" => r.next_attempt = "never")
  BY <1>1 DEF Record, Due
<1>4. Told(r) = q BY DEF Told
<1>. HIDE DEF d, n
<1>5. /\ q \in Record /\ q.inbox = r.inbox /\ q.referrer = r.referrer
      /\ q.referrer_inbox = r.referrer_inbox /\ q.phase = r.phase /\ q.onboarded = r.onboarded
      /\ q.amount = r.amount /\ q.nonce = r.nonce /\ q.delivery = None /\ q.next_attempt = d
  BY <1>1, <1>3 DEF Record
<1>6. None \notin {"funding", "confirmed"} BY DEF GrowthParameters
<1>. HIDE DEF q
<1>7. PhaseFits(q) BY <1>2, <1>3, <1>5, <1>6 DEF PhaseFits
<1>8. Keeps(Update(a, q), state, reward) BY <1>5, <1>7, UpdateKeeps
<1>. QED BY <1>4, <1>8

\* The runtime opens a snapshot whose unpromised amounts it has brought up to date.
LEMMA MigratedKeeps ==
  ASSUME NEW amount \in Reward, Fits(saved, reward), GrowthParameters,
         ValidSnapshot(Migrated(amount), amount)
  PROVE  Fits(Migrated(amount), amount) /\ Continues(saved, Migrated(amount))
<1>. DEFINE New(a) == IF saved.records[a] # None /\ saved.records[a].phase \in Unrewarded
                      THEN [saved.records[a] EXCEPT !.amount = amount] ELSE saved.records[a]
            f == [a \in Address |-> New(a)]
            t == [saved EXCEPT !.records = f]
<1>1. saved \in Snapshot BY DEF Fits
<1>2. t = Migrated(amount) BY DEF Migrated
<1>3. ASSUME NEW a \in Address
      PROVE  New(a) \in Record \cup {None} /\ (New(a) = None) = (saved.records[a] = None)
  <2>1. saved.records[a] \in Record \cup {None} BY <1>1 DEF Snapshot
  <2>2. ASSUME NEW r \in Record PROVE [r EXCEPT !.amount = amount] \in Record
    BY <2>2 DEF Record
  <2>3. None \notin Record BY DEF GrowthParameters
  <2>. QED BY <2>1, <2>2, <2>3
<1>4. ASSUME NEW a \in KnownAcolytes(saved)
      PROVE  LET r == saved.records[a] IN
             /\ New(a).inbox = r.inbox /\ New(a).referrer = r.referrer
             /\ New(a).referrer_inbox = r.referrer_inbox /\ New(a).phase = r.phase
             /\ New(a).onboarded = r.onboarded /\ New(a).nonce = r.nonce
             /\ New(a).delivery = r.delivery /\ New(a).next_attempt = r.next_attempt
             /\ r.phase \notin Unrewarded => New(a).amount = r.amount
  <2>1. saved.records[a] \in Record BY <1>1, KnownRecord
  <2>. QED BY <2>1 DEF Record
<1>. HIDE DEF New
<1>5. t \in Snapshot /\ t.operators = saved.operators /\ t.operator = saved.operator
  BY <1>1, <1>3 DEF Snapshot
<1>6. \A a \in Address : t.records[a] = New(a) BY <1>1 DEF Snapshot
<1>. HIDE DEF t
<1>7. KnownAcolytes(t) = KnownAcolytes(saved) BY <1>3, <1>6 DEF KnownAcolytes
<1>8. \A a \in KnownAcolytes(saved) : t.records[a] = New(a) BY <1>6 DEF KnownAcolytes
<1>9. ValidSnapshot(t, amount) BY <1>2
<1>10. Rewrites(t, saved, amount)
  <2>1. ASSUME NEW a \in KnownAcolytes(saved)
        PROVE /\ t.records[a].inbox = saved.records[a].inbox
              /\ t.records[a].referrer = saved.records[a].referrer
              /\ t.records[a].referrer_inbox = saved.records[a].referrer_inbox
              /\ PhaseFits(t.records[a])
              /\ t.records[a].phase # "Confirmed" => t.records[a].amount = amount
    <3>1. PhaseFits(t.records[a])
          /\ (t.records[a].phase # "Confirmed" => t.records[a].amount = amount)
      BY <1>7, <1>9 DEF ValidSnapshot
    <3>. QED BY <1>4, <1>8, <3>1
  <2>. QED BY <1>5, <1>7, <2>1 DEF Rewrites
<1>11. Fits(t, amount) BY <1>5, <1>10, RewrittenFits
<1>12. Continues(saved, t) BY <1>4, <1>7, <1>8 DEF Continues
<1>. QED BY <1>2, <1>11, <1>12

-----------------------------------------------------------------------------
(* The inductive invariant. *)

\* What was acknowledged to an Acolyte and what the signer wrote for it is in the
\* snapshot.
Backed(s, acc, j) ==
  \A a \in Address :
    /\ acc[a] # {} => /\ a \in KnownAcolytes(s) /\ s.records[a].referrer # None
                      /\ acc[a] \subseteq {s.records[a].referrer}
    /\ j[a] # None => /\ a \in KnownAcolytes(s) /\ s.records[a].phase \notin Unrewarded
                      /\ s.records[a].referrer = j[a].referrer
                      /\ s.records[a].amount = j[a].amount

\* The inductive invariant of growth.
GrowthInv ==
  /\ reward \in Reward
  /\ state # None => Fits(state, reward)
  /\ Fits(saved, reward)
  /\ inflight \notin {None, "prompt"} => state # None /\ inflight \in KnownAcolytes(state)
  /\ ChainSound(journal, allocated, payments, mined)
  /\ accepted \in [Address -> SUBSET Address]
  /\ failures \in Nat
  /\ InboxesApart /\ failures = 0 => (state # None => state = saved) /\ Backed(saved, accepted, journal)

\* What was acknowledged or written stays in every snapshot that continues.
LEMMA BackedOn ==
  ASSUME NEW s, NEW t, NEW acc, NEW j \in [Address -> Entry \cup {None}], Backed(s, acc, j),
         Continues(s, t), GrowthParameters
  PROVE  Backed(t, acc, j)
<1>1. ASSUME NEW a \in Address, acc[a] # {}
      PROVE  /\ a \in KnownAcolytes(t) /\ t.records[a].referrer # None
             /\ acc[a] \subseteq {t.records[a].referrer}
  <2>1. a \in KnownAcolytes(s) /\ s.records[a].referrer # None
        /\ acc[a] \subseteq {s.records[a].referrer}
    BY <1>1 DEF Backed
  <2>2. a \in KnownAcolytes(t) /\ t.records[a].referrer = s.records[a].referrer
    BY <2>1 DEF Continues
  <2>. QED BY <2>1, <2>2
<1>2. ASSUME NEW a \in Address, j[a] # None
      PROVE  /\ a \in KnownAcolytes(t) /\ t.records[a].phase \notin Unrewarded
             /\ t.records[a].referrer = j[a].referrer /\ t.records[a].amount = j[a].amount
  <2>1. /\ a \in KnownAcolytes(s) /\ s.records[a].phase \notin Unrewarded
        /\ s.records[a].referrer = j[a].referrer /\ s.records[a].amount = j[a].amount
    BY <1>2 DEF Backed
  <2>2. j[a].referrer # None BY <1>2 DEF Entry, GrowthParameters
  <2>3. /\ a \in KnownAcolytes(t) /\ t.records[a].referrer = s.records[a].referrer
        /\ t.records[a].phase \notin Unrewarded /\ t.records[a].amount = s.records[a].amount
    BY <2>1, <2>2 DEF Continues
  <2>. QED BY <2>1, <2>3
<1>. QED BY <1>1, <1>2 DEF Backed

\* The pinned referrer is acknowledged.
LEMMA BackedAccepts ==
  ASSUME NEW s, NEW acc \in [Address -> SUBSET Address], NEW j, Backed(s, acc, j),
         NEW a \in KnownAcolytes(s), NEW f \in Address, s.records[a].referrer = f,
         GrowthParameters
  PROVE  Backed(s, [acc EXCEPT ![a] = @ \cup {f}], j)
<1>. DEFINE more == [acc EXCEPT ![a] = @ \cup {f}]
<1>1. a \in Address BY DEF KnownAcolytes
<1>2. more[a] = acc[a] \cup {f} /\ \A b \in Address \ {a} : more[b] = acc[b] BY <1>1
<1>3. acc[a] \subseteq {f} BY <1>1 DEF Backed
<1>4. f # None BY DEF GrowthParameters
<1>. HIDE DEF more
<1>5. ASSUME NEW b \in Address, more[b] # {}
      PROVE  /\ b \in KnownAcolytes(s) /\ s.records[b].referrer # None
             /\ more[b] \subseteq {s.records[b].referrer}
  <2>1. CASE b = a BY <1>2, <1>3, <1>4, <2>1
  <2>2. CASE b # a
    <3>1. more[b] = acc[b] BY <1>2, <2>2
    <3>. QED BY <1>5, <3>1 DEF Backed
  <2>. QED BY <2>1, <2>2
<1>6. Backed(s, more, j) BY <1>5 DEF Backed
<1>. QED BY <1>6 DEF more

\* The signer writes for a promised bounty.
LEMMA BackedJournal ==
  ASSUME NEW s, NEW acc, NEW j, NEW k, Backed(s, acc, j), NEW a \in KnownAcolytes(s),
         s.records[a].phase \notin Unrewarded,
         \A b \in Address \ {a} : k[b] = j[b],
         \/ k = j
         \/ k[a].referrer = s.records[a].referrer /\ k[a].amount = s.records[a].amount
  PROVE  Backed(s, acc, k)
<1>1. CASE k = j BY <1>1
<1>2. CASE k[a].referrer = s.records[a].referrer /\ k[a].amount = s.records[a].amount
  BY <1>2 DEF Backed
<1>. QED BY <1>1, <1>2

\* A save takes the snapshot or fails.
LEMMA PersistTakes ==
  ASSUME NEW next, Fits(next, reward), failures \in Nat, Persist(next)
  PROVE  /\ state' = next /\ saved' \in {saved, next} /\ failures' \in Nat
         /\ InboxesApart /\ failures' = 0 => failures = 0 /\ saved' = next
<1>1. InboxesApart => ValidSnapshot(next, reward) BY FitsIsValid
<1>. QED BY <1>1 DEF Persist

\* A change of memory that keeps what it must, saved or not, keeps the invariant.
LEMMA SaveKeeps ==
  ASSUME GrowthInv, GrowthParameters, Running, NEW next, Keeps(next, state, reward),
         state' = next, saved' \in {saved, next}, failures' \in Nat,
         InboxesApart /\ failures' = 0 => failures = 0 /\ saved' = next,
         reward' = reward,
         \/ inflight' \in {None, "prompt"} \/ inflight' = inflight
         \/ inflight' \in KnownAcolytes(next),
         UNCHANGED <<chain, accepted>>
  PROVE  GrowthInv'
<1>1. Fits(next, reward) /\ Fits(state, reward) BY DEF Keeps, GrowthInv, Running
<1>2. next # None BY <1>1 DEF Fits, GrowthParameters
<1>3. \A a \in KnownAcolytes(state) : a \in KnownAcolytes(next) BY DEF Keeps, Continues
<1>4. /\ state' # None /\ Fits(state', reward') /\ Fits(saved', reward') /\ reward' \in Reward
  BY <1>1, <1>2 DEF GrowthInv
<1>5. inflight' \notin {None, "prompt"} => state' # None /\ inflight' \in KnownAcolytes(next)
  BY <1>2, <1>3 DEF GrowthInv
<1>6. ChainSound(journal', allocated', payments', mined')
      /\ accepted' \in [Address -> SUBSET Address]
  BY DEF GrowthInv, chain
<1>7. InboxesApart /\ failures' = 0 => (state' # None => state' = saved') /\ Backed(saved', accepted', journal')
  <2>. SUFFICES ASSUME InboxesApart, failures' = 0
                PROVE  state' = saved' /\ Backed(saved', accepted', journal')
    OBVIOUS
  <2>1. state = saved /\ Backed(state, accepted, journal) BY DEF GrowthInv, Running
  <2>2. journal \in [Address -> Entry \cup {None}] BY DEF GrowthInv, ChainSound
  <2>3. Continues(state, next) BY DEF Keeps
  <2>4. Backed(next, accepted, journal) BY <2>1, <2>2, <2>3, BackedOn
  <2>. QED BY <2>4 DEF chain
<1>8. KnownAcolytes(next) = {a \in Address : state'.records[a] # None}
  BY DEF KnownAcolytes
<1>. QED BY <1>4, <1>5, <1>6, <1>7, <1>8 DEF GrowthInv, KnownAcolytes

\* A change that persist saves or fails to save keeps the invariant.
LEMMA PersistInv ==
  ASSUME GrowthInv, GrowthParameters, Running, NEW next, Keeps(next, state, reward),
         Persist(next), reward' = reward,
         \/ inflight' \in {None, "prompt"} \/ inflight' = inflight
         \/ inflight' \in KnownAcolytes(next),
         UNCHANGED <<chain, accepted>>
  PROVE  GrowthInv'
<1>1. Fits(next, reward) BY DEF Keeps
<1>2. failures \in Nat BY DEF GrowthInv
<1>3. /\ state' = next /\ saved' \in {saved, next} /\ failures' \in Nat
      /\ InboxesApart /\ failures' = 0 => failures = 0 /\ saved' = next
  BY <1>1, <1>2, PersistTakes
<1>. QED BY <1>3, SaveKeeps

\* So does one that is rolled back when the save fails.
LEMMA RollbackInv ==
  ASSUME GrowthInv, GrowthParameters, Running, NEW next, Keeps(next, state, reward),
         PersistOrRollback(next), UNCHANGED <<reward, inflight, chain, accepted>>
  PROVE  GrowthInv'
<1>1. CASE state' = next /\ saved' = next /\ UNCHANGED failures
  BY <1>1, SaveKeeps DEF GrowthInv
<1>2. CASE /\ UNCHANGED <<state, saved>>
           /\ failures' = failures \/ failures' = failures + 1
  <2>1. failures' \in Nat /\ (failures' = 0 => failures = 0) BY <1>2 DEF GrowthInv
  <2>. QED BY <1>2, <2>1 DEF GrowthInv, chain
<1>. QED BY <1>1, <1>2 DEF PersistOrRollback

-----------------------------------------------------------------------------
(* Every action keeps it. *)

\* A contact arrives or returns on another inbox.
LEMMA MarkContactKeeps ==
  ASSUME GrowthInv, GrowthParameters, NEW u \in ContactUses,
         MarkContact(u[1], u[2])
  PROVE  GrowthInv'
<1>. DEFINE inbox == u[1]
            a == u[2]
<1>1. inbox \in Inbox /\ a \in Address /\ <<inbox, a>> \in ContactUses BY DEF GrowthParameters
<1>. HIDE DEF inbox, a
<1>2. MarkContact(inbox, a) BY DEF inbox, a
<1>3. /\ Running /\ ~IdentityConflicts(inbox, a) /\ RoomForRecord(a)
      /\ UNCHANGED <<world, reward, accepted, inflight>>
  BY <1>2 DEF MarkContact
<1>4. Fits(state, reward) /\ reward \in Reward BY <1>3 DEF GrowthInv, Running
<1>5. UNCHANGED <<reward, inflight, chain, accepted>> BY <1>3 DEF world
<1>6. CASE a \in KnownAcolytes(state)
  <2>1. Persist(MovedContact(inbox, a)) BY <1>2, <1>6 DEF MarkContact
  <2>2. Keeps(MovedContact(inbox, a), state, reward) BY <1>1, <1>4, <1>6, MovedContactKeeps
  <2>. QED BY <1>3, <1>5, <2>1, <2>2, PersistInv
<1>7. CASE a \notin KnownAcolytes(state)
  <2>1. Persist(Update(a, NewRecord(inbox, "NewContact"))) BY <1>2, <1>7 DEF MarkContact
  <2>2. Keeps(Update(a, NewRecord(inbox, "NewContact")), state, reward)
    BY <1>1, <1>3, <1>4, <1>7, NewContactKeeps
  <2>. QED BY <1>3, <1>5, <2>1, <2>2, PersistInv
<1>. QED BY <1>6, <1>7

\* A control message pins a referrer or is told the pinned one.
LEMMA HandleControlKeeps ==
  ASSUME GrowthInv, GrowthParameters, NEW u \in ContactUses, NEW referrer \in Address,
         HandleControl(u[1], u[2], referrer)
  PROVE  GrowthInv'
<1>. DEFINE inbox == u[1]
            a == u[2]
<1>1. inbox \in Inbox /\ a \in Address /\ <<inbox, a>> \in ContactUses BY DEF GrowthParameters
<1>. HIDE DEF inbox, a
<1>2. HandleControl(inbox, a, referrer) BY DEF inbox, a
<1>3. /\ Running /\ ~IdentityConflicts(inbox, a)
      /\ minter \notin {a, referrer} /\ a # referrer
      /\ UNCHANGED <<reward, inflight, chain>>
  BY <1>2 DEF HandleControl, world
<1>4. Fits(state, reward) /\ reward \in Reward /\ state \in Snapshot /\ failures \in Nat
      /\ accepted \in [Address -> SUBSET Address]
  BY <1>3 DEF GrowthInv, Running, Fits
<1>5. CASE /\ ~Attributable(a)
           /\ state.records[a].referrer # None
           /\ accepted' = [accepted EXCEPT ![a] = @ \cup {state.records[a].referrer}]
           /\ UNCHANGED <<state, saved, failures>>
  <2>. DEFINE f == state.records[a].referrer
  <2>1. a \in KnownAcolytes(state) BY <1>5 DEF Attributable
  <2>2. f \in Address
    <3>1. state.records[a] \in Record BY <1>4, <2>1, KnownRecord
    <3>. QED BY <1>5, <3>1 DEF Record
  <2>3. accepted' \in [Address -> SUBSET Address] BY <1>1, <1>4, <1>5, <2>2
  <2>4. InboxesApart /\ failures = 0 => Backed(saved, accepted', journal)
    <3>. SUFFICES ASSUME InboxesApart, failures = 0 PROVE Backed(saved, accepted', journal) OBVIOUS
    <3>1. state = saved /\ Backed(state, accepted, journal) BY <1>3 DEF GrowthInv, Running
    <3>2. Backed(state, [accepted EXCEPT ![a] = @ \cup {f}], journal)
      BY <1>4, <2>1, <2>2, <3>1, BackedAccepts
    <3>. QED BY <1>5, <3>1, <3>2
  <2>. QED BY <1>3, <1>5, <2>3, <2>4 DEF GrowthInv, chain
<1>6. CASE ~(/\ ~Attributable(a)
             /\ state.records[a].referrer # None
             /\ accepted' = [accepted EXCEPT ![a] = @ \cup {state.records[a].referrer}]
             /\ UNCHANGED <<state, saved, failures>>)
  <2>. DEFINE r == IF a \in KnownAcolytes(state) THEN state.records[a]
                   ELSE NewRecord(inbox, "Attributed")
              next == Update(a, Pinned(r, inbox, referrer))
  <2>1. /\ Attributable(a) /\ VerifiedReferrerInbox(referrer) \notin {None, inbox}
        /\ RoomForRecord(a) /\ Persist(next)
        /\ accepted' = (IF saved' = state' THEN [accepted EXCEPT ![a] = @ \cup {referrer}]
                        ELSE accepted)
    BY <1>2, <1>6 DEF HandleControl, Pinned
  <2>2. r \in Record
    <3>1. CASE a \in KnownAcolytes(state) BY <1>4, <3>1, KnownRecord
    <3>2. CASE a \notin KnownAcolytes(state)
      BY <1>1, <1>4, <3>2 DEF NewRecord, Record, Phase, Due
    <3>. QED BY <3>1, <3>2
  <2>3. /\ Keeps(next, state, reward) /\ a \in KnownAcolytes(next)
        /\ next.records[a].referrer = referrer
    BY <1>1, <1>3, <1>4, <2>1, <2>2, PinnedKeeps
  <2>. HIDE DEF next
  <2>4. Fits(next, reward) /\ Continues(state, next) BY <2>3 DEF Keeps
  <2>5. /\ state' = next /\ saved' \in {saved, next} /\ failures' \in Nat
        /\ InboxesApart /\ failures' = 0 => failures = 0 /\ saved' = next
    BY <1>4, <2>1, <2>4, PersistTakes
  <2>6. next # None /\ \A b \in KnownAcolytes(state) : b \in KnownAcolytes(next)
    BY <2>4 DEF Continues, Fits, GrowthParameters
  <2>7. accepted' \in [Address -> SUBSET Address] BY <1>1, <1>4, <2>1
  <2>8. ASSUME InboxesApart, failures' = 0 PROVE Backed(next, accepted', journal)
    <3>1. state = saved /\ Backed(state, accepted, journal)
      BY <1>3, <2>5, <2>8 DEF GrowthInv, Running
    <3>2. journal \in [Address -> Entry \cup {None}] BY DEF GrowthInv, ChainSound
    <3>3. Backed(next, accepted, journal) BY <2>4, <3>1, <3>2, BackedOn
    <3>4. Backed(next, [accepted EXCEPT ![a] = @ \cup {referrer}], journal)
      BY <1>4, <2>3, <3>3, BackedAccepts
    <3>. QED BY <2>1, <3>3, <3>4
  <2>9. /\ state' # None /\ Fits(state', reward') /\ Fits(saved', reward') /\ reward' \in Reward
    BY <1>3, <1>4, <2>4, <2>5, <2>6 DEF GrowthInv
  <2>10. inflight' \notin {None, "prompt"} => inflight' \in KnownAcolytes(next)
    BY <1>3, <2>6 DEF GrowthInv
  <2>11. KnownAcolytes(next) = {b \in Address : state'.records[b] # None}
    BY <2>5 DEF KnownAcolytes
  <2>12. ChainSound(journal', allocated', payments', mined') BY <1>3 DEF GrowthInv, chain
  <2>13. InboxesApart /\ failures' = 0 => (state' # None => state' = saved') /\ Backed(saved', accepted', journal')
    BY <1>3, <2>5, <2>8 DEF chain
  <2>. QED BY <2>5, <2>7, <2>9, <2>10, <2>11, <2>12, <2>13 DEF GrowthInv, KnownAcolytes
<1>. QED BY <1>5, <1>6

\* A Branding outcome brings its own inbox.
LEMMA NoteBrandingStateKeeps ==
  ASSUME GrowthInv, GrowthParameters, NEW u \in ContactUses,
         NoteBrandingState(u[1], u[2])
  PROVE  GrowthInv'
<1>. DEFINE inbox == u[1]
            a == u[2]
<1>1. inbox \in Inbox /\ a \in Address /\ <<inbox, a>> \in ContactUses BY DEF GrowthParameters
<1>. HIDE DEF inbox, a
<1>2. NoteBrandingState(inbox, a) BY DEF inbox, a
<1>3. /\ Running /\ a \in KnownAcolytes(state)
      /\ Persist([state EXCEPT !.records[a].inbox = inbox])
      /\ UNCHANGED <<reward, inflight, chain, accepted>>
  BY <1>2 DEF NoteBrandingState, world
<1>4. Fits(state, reward) /\ state \in Snapshot BY <1>3 DEF GrowthInv, Running, Fits
<1>5. Keeps(MovedTo(state, a, inbox), state, reward) BY <1>1, <1>3, <1>4, MovedInboxKeeps
<1>6. [state EXCEPT !.records[a].inbox = inbox] = MovedTo(state, a, inbox)
  BY <1>1, <1>4 DEF Snapshot, MovedTo, Put
<1>. QED BY <1>3, <1>5, <1>6, PersistInv

\* An operator registers.
LEMMA RegisterOperatorKeeps ==
  ASSUME GrowthInv, GrowthParameters, NEW u \in OperatorUses, RegisterOperator(u[1], u[2])
  PROVE  GrowthInv'
<1>. DEFINE inbox == u[1]
            a == u[2]
<1>1. inbox \in Inbox /\ a \in Address /\ <<inbox, a>> \in OperatorUses BY DEF GrowthParameters
<1>. HIDE DEF inbox, a
<1>2. RegisterOperator(inbox, a) BY DEF inbox, a
<1>. DEFINE next == [state EXCEPT
          !.operators = [b \in Address |-> IF b = a THEN inbox
                                           ELSE IF @[b] = inbox THEN None ELSE @[b]],
          !.operator = <<inbox, a>>,
          !.prompt = IF @ = "pending" THEN "due" ELSE @,
          !.records = [b \in Address |->
             IF @[b] # None /\ @[b].referrer = a /\ @[b].inbox # inbox
             THEN [@[b] EXCEPT !.referrer_inbox = inbox] ELSE @[b]]]
<1>3. Running /\ a # minter /\ PersistOrRollback(next)
      /\ UNCHANGED <<reward, inflight, chain, accepted>>
  BY <1>2 DEF RegisterOperator, world
<1>4. Fits(state, reward) BY <1>3 DEF GrowthInv, Running
<1>5. Keeps(next, state, reward) BY <1>1, <1>3, <1>4, RegisteredKeeps
<1>. HIDE DEF next
<1>. QED BY <1>3, <1>5, RollbackInv

\* Reminders are turned on or off.
LEMMA ReminderPreferencesKeeps ==
  ASSUME GrowthInv, GrowthParameters, NEW allowed \in BOOLEAN, ReminderPreferences(allowed)
  PROVE  GrowthInv'
<1>. DEFINE next == [state EXCEPT !.reminders = allowed,
                                  !.prompt = IF @ = "pending" THEN "due" ELSE @]
<1>1. Running /\ PersistOrRollback(next) /\ UNCHANGED <<reward, inflight, chain, accepted>>
  BY DEF ReminderPreferences, world
<1>2. Fits(state, reward) BY <1>1 DEF GrowthInv, Running
<1>3. Keeps(next, state, reward) BY <1>2, RemindersKeep
<1>. HIDE DEF next
<1>. QED BY <1>1, <1>3, RollbackInv

\* An onboarding completes, with a crash or a failed save in between.
LEMMA MarkOnboardingCompleteKeeps ==
  ASSUME GrowthInv, GrowthParameters, NEW u \in ContactUses,
         MarkOnboardingComplete(u[1], u[2])
  PROVE  GrowthInv'
<1>. DEFINE inbox == u[1]
            a == u[2]
<1>1. inbox \in Inbox /\ a \in Address /\ <<inbox, a>> \in ContactUses BY DEF GrowthParameters
<1>. HIDE DEF inbox, a
<1>2. MarkOnboardingComplete(inbox, a) BY DEF inbox, a
<1>. DEFINE r == IF a \in KnownAcolytes(state) THEN state.records[a]
                 ELSE NewRecord(inbox, "Direct")
            done == Onboarded(r, inbox)
            next == IF r.referrer = None THEN Update(a, done)
                    ELSE [Update(a, done) EXCEPT !.prompt = "due"]
            prepared == [next EXCEPT !.records[a].phase = "RewardPending"]
<1>3. /\ Running /\ ~IdentityConflicts(inbox, a) /\ RoomForRecord(a)
      /\ a \in KnownAcolytes(state) => ~state.records[a].onboarded
      /\ inflight' = (IF state' = None THEN None ELSE inflight)
      /\ UNCHANGED <<chain, reward, accepted>>
      /\ r.referrer = None => Persist(next)
      /\ r.referrer # None =>
           \/ Persist(next)
           \/ state' = prepared /\ saved' = prepared /\ UNCHANGED failures
           \/ state' = prepared /\ failures' = failures + 1 /\ saved' = next
           \/ state' = None /\ saved' = next /\ UNCHANGED failures
  BY <1>2 DEF MarkOnboardingComplete, Onboarded
<1>4. Fits(state, reward) /\ reward \in Reward /\ state \in Snapshot /\ failures \in Nat
  BY <1>3 DEF GrowthInv, Running, Fits
<1>5. r \in Record
  <2>1. CASE a \in KnownAcolytes(state) BY <1>4, <2>1, KnownRecord
  <2>2. CASE a \notin KnownAcolytes(state)
    BY <1>1, <1>4, <2>2 DEF NewRecord, Record, Phase, Due
  <2>. QED BY <2>1, <2>2
<1>6. done \in Record /\ Keeps(Update(a, done), state, reward)
  BY <1>1, <1>3, <1>4, <1>5, OnboardedKeeps
<1>7. Keeps(next, state, reward)
  <2>. HIDE DEF done
  <2>1. CASE r.referrer = None BY <1>6, <2>1
  <2>2. CASE r.referrer # None
    <3>1. Keeps([Update(a, done) EXCEPT !.prompt = "due"], Update(a, done), reward)
      BY <1>6, PromptedKeeps DEF Keeps
    <3>. QED BY <1>4, <1>6, <2>2, <3>1, KeepsOn
  <2>. QED BY <2>1, <2>2
<1>8. ASSUME r.referrer # None PROVE Keeps(prepared, next, reward)
  <2>1. Written(Put(state, a, done), state, a, done)
        /\ KnownAcolytes(Put(state, a, done)) = KnownAcolytes(state) \cup {a}
    BY <1>1, <1>4, <1>6, PutIs, PutKnown
  <2>2. Put(state, a, done) = Update(a, done) BY DEF Put, Update
  <2>3. done.phase = "OnboardingComplete"
    <3>1. done = [r EXCEPT !.inbox = inbox, !.onboarded = TRUE,
                           !.phase = "OnboardingComplete", !.next_attempt = "now"]
      BY <1>8 DEF Onboarded
    <3>. HIDE DEF done, r
    <3>. QED BY <1>5, <3>1 DEF Record
  <2>. HIDE DEF done
  <2>4. Update(a, done) \in Snapshot BY <1>6 DEF Keeps, Fits
  <2>5. next.records = Update(a, done).records
    BY <1>8, <2>4 DEF Snapshot
  <2>6. a \in KnownAcolytes(next) /\ next.records[a] = done
    <3>. HIDE DEF next
    <3>. QED BY <1>1, <2>1, <2>2, <2>5 DEF KnownAcolytes, Written
  <2>. HIDE DEF next
  <2>7. Fits(next, reward) BY <1>7 DEF Keeps
  <2>. QED BY <2>3, <2>6, <2>7, PreparedKeeps
<1>. HIDE DEF prepared, next, r, done
<1>9. UNCHANGED <<reward, chain, accepted>> BY <1>3
<1>10. Fits(next, reward) /\ Continues(state, next) BY <1>7 DEF Keeps
<1>11. next # None BY <1>10 DEF Fits, GrowthParameters
<1>12. CASE Persist(next)
  <2>1. state' = next BY <1>12 DEF Persist
  <2>2. inflight' = inflight BY <1>3, <1>11, <2>1
  <2>. QED BY <1>3, <1>7, <1>9, <1>12, <2>2, PersistInv
<1>13. CASE r.referrer # None /\ state' = prepared
            /\ \/ saved' = prepared /\ UNCHANGED failures
               \/ failures' = failures + 1 /\ saved' = next
  <2>1. Keeps(prepared, state, reward) BY <1>4, <1>7, <1>8, <1>13, KeepsOn
  <2>2. prepared # None BY <2>1 DEF Keeps, Fits, GrowthParameters
  <2>3. inflight' = inflight BY <1>3, <1>13, <2>2
  <2>4. CASE saved' = prepared /\ UNCHANGED failures
    BY <1>3, <1>4, <1>9, <1>13, <2>1, <2>3, <2>4, SaveKeeps
  <2>5. CASE failures' = failures + 1 /\ saved' = next
    <3>1. \A b \in KnownAcolytes(state) : b \in KnownAcolytes(prepared)
      BY <2>1 DEF Keeps, Continues
    <3>2. KnownAcolytes(prepared) = {b \in Address : state'.records[b] # None}
      BY <1>13 DEF KnownAcolytes
    <3>3. Fits(state', reward') /\ Fits(saved', reward') /\ state' # None /\ reward' \in Reward
      BY <1>4, <1>9, <1>10, <1>13, <2>1, <2>2, <2>5 DEF Keeps
    <3>4. failures' \in Nat /\ failures' # 0 BY <1>4, <2>5
    <3>5. inflight' \notin {None, "prompt"} => inflight' \in KnownAcolytes(prepared)
      BY <2>3, <3>1 DEF GrowthInv
    <3>6. ChainSound(journal', allocated', payments', mined')
          /\ accepted' \in [Address -> SUBSET Address]
      BY <1>9 DEF GrowthInv, chain
    <3>. QED BY <3>2, <3>3, <3>4, <3>5, <3>6 DEF GrowthInv, KnownAcolytes
  <2>. QED BY <1>13, <2>4, <2>5
<1>14. CASE state' = None /\ saved' = next /\ UNCHANGED failures
  <2>1. InboxesApart /\ failures = 0 => Backed(next, accepted, journal)
    <3>1. journal \in [Address -> Entry \cup {None}] BY DEF GrowthInv, ChainSound
    <3>2. InboxesApart /\ failures = 0 => state = saved /\ Backed(state, accepted, journal)
      BY <1>3 DEF GrowthInv, Running
    <3>. QED BY <1>10, <3>1, <3>2, BackedOn
  <2>2. inflight' = None BY <1>3, <1>14
  <2>3. ChainSound(journal', allocated', payments', mined') BY <1>9 DEF GrowthInv, chain
  <2>4. journal' = journal /\ accepted' = accepted /\ reward' = reward /\ failures' = failures
    BY <1>9, <1>14 DEF chain
  <2>5. InboxesApart /\ failures' = 0 => Backed(saved', accepted', journal') BY <1>14, <2>1, <2>4
  <2>6. /\ Fits(saved', reward') /\ reward' \in Reward
        /\ accepted' \in [Address -> SUBSET Address] /\ failures' \in Nat
    BY <1>4, <1>10, <1>14, <2>4 DEF GrowthInv
  <2>. QED BY <1>14, <2>2, <2>3, <2>5, <2>6 DEF GrowthInv
<1>. QED BY <1>3, <1>12, <1>13, <1>14

\* The signer is asked, and memory follows its answer or dies with it.
LEMMA ReconcileRewardKeeps ==
  ASSUME GrowthInv, GrowthParameters, Running, NEW a \in DueRewards, Notices = {},
         state.records[a].phase # "OnboardingComplete", ReconcileReward(a),
         UNCHANGED <<mined, reward, accepted>>
  PROVE  GrowthInv'
<1>. DEFINE r == state.records[a]
<1>1. Fits(state, reward) /\ reward \in Reward /\ failures \in Nat
      /\ ChainSound(journal, allocated, payments, mined)
  BY DEF GrowthInv, Running
<1>2. a \in KnownAcolytes(state) /\ a \in Address /\ r.phase \in {"RewardPending", "Submitted"}
  BY DEF DueRewards, Rewarding, KnownAcolytes
<1>3. r \in Record BY <1>1, <1>2, KnownRecord DEF Fits
<1>4. r.delivery = None BY <1>2 DEF Notices
<1>5. r.referrer # None
  <2>1. RecordSound(state, a, reward) BY <1>1, <1>2 DEF Fits
  <2>. QED BY <1>2, <2>1 DEF RecordSound, PhaseFits
<1>6. PICK o \in ExecuteReferralBounty(a, r) :
        LET next == Update(a, Answered(r, o.journal[a].nonce, o.answer))
        IN /\ journal' = o.journal /\ allocated' = o.allocated /\ payments' = o.payments
           /\ \/ /\ Persist(next)
                 /\ UNCHANGED crashes
                 /\ Hand(IF next.records[a].delivery # None /\ saved' = next THEN a ELSE None)
              \/ /\ crashes < MaxCrashes /\ crashes' = crashes + 1
                 /\ state' = None /\ inflight' = None /\ UNCHANGED <<saved, failures>>
  BY DEF ReconcileReward
<1>. DEFINE n == o.journal[a].nonce
            q == Answered(r, n, o.answer)
            next == Update(a, q)
<1>7. /\ ChainSound(o.journal, o.allocated, o.payments, mined)
      /\ o.answer \in {"error", "submitted", "confirmed", "funding"}
      /\ o.answer \in {"submitted", "confirmed"} => o.journal[a] \in Entry
      /\ o.answer = "funding" => r.nonce = None
      /\ \A b \in Address \ {a} : o.journal[b] = journal[b]
      /\ \/ o.journal = journal
         \/ o.journal[a].referrer = r.referrer /\ o.journal[a].amount = r.amount
  BY <1>1, <1>2, <1>3, <1>5, BountySound
<1>8. o.answer \in {"submitted", "confirmed"} => n \in Nat BY <1>7 DEF Entry
<1>9. Keeps(next, state, reward)
  <2>. HIDE DEF n
  <2>. QED BY <1>1, <1>2, <1>4, <1>7, <1>8, AnsweredKeeps
<1>10. /\ journal' = o.journal /\ allocated' = o.allocated /\ payments' = o.payments
       /\ \/ /\ Persist(next)
             /\ inflight' = (IF next.records[a].delivery # None /\ saved' = next THEN a ELSE None)
          \/ state' = None /\ inflight' = None /\ UNCHANGED <<saved, failures>>
  BY <1>6 DEF Hand
<1>. HIDE DEF next, n, q
<1>11. ChainSound(journal', allocated', payments', mined') BY <1>7, <1>10
<1>12. Fits(next, reward) /\ Continues(state, next) BY <1>9 DEF Keeps
<1>13. next # None BY <1>12 DEF Fits, GrowthParameters
<1>14. r.phase \notin Unrewarded BY <1>2 DEF Unrewarded
<1>15. InboxesApart /\ failures = 0 => state = saved /\ Backed(state, accepted, journal') /\ Backed(next, accepted, journal')
  <2>. SUFFICES ASSUME InboxesApart, failures = 0
                PROVE  state = saved /\ Backed(state, accepted, journal') /\ Backed(next, accepted, journal')
    OBVIOUS
  <2>1. state = saved /\ Backed(state, accepted, journal) BY DEF GrowthInv, Running
  <2>2. \A b \in Address \ {a} : journal'[b] = journal[b] BY <1>7, <1>10
  <2>3. \/ journal' = journal
        \/ journal'[a].referrer = r.referrer /\ journal'[a].amount = r.amount
    BY <1>7, <1>10
  <2>4. Backed(state, accepted, journal') BY <1>2, <1>14, <2>1, <2>2, <2>3, BackedJournal
  <2>5. journal' \in [Address -> Entry \cup {None}] BY <1>11 DEF ChainSound
  <2>6. Backed(next, accepted, journal') BY <1>12, <2>4, <2>5, BackedOn
  <2>. QED BY <2>1, <2>4, <2>6
<1>16. CASE /\ Persist(next)
            /\ inflight' = (IF next.records[a].delivery # None /\ saved' = next THEN a ELSE None)
  <2>1. /\ state' = next /\ saved' \in {saved, next} /\ failures' \in Nat
        /\ InboxesApart /\ failures' = 0 => failures = 0 /\ saved' = next
    BY <1>1, <1>12, <1>16, PersistTakes
  <2>2. a \in KnownAcolytes(next) BY <1>2, <1>12 DEF Continues
  <2>3. KnownAcolytes(next) = {b \in Address : state'.records[b] # None}
    BY <2>1 DEF KnownAcolytes
  <2>4. inflight' \notin {None, "prompt"} => inflight' \in KnownAcolytes(next)
    BY <1>16, <2>2
  <2>5. /\ Fits(state', reward') /\ Fits(saved', reward') /\ state' # None
        /\ reward' \in Reward /\ accepted' \in [Address -> SUBSET Address]
    BY <1>1, <1>12, <1>13, <2>1 DEF GrowthInv
  <2>6. InboxesApart /\ failures' = 0 => state' = saved' /\ Backed(saved', accepted', journal')
    BY <1>15, <2>1
  <2>. QED BY <1>11, <2>1, <2>3, <2>4, <2>5, <2>6 DEF GrowthInv, KnownAcolytes
<1>17. CASE state' = None /\ inflight' = None /\ UNCHANGED <<saved, failures>>
  BY <1>1, <1>11, <1>15, <1>17 DEF GrowthInv
<1>. QED BY <1>10, <1>16, <1>17

\* One step of the maintenance.
LEMMA MaintainOneKeeps ==
  ASSUME GrowthInv, GrowthParameters, MaintainOne
  PROVE  GrowthInv'
<1>1. /\ Running /\ inflight = None /\ UNCHANGED <<reward, accepted>>
      /\ Fits(state, reward)
  BY DEF MaintainOne, GrowthInv, Running
<1>2. ASSUME UNCHANGED <<state, saved, failures, chain>>,
             inflight' = "prompt" \/ inflight' \in KnownAcolytes(state)
      PROVE  GrowthInv'
  <2>1. KnownAcolytes(state) = {b \in Address : state'.records[b] # None}
    BY <1>2 DEF KnownAcolytes
  <2>2. inflight' \notin {None, "prompt"} => state' # None /\ inflight' \in KnownAcolytes(state)
    BY <1>1, <1>2 DEF Running
  <2>3. /\ ChainSound(journal', allocated', payments', mined')
        /\ InboxesApart /\ failures' = 0 => (state' # None => state' = saved') /\ Backed(saved', accepted', journal')
    BY <1>1, <1>2 DEF GrowthInv, chain
  <2>4. /\ reward' \in Reward /\ (state' # None => Fits(state', reward'))
        /\ Fits(saved', reward') /\ accepted' \in [Address -> SUBSET Address] /\ failures' \in Nat
    BY <1>1, <1>2 DEF GrowthInv
  <2>. QED BY <2>1, <2>2, <2>3, <2>4 DEF GrowthInv, KnownAcolytes
<1>3. CASE PromptReady /\ state.prompt = "pending"
  <2>1. inflight' = "prompt" /\ UNCHANGED <<state, saved, failures, chain>>
    BY <1>3 DEF MaintainOne, Hand
  <2>. QED BY <1>2, <2>1
<1>4. CASE ~(PromptReady /\ state.prompt = "pending") /\ Notices # {}
  <2>1. (\E a \in Notices : inflight' = a) /\ UNCHANGED <<state, saved, failures, chain>>
    BY <1>4 DEF MaintainOne, Hand
  <2>2. inflight' \in KnownAcolytes(state) BY <2>1 DEF Notices
  <2>. QED BY <1>2, <2>1, <2>2
<1>5. CASE ~(PromptReady /\ state.prompt = "pending") /\ Notices = {} /\ DueRewards # {}
  <2>1. PICK a \in DueRewards :
          IF state.records[a].phase = "OnboardingComplete"
          THEN /\ Persist([state EXCEPT !.records[a].phase = "RewardPending"])
               /\ UNCHANGED <<inflight, chain, crashes>>
          ELSE ReconcileReward(a) /\ UNCHANGED mined
    BY <1>5 DEF MaintainOne
  <2>2. a \in KnownAcolytes(state) BY DEF DueRewards
  <2>3. CASE state.records[a].phase = "OnboardingComplete"
    <3>. DEFINE next == [state EXCEPT !.records[a].phase = "RewardPending"]
    <3>1. Persist(next) /\ UNCHANGED <<inflight, chain>> BY <2>1, <2>3
    <3>2. Keeps(next, state, reward) BY <1>1, <2>2, <2>3, PreparedKeeps
    <3>. HIDE DEF next
    <3>. QED BY <1>1, <3>1, <3>2, PersistInv
  <2>4. CASE state.records[a].phase # "OnboardingComplete"
    BY <1>1, <1>5, <2>1, <2>4, ReconcileRewardKeeps
  <2>. QED BY <2>3, <2>4
<1>6. CASE ~(PromptReady /\ state.prompt = "pending") /\ Notices = {} /\ DueRewards = {}
  <2>. DEFINE next == [state EXCEPT !.prompt = "pending"]
  <2>1. /\ Persist(next) /\ inflight' = (IF saved' = state' THEN "prompt" ELSE None)
        /\ UNCHANGED chain
    BY <1>6 DEF MaintainOne, Hand
  <2>2. Keeps(next, state, reward) BY <1>1, PromptedKeeps
  <2>. HIDE DEF next
  <2>3. inflight' \in {None, "prompt"} BY <2>1
  <2>. QED BY <1>1, <2>1, <2>2, <2>3, PersistInv
<1>. QED BY <1>3, <1>4, <1>5, <1>6

\* Due rewards wait for an active registration.
LEMMA DeferDueKeeps ==
  ASSUME GrowthInv, GrowthParameters, DeferDue
  PROVE  GrowthInv'
<1>. DEFINE next == [state EXCEPT !.records =
                       [a \in Address |-> IF a \in DueRewards
                                          THEN [@[a] EXCEPT !.next_attempt = "later"] ELSE @[a]]]
<1>1. /\ Running /\ Persist(next) /\ UNCHANGED <<reward, inflight, chain, accepted>>
  BY DEF DeferDue, world
<1>2. Keeps(next, state, reward) BY <1>1, DeferredKeeps DEF GrowthInv, Running
<1>. HIDE DEF next
<1>. QED BY <1>1, <1>2, PersistInv

\* A notice is delivered or not.
LEMMA AcknowledgeDeliveryKeeps ==
  ASSUME GrowthInv, GrowthParameters, NEW delivered \in BOOLEAN, AcknowledgeDelivery(delivered)
  PROVE  GrowthInv'
<1>1. Running /\ inflight # None /\ inflight' = None /\ UNCHANGED <<reward, chain, accepted>>
  BY DEF AcknowledgeDelivery, world
<1>2. Fits(state, reward) /\ state \in Snapshot BY <1>1 DEF GrowthInv, Running, Fits
<1>3. CASE inflight = "prompt" /\ state.prompt = "pending"
  <2>. DEFINE p == IF delivered THEN "idle" ELSE state.prompt
              next == [state EXCEPT !.prompt = p]
  <2>1. Persist(next) BY <1>3 DEF AcknowledgeDelivery
  <2>2. p \in {"idle", "due", "pending"} BY <1>2 DEF Snapshot
  <2>. HIDE DEF p
  <2>3. Keeps(next, state, reward) BY <1>2, <2>2, PromptedKeeps
  <2>. HIDE DEF next
  <2>. QED BY <1>1, <2>1, <2>3, PersistInv
<1>4. CASE inflight = "prompt" /\ state.prompt # "pending"
  <2>1. UNCHANGED <<state, saved, failures>> BY <1>4 DEF AcknowledgeDelivery
  <2>. QED BY <1>1, <2>1 DEF GrowthInv, chain
<1>5. CASE inflight # "prompt"
  <2>. DEFINE r == state.records[inflight]
              next == Update(inflight, IF delivered THEN Told(r) ELSE r)
  <2>1. inflight \in KnownAcolytes(state) BY <1>1, <1>5 DEF GrowthInv
  <2>2. Persist(next) BY <1>5 DEF AcknowledgeDelivery, Told
  <2>3. Keeps(next, state, reward)
    <3>1. CASE delivered BY <1>2, <2>1, <3>1, ToldKeeps
    <3>2. CASE ~delivered
      <4>1. r \in Record BY <1>2, <2>1, KnownRecord
      <4>2. PhaseFits(r)
        <5>1. RecordSound(state, inflight, reward) BY <1>2, <2>1 DEF Fits
        <5>. QED BY <5>1 DEF RecordSound
      <4>3. Keeps(Update(inflight, r), state, reward) BY <1>2, <2>1, <4>1, <4>2, UpdateKeeps
      <4>. QED BY <3>2, <4>3
    <3>. QED BY <3>1, <3>2
  <2>. HIDE DEF next
  <2>. QED BY <1>1, <2>2, <2>3, PersistInv
<1>. QED BY <1>3, <1>4, <1>5

\* The waiting transaction is mined.
LEMMA MineKeeps ==
  ASSUME GrowthInv, Mine
  PROVE  GrowthInv'
<1>1. /\ mined < Len(payments) /\ mined' = mined + 1 /\ allocated' = None
      /\ UNCHANGED <<state, saved, reward, accepted, inflight, journal, payments, failures>>
  BY DEF Mine
<1>2. ChainSound(journal, None, payments, mined + 1) BY <1>1, MineSound DEF GrowthInv
<1>. QED BY <1>1, <1>2 DEF GrowthInv

\* Time passes for memory and disk alike.
LEMMA TimePassesKeeps ==
  ASSUME GrowthInv, GrowthParameters, TimePasses
  PROVE  GrowthInv'
<1>1. /\ Running /\ state' = Aged(state) /\ saved' = Aged(saved)
      /\ UNCHANGED <<reward, accepted, inflight, failures, chain>>
  BY DEF TimePasses, world
<1>2. Keeps(Aged(state), state, reward) /\ Keeps(Aged(saved), saved, reward)
  BY <1>1, AgedKeeps DEF GrowthInv, Running
<1>3. Aged(state) # None BY <1>2 DEF Keeps, Fits, GrowthParameters
<1>4. \A a \in KnownAcolytes(state) : a \in KnownAcolytes(Aged(state))
  BY <1>2 DEF Keeps, Continues
<1>5. KnownAcolytes(Aged(state)) = {b \in Address : state'.records[b] # None}
  BY <1>1 DEF KnownAcolytes
<1>6. inflight' \notin {None, "prompt"} => inflight' \in KnownAcolytes(Aged(state))
  BY <1>1, <1>4 DEF GrowthInv
<1>7. InboxesApart /\ failures' = 0 => state' = saved' /\ Backed(saved', accepted', journal')
  <2>. SUFFICES ASSUME InboxesApart, failures = 0
                PROVE  state' = saved' /\ Backed(saved', accepted', journal')
    BY <1>1
  <2>1. state = saved /\ Backed(saved, accepted, journal) BY <1>1 DEF GrowthInv, Running
  <2>2. journal \in [Address -> Entry \cup {None}] BY DEF GrowthInv, ChainSound
  <2>3. Backed(Aged(saved), accepted, journal) BY <1>2, <2>1, <2>2, BackedOn DEF Keeps
  <2>. QED BY <1>1, <2>1, <2>3 DEF chain
<1>8. /\ Fits(state', reward') /\ Fits(saved', reward') /\ state' # None
      /\ reward' \in Reward /\ accepted' \in [Address -> SUBSET Address] /\ failures' \in Nat
      /\ ChainSound(journal', allocated', payments', mined')
  BY <1>1, <1>2, <1>3 DEF GrowthInv, Keeps, chain
<1>. QED BY <1>5, <1>6, <1>7, <1>8 DEF GrowthInv, KnownAcolytes

\* The runtime opens with the configured amount.
LEMMA OpenKeeps ==
  ASSUME GrowthInv, GrowthParameters, NEW amount \in Reward, Open(amount)
  PROVE  GrowthInv'
<1>1. /\ state = None /\ ValidSnapshot(Migrated(amount), amount) /\ reward' = amount
      /\ state' = Migrated(amount) /\ saved' = Migrated(amount)
      /\ UNCHANGED <<accepted, inflight, failures, chain>>
  BY DEF Open, world, Running
<1>2. Fits(Migrated(amount), amount) /\ Continues(saved, Migrated(amount))
  BY <1>1, MigratedKeeps DEF GrowthInv
<1>3. inflight' \in {None, "prompt"} BY <1>1 DEF GrowthInv
<1>4. InboxesApart /\ failures' = 0 => Backed(saved', accepted', journal')
  <2>. SUFFICES ASSUME InboxesApart, failures = 0 PROVE Backed(saved', accepted', journal') BY <1>1
  <2>1. Backed(saved, accepted, journal) BY DEF GrowthInv
  <2>2. journal \in [Address -> Entry \cup {None}] BY DEF GrowthInv, ChainSound
  <2>3. Backed(Migrated(amount), accepted, journal) BY <1>2, <2>1, <2>2, BackedOn
  <2>. QED BY <1>1, <2>3 DEF chain
<1>5. /\ Fits(state', reward') /\ Fits(saved', reward') /\ reward' \in Reward
      /\ accepted' \in [Address -> SUBSET Address] /\ failures' \in Nat
      /\ ChainSound(journal', allocated', payments', mined')
  BY <1>1, <1>2 DEF GrowthInv, chain
<1>. QED BY <1>1, <1>3, <1>4, <1>5 DEF GrowthInv

\* The remaining steps touch neither snapshot nor journal.
LEMMA RestKeeps ==
  ASSUME GrowthInv, Crash \/ Fund \/ UNCHANGED growthVars
  PROVE  GrowthInv'
<1>1. CASE Crash BY <1>1 DEF Crash, GrowthInv, chain
<1>2. CASE Fund BY <1>2 DEF Fund, GrowthInv, chain
<1>3. CASE UNCHANGED growthVars BY <1>3 DEF growthVars, GrowthInv, chain
<1>. QED BY <1>1, <1>2, <1>3

\* The empty snapshot is sound.
LEMMA InitGrowth ==
  ASSUME GrowthInit, GrowthParameters
  PROVE  GrowthInv
<1>1. /\ state = Fresh /\ saved = Fresh /\ reward \in Reward
      /\ accepted = [a \in Address |-> {}] /\ inflight = None
      /\ journal = [a \in Address |-> None] /\ allocated = None
      /\ payments = <<>> /\ mined = 0 /\ failures = 0
  BY DEF GrowthInit
<1>2. /\ Fresh.records = [a \in Address |-> None] /\ Fresh.operators = [a \in Address |-> None]
      /\ Fresh.operator = None /\ Fresh \in Snapshot
  BY DEF Fresh, Snapshot
<1>3. KnownAcolytes(Fresh) = {} BY <1>2 DEF KnownAcolytes
<1>4. Fits(Fresh, reward)
  <2>1. IsFiniteSet({}) /\ Cardinality({}) = 0 BY FS_EmptySet
  <2>2. IsFiniteSet(KnownAcolytes(Fresh)) /\ Cardinality(KnownAcolytes(Fresh)) <= MAX_RECORDS
    <3>1. MAX_RECORDS \in Nat BY DEF GrowthParameters
    <3>. QED BY <1>3, <2>1, <3>1
  <2>3. OperatorsSound(Fresh)
    <3>1. minter \in Address BY DEF GrowthParameters
    <3>. QED BY <1>2, <3>1 DEF OperatorsSound
  <2>4. OwnInboxes(Fresh) BY <1>3 DEF OwnInboxes
  <2>. QED BY <1>2, <1>3, <2>2, <2>3, <2>4 DEF Fits
<1>5. ChainSound(journal, allocated, payments, mined)
  BY <1>1 DEF ChainSound
<1>6. Backed(saved, accepted, journal) BY <1>1 DEF Backed
<1>. QED BY <1>1, <1>4, <1>5, <1>6 DEF GrowthInv

\* No step breaks the invariant.
LEMMA NextGrowth ==
  ASSUME GrowthInv, GrowthParameters, [GrowthNext]_growthVars
  PROVE  GrowthInv'
<1>1. ASSUME NEW u \in ContactUses,
             \/ MarkContact(u[1], u[2]) \/ MarkOnboardingComplete(u[1], u[2])
             \/ NoteBrandingState(u[1], u[2])
             \/ \E r \in Address : HandleControl(u[1], u[2], r)
      PROVE  GrowthInv'
  BY <1>1, MarkContactKeeps, MarkOnboardingCompleteKeeps, NoteBrandingStateKeeps,
     HandleControlKeeps
<1>2. ASSUME NEW u \in OperatorUses, RegisterOperator(u[1], u[2]) PROVE GrowthInv'
  BY <1>2, RegisterOperatorKeeps
<1>3. CASE MaintainOne \/ DeferDue BY <1>3, MaintainOneKeeps, DeferDueKeeps
<1>4. CASE \E delivered \in BOOLEAN : AcknowledgeDelivery(delivered)
  BY <1>4, AcknowledgeDeliveryKeeps
<1>5. CASE \E allowed \in BOOLEAN : ReminderPreferences(allowed)
  BY <1>5, ReminderPreferencesKeeps
<1>6. CASE Mine BY <1>6, MineKeeps
<1>7. CASE TimePasses BY <1>7, TimePassesKeeps
<1>8. CASE Fund \/ Crash \/ UNCHANGED growthVars BY <1>8, RestKeeps
<1>9. CASE \E amount \in Reward : Open(amount) BY <1>9, OpenKeeps
<1>. QED BY <1>1, <1>2, <1>3, <1>4, <1>5, <1>6, <1>7, <1>8, <1>9 DEF GrowthNext

\* The growth runtime and its signer stay sound together: snapshots hold only what
\* the validation accepts and people that can be reached, and every transaction is
\* the one its Acolyte's journal reserved the nonce for.
THEOREM GrowthSound == GrowthSpec => []GrowthInv
<1>1. GrowthInit => GrowthInv BY InitGrowth, GrowthAssumption
<1>2. GrowthInv /\ [GrowthNext]_growthVars => GrowthInv' BY NextGrowth, GrowthAssumption
<1>. QED BY <1>1, <1>2, PTL DEF GrowthSpec

\* Where nobody shares an inbox with another wallet and leaves it, no order of
\* contacts, moves, rebindings, bounties and restarts makes a snapshot that save or
\* open refuses.
THEOREM SnapshotSavableHolds ==
  InboxesApart => (GrowthSpec => []SnapshotSavable)
<1>. SUFFICES ASSUME InboxesApart PROVE GrowthSpec => []SnapshotSavable
  OBVIOUS
<1>1. GrowthInv => SnapshotSavable
  BY FitsIsValid DEF GrowthInv, SnapshotSavable, Running
<1>2. GrowthSpec => []GrowthInv BY GrowthSound
<1>. QED BY <1>1, <1>2, PTL

\* Two transactions of one Acolyte would have its one journalled nonce.
LEMMA OneTransfer ==
  ASSUME GrowthInv
  PROVE  PaidOnce
<1>1. payments \in Seq(Transfer) /\ journal \in [Address -> Entry \cup {None}]
  BY DEF GrowthInv, ChainSound
<1>2. ASSUME NEW m \in DOMAIN payments, NEW n \in DOMAIN payments,
             payments[m].acolyte = payments[n].acolyte
      PROVE  m = n
  <2>1. /\ journal[payments[m].acolyte].nonce + 1 = m
        /\ journal[payments[n].acolyte].nonce + 1 = n
    BY DEF GrowthInv, ChainSound
  <2>. QED BY <1>2, <2>1
<1>. QED BY <1>2 DEF PaidOnce

\* "one acolyte can never create two rewards": whatever is lost, fails to be saved
\* or crashes, and whoever shares an inbox, the signer broadcasts one transaction
\* for an Acolyte at most.
THEOREM PaidOnceHolds == GrowthSpec => []PaidOnce
<1>1. GrowthSpec => []GrowthInv BY GrowthSound
<1>2. GrowthInv => PaidOnce BY OneTransfer
<1>. QED BY <1>1, <1>2, PTL

\* As long as no save has failed for want of disk, what was acknowledged to an
\* Acolyte and what is paid for it is the referrer and the amount on disk.
THEOREM PaidAsPinned ==
  InboxesApart => (GrowthSpec => [](failures = 0 => BountyAsPinned))
<1>. SUFFICES ASSUME InboxesApart
              PROVE  GrowthSpec => [](failures = 0 => BountyAsPinned)
  OBVIOUS
<1>1. ASSUME GrowthInv, failures = 0 PROVE BountyAsPinned
  <2>1. Backed(saved, accepted, journal) BY <1>1 DEF GrowthInv
  <2>2. /\ payments \in Seq(Transfer) /\ journal \in [Address -> Entry \cup {None}]
        /\ accepted \in [Address -> SUBSET Address] /\ Fits(saved, reward)
    BY <1>1 DEF GrowthInv, ChainSound
  <2>3. ASSUME NEW a \in Address PROVE Cardinality(accepted[a]) <= 1
    <3>1. CASE accepted[a] = {} BY <3>1, FS_EmptySet
    <3>2. CASE accepted[a] # {}
      <4>1. accepted[a] = {saved.records[a].referrer} BY <2>1, <3>2 DEF Backed
      <4>2. Cardinality({saved.records[a].referrer}) = 1 BY FS_Singleton
      <4>. QED BY <4>1, <4>2
    <3>. QED BY <3>1, <3>2
  <2>4. ASSUME NEW n \in DOMAIN payments
        PROVE  LET r == saved.records[payments[n].acolyte] IN
                 /\ r # None /\ r.onboarded
                 /\ r.referrer = payments[n].referrer /\ r.amount = payments[n].amount
                 /\ accepted[payments[n].acolyte] \subseteq {r.referrer}
    <3>. DEFINE a == payments[n].acolyte
                r == saved.records[a]
    <3>1. a \in Address
      <4>1. payments[n] \in Transfer BY <2>2
      <4>. QED BY <4>1 DEF Transfer
    <3>2. /\ journal[a] # None /\ journal[a].referrer = payments[n].referrer
          /\ journal[a].amount = payments[n].amount
      BY <1>1 DEF GrowthInv, ChainSound
    <3>3. /\ a \in KnownAcolytes(saved) /\ r.phase \notin Unrewarded
          /\ r.referrer = journal[a].referrer /\ r.amount = journal[a].amount
      BY <2>1, <3>1, <3>2 DEF Backed
    <3>4. accepted[a] \subseteq {r.referrer} BY <2>1, <3>1 DEF Backed
    <3>5. r # None BY <3>3 DEF KnownAcolytes
    <3>6. r.onboarded
      <4>1. RecordSound(saved, a, reward) BY <2>2, <3>3 DEF Fits
      <4>. QED BY <3>3, <4>1 DEF RecordSound, PhaseFits, Unrewarded
    <3>. QED BY <3>2, <3>3, <3>4, <3>5, <3>6
  <2>5. PaidOnce BY <1>1, OneTransfer
  <2>. QED BY <2>3, <2>4, <2>5 DEF BountyAsPinned, PaidOnce
<1>2. GrowthSpec => []GrowthInv BY GrowthSound
<1>. QED BY <1>1, <1>2, PTL
=============================================================================
