--------------------------- MODULE BrandingTraits ---------------------------
(***************************************************************************)
(* The owner-selected traits and avatar of one branding in                 *)
(* CthuwuAcolyteBranding.sol.  The contract keeps an array of traits and a *)
(* map from a trait's name to its array position plus one; removal moves   *)
(* the last trait into the hole.  The hash of a name is the name (keccak   *)
(* does not collide), and the byte-length limits on strings are left out:  *)
(* Names and Values hold strings within them.  A purchase or a claim       *)
(* changes the owner between calls and leaves the traits alone.            *)
(***************************************************************************)
EXTENDS Integers, Sequences, FiniteSets, FiniteSetTheorems, SequenceTheorems, TLAPS

CONSTANTS
  Names,        \* trait names of at most MAX_TRAIT_TYPE_BYTES, not empty
  Values,       \* trait values and avatar URIs within their limits
  Owners,       \* the wallets that may own the branding
  Absent,       \* no value
  MAX_TRAITS

ASSUME TraitsAssumption == Absent \notin Values /\ MAX_TRAITS \in Nat

VARIABLES
  owner,        \* ERC-721 ownership, decided in Branding
  avatar,       \* _avatarUris
  traits,       \* _customTraits
  indexes,      \* _customTraitIndexes: array position plus one, zero if none
  call          \* history: the last trait call, by name and arguments

traitsVars == <<owner, avatar, traits, indexes, call>>

TraitsInit ==
  /\ owner \in Owners
  /\ avatar = Absent
  /\ traits = <<>>
  /\ indexes = [n \in Names |-> 0]
  /\ call = <<>>

\* setAvatarURI: a URI, or the empty string that clears it.
SetAvatarURI(sender, uri) ==
  /\ sender = owner
  /\ avatar' = uri
  /\ UNCHANGED <<owner, traits, indexes, call>>

\* setCustomTrait: push a new name, or replace the value of a known one.
SetCustomTrait(sender, n, v) ==
  /\ sender = owner
  /\ \/ /\ indexes[n] = 0
        /\ Len(traits) < MAX_TRAITS
        /\ traits' = Append(traits, [traitType |-> n, value |-> v])
        /\ indexes' = [indexes EXCEPT ![n] = Len(traits) + 1]
     \/ /\ indexes[n] # 0
        /\ traits[indexes[n]].traitType = n
        /\ traits' = [traits EXCEPT ![indexes[n]].value = v]
        /\ UNCHANGED indexes
  /\ call' = <<"set", n, v>>
  /\ UNCHANGED <<owner, avatar>>

\* Seeded fault in Reindexed: the moved trait keeps its old position.
ReindexedStale(n) == [indexes EXCEPT ![n] = 0]

\* The index after a removal: the last trait, if it moved, has a new place.
Reindexed(n) ==
  LET moved == traits[Len(traits)].traitType
  IN  IF indexes[n] # Len(traits)
      THEN [indexes EXCEPT ![moved] = indexes[n], ![n] = 0]
      ELSE [indexes EXCEPT ![n] = 0]

\* Seeded fault in RemoveCustomTrait: the array is popped and nothing is moved.
RemoveCustomTraitPops(sender, n) ==
  /\ sender = owner
  /\ indexes[n] # 0
  /\ traits' = SubSeq(traits, 1, Len(traits) - 1)
  /\ indexes' = [indexes EXCEPT ![traits[Len(traits)].traitType] = 0]
  /\ call' = <<"remove", n>>
  /\ UNCHANGED <<owner, avatar>>

\* removeCustomTrait: the last trait fills the hole, then the array is popped.
RemoveCustomTrait(sender, n) ==
  /\ sender = owner
  /\ indexes[n] # 0
  /\ traits' = SubSeq([traits EXCEPT ![indexes[n]] = traits[Len(traits)]],
                      1, Len(traits) - 1)
  /\ indexes' = Reindexed(n)
  /\ call' = <<"remove", n>>
  /\ UNCHANGED <<owner, avatar>>

\* buy or claimUnserved hands the branding to another wallet.
ChangeOwner(next) ==
  /\ next # owner
  /\ owner' = next
  /\ UNCHANGED <<avatar, traits, indexes, call>>

TraitsNext ==
  \/ \E sender \in Owners :
       \/ \E uri \in Values \cup {Absent} : SetAvatarURI(sender, uri)
       \/ \E n \in Names, v \in Values : SetCustomTrait(sender, n, v)
       \/ \E n \in Names : RemoveCustomTrait(sender, n)
  \/ \E next \in Owners : ChangeOwner(next)

TraitsSpec == TraitsInit /\ [][TraitsNext]_traitsVars

-----------------------------------------------------------------------------
(* Properties. *)

\* Array and index agree in both directions: a name is indexed exactly where
\* its trait is stored, so no trait is lost, doubled or left unreachable by
\* any sequence of replacements and removals.
IndexAgrees ==
  /\ \A n \in Names : indexes[n] # 0 =>
       /\ indexes[n] \in 1..Len(traits)
       /\ traits[indexes[n]].traitType = n
  /\ \A i \in 1..Len(traits) : indexes[traits[i].traitType] = i

\* The traits as a map: the first entry of that name, as tokenURI lists them.
AsMap ==
  [n \in Names |->
     IF \E i \in DOMAIN traits : traits[i].traitType = n
     THEN traits[CHOOSE i \in DOMAIN traits : traits[i].traitType = n].value
     ELSE Absent]

\* The abstract map, with the array seen as one.
Map == INSTANCE TraitMap WITH map <- AsMap

\* The array and its index implement a bounded map: a call sets or removes
\* exactly the trait it names, and a removal always frees a place.
ImplementsMap == Map!Spec

-----------------------------------------------------------------------------
(* The refinement, proved.  The index determines the array seen as a map.  *)

Trait == [traitType: Names, value: Values]

\* IndexAgrees of the array ts and the index ix.
Agree(ts, ix) ==
  /\ ts \in Seq(Trait) /\ ix \in [Names -> Nat]
  /\ \A n \in Names : ix[n] # 0 => ix[n] \in 1..Len(ts) /\ ts[ix[n]].traitType = n
  /\ \A i \in 1..Len(ts) : ix[ts[i].traitType] = i

\* The value of a name, looked up by its index.
LookedUp(ts, ix) == [n \in Names |-> IF ix[n] # 0 THEN ts[ix[n]].value ELSE Absent]

TraitsInv == Agree(traits, indexes)

\* The array of a contract, entry by entry.
LEMMA TraitsFacts ==
  ASSUME NEW ts, NEW ix, Agree(ts, ix)
  PROVE  /\ Len(ts) \in Nat /\ DOMAIN ts = 1..Len(ts)
         /\ \A i \in 1..Len(ts) :
              ts[i] \in Trait /\ ts[i].traitType \in Names /\ ts[i].value \in Values
  <1>1. /\ Len(ts) \in Nat /\ DOMAIN ts = 1..Len(ts)
        /\ \A i \in 1..Len(ts) : ts[i] \in Trait
    BY LenProperties, ElementOfSeq DEF Agree
  <1>2. \A t \in Trait : t.traitType \in Names /\ t.value \in Values
    BY DEF Trait
  <1> QED
    BY <1>1, <1>2

\* The first entry of a name is the one its index points to.
LEMMA FirstIsIndexed ==
  ASSUME NEW ts, NEW ix, Agree(ts, ix)
  PROVE  [n \in Names |->
            IF \E i \in DOMAIN ts : ts[i].traitType = n
            THEN ts[CHOOSE i \in DOMAIN ts : ts[i].traitType = n].value
            ELSE Absent] = LookedUp(ts, ix)
  <1>1. Len(ts) \in Nat /\ DOMAIN ts = 1..Len(ts)
    BY TraitsFacts
  <1>2. ASSUME NEW n \in Names
        PROVE  (IF \E i \in DOMAIN ts : ts[i].traitType = n
                THEN ts[CHOOSE i \in DOMAIN ts : ts[i].traitType = n].value
                ELSE Absent) = (IF ix[n] # 0 THEN ts[ix[n]].value ELSE Absent)
    <2>1. CASE ix[n] # 0
      <3>1. ix[n] \in DOMAIN ts /\ ts[ix[n]].traitType = n
        BY <1>1, <2>1 DEF Agree
      <3>2. \A i \in DOMAIN ts : ts[i].traitType = n => i = ix[n]
        BY <1>1 DEF Agree
      <3>3. (CHOOSE i \in DOMAIN ts : ts[i].traitType = n) = ix[n]
        BY <3>1, <3>2
      <3> QED
        BY <2>1, <3>1, <3>3, Zenon
    <2>2. CASE ix[n] = 0
      <3>1. \A i \in DOMAIN ts : ts[i].traitType # n
        BY <1>1, <2>2 DEF Agree
      <3> QED
        BY <2>2, <3>1, Zenon
    <2> QED
      BY <2>1, <2>2
  <1> QED
    BY <1>2, Zenon DEF LookedUp

LEMMA MapIsLookedUp ==
  /\ TraitsInv => AsMap = LookedUp(traits, indexes)
  /\ TraitsInv' => AsMap' = LookedUp(traits', indexes')
  BY FirstIsIndexed, Zenon DEF TraitsInv, AsMap

\* The named traits are as many as the array is long.
LEMMA NamedAreStored ==
  ASSUME NEW ts, NEW ix, Agree(ts, ix)
  PROVE  LET named == {n \in Names : LookedUp(ts, ix)[n] # Absent}
         IN /\ \A n \in Names : n \in named <=> ix[n] # 0
            /\ Cardinality(named) = Len(ts)
  <1> DEFINE named == {n \in Names : LookedUp(ts, ix)[n] # Absent}
             f == [i \in 1..Len(ts) |-> ts[i].traitType]
  <1>1. \A n \in Names : n \in named <=> ix[n] # 0
    BY TraitsFacts, TraitsAssumption DEF LookedUp, Agree
  <1> HIDE DEF named
  <1>2. named \subseteq Names
    BY DEF named
  <1>3. \A i \in 1..Len(ts) : ts[i].traitType \in Names /\ ix[ts[i].traitType] = i
    BY TraitsFacts DEF Agree
  <1>4. \A n \in named : ix[n] \in 1..Len(ts) /\ ts[ix[n]].traitType = n
    BY <1>1, <1>2 DEF Agree
  <1>5. \A i \in 1..Len(ts) : ts[i].traitType \in named
    BY <1>1, <1>3, TraitsFacts
  <1>6. f \in Bijection(1..Len(ts), named)
    BY <1>3, <1>4, <1>5 DEF Bijection, Injection, Surjection, IsInjective
  <1>7. IsFiniteSet(1..Len(ts)) /\ Cardinality(1..Len(ts)) = Len(ts)
    <2>1. Len(ts) \in Nat
      BY TraitsFacts
    <2> QED
      BY <2>1, FS_Interval
  <1>8. Cardinality(named) = Cardinality(1..Len(ts))
    BY <1>6, <1>7, FS_Bijection DEF ExistsBijection
  <1> QED
    BY <1>1, <1>7, <1>8 DEF named

Pushed(ts, n, v) == Append(ts, [traitType |-> n, value |-> v])
Indexed(ix, n, k) == [ix EXCEPT ![n] = k]
Stored(ts, i, v) == [ts EXCEPT ![i].value = v]

\* A new trait gets the next position.
LEMMA PushKeeps ==
  ASSUME NEW ts, NEW ix, Agree(ts, ix), NEW n \in Names, NEW v \in Values, ix[n] = 0
  PROVE  /\ Agree(Pushed(ts, n, v), Indexed(ix, n, Len(ts) + 1))
         /\ LookedUp(Pushed(ts, n, v), Indexed(ix, n, Len(ts) + 1))
              = [LookedUp(ts, ix) EXCEPT ![n] = v]
  <1> DEFINE t == [traitType |-> n, value |-> v]
             m == Len(ts)
             longer == Append(ts, t)
             reindexed == [ix EXCEPT ![n] = m + 1]
  <1>1. t \in Trait /\ t.traitType = n /\ t.value = v
    BY DEF Trait
  <1> HIDE DEF t
  <1>2. /\ ts \in Seq(Trait) /\ m \in Nat /\ ix \in [Names -> Nat]
        /\ \A i \in 1..m : ts[i].traitType \in Names /\ ix[ts[i].traitType] = i
        /\ \A q \in Names : ix[q] # 0 => ix[q] \in 1..m /\ ts[ix[q]].traitType = q
    BY TraitsFacts DEF Agree
  <1> HIDE DEF m
  <1>3. /\ longer \in Seq(Trait) /\ Len(longer) = m + 1
        /\ \A i \in 1..m : longer[i] = ts[i]
        /\ longer[m + 1] = t
    BY <1>1, <1>2, AppendProperties DEF m
  <1>4. /\ reindexed \in [Names -> Nat] /\ reindexed[n] = m + 1
        /\ \A q \in Names : q # n => reindexed[q] = ix[q]
    BY <1>2
  <1> HIDE DEF longer, reindexed
  <1>5. ASSUME NEW q \in Names, reindexed[q] # 0
        PROVE  reindexed[q] \in 1..(m + 1) /\ longer[reindexed[q]].traitType = q
    <2>1. CASE q = n
      BY <1>1, <1>2, <1>3, <1>4, <2>1
    <2>2. CASE q # n
      BY <1>2, <1>3, <1>4, <1>5, <2>2
    <2> QED
      BY <2>1, <2>2
  <1>6. ASSUME NEW i \in 1..(m + 1)
        PROVE  reindexed[longer[i].traitType] = i
    <2>1. CASE i = m + 1
      BY <1>1, <1>3, <1>4, <2>1
    <2>2. CASE i \in 1..m
      <3>1. ts[i].traitType # n
        BY <1>2, <2>2
      <3> QED
        BY <1>2, <1>3, <1>4, <2>2, <3>1
    <2>3. i = m + 1 \/ i \in 1..m
      BY <1>2
    <2> QED
      BY <2>1, <2>2, <2>3
  <1>7. Agree(longer, reindexed)
    BY <1>3, <1>4, <1>5, <1>6 DEF Agree
  <1>8. ASSUME NEW q \in Names
        PROVE  LookedUp(longer, reindexed)[q] = [LookedUp(ts, ix) EXCEPT ![n] = v][q]
    <2>1. CASE q = n
      BY <1>1, <1>2, <1>3, <1>4, <2>1 DEF LookedUp
    <2>2. CASE q # n
      <3>1. ix[q] # 0 => longer[ix[q]] = ts[ix[q]]
        BY <1>2, <1>3
      <3> QED
        BY <1>4, <2>2, <3>1 DEF LookedUp
    <2> QED
      BY <2>1, <2>2
  <1>9. LookedUp(longer, reindexed) = [LookedUp(ts, ix) EXCEPT ![n] = v]
    BY <1>8 DEF LookedUp
  <1> QED
    BY <1>7, <1>9, Zenon DEF longer, reindexed, t, m, Pushed, Indexed

\* A known trait gets its value in place.
LEMMA StoreKeeps ==
  ASSUME NEW ts, NEW ix, Agree(ts, ix), NEW n \in Names, NEW v \in Values, ix[n] # 0
  PROVE  /\ Agree(Stored(ts, ix[n], v), ix)
         /\ LookedUp(Stored(ts, ix[n], v), ix) = [LookedUp(ts, ix) EXCEPT ![n] = v]
  <1> DEFINE m == Len(ts)
             p == ix[n]
             t == [ts[p] EXCEPT !.value = v]
             replaced == [ts EXCEPT ![p] = t]
  <1>1. /\ ts \in Seq(Trait) /\ m \in Nat /\ ix \in [Names -> Nat] /\ DOMAIN ts = 1..m
        /\ \A i \in 1..m : /\ ts[i] \in Trait /\ ts[i].traitType \in Names
                           /\ ix[ts[i].traitType] = i
        /\ \A q \in Names : ix[q] # 0 => ix[q] \in 1..m /\ ts[ix[q]].traitType = q
        /\ p \in 1..m
    BY TraitsFacts DEF Agree
  <1>2. t \in Trait /\ t.value = v /\ t.traitType = ts[p].traitType
    <2>1. ts[p] \in Trait
      BY <1>1
    <2> QED
      BY <2>1 DEF Trait
  <1> HIDE DEF m, t, p
  <1>3. /\ replaced \in Seq(Trait) /\ Len(replaced) = m
        /\ replaced[p] = t /\ \A i \in 1..m : i # p => replaced[i] = ts[i]
    BY <1>1, <1>2, ExceptSeq DEF m
  <1> HIDE DEF replaced
  <1>4. \A i \in 1..m : replaced[i].traitType = ts[i].traitType
    BY <1>1, <1>2, <1>3
  <1>5. Agree(replaced, ix)
    BY <1>1, <1>3, <1>4 DEF Agree
  <1>6. ASSUME NEW q \in Names
        PROVE  LookedUp(replaced, ix)[q] = [LookedUp(ts, ix) EXCEPT ![n] = v][q]
    <2>1. CASE q = n
      BY <1>2, <1>3, <2>1 DEF LookedUp, p
    <2>2. CASE q # n
      <3>1. ix[q] # 0 => ix[q] \in 1..m /\ ix[q] # p
        BY <1>1, <2>2 DEF p
      <3> QED
        BY <1>3, <2>2, <3>1 DEF LookedUp
    <2> QED
      BY <2>1, <2>2
  <1>7. LookedUp(replaced, ix) = [LookedUp(ts, ix) EXCEPT ![n] = v]
    BY <1>6 DEF LookedUp
  <1> QED
    BY <1>5, <1>7, Zenon DEF replaced, t, p, Stored

\* The last trait fills the hole, and the index follows it.
LEMMA RemoveKeeps ==
  ASSUME NEW ts, NEW ix, Agree(ts, ix), NEW n \in Names, ix[n] # 0
  PROVE  LET last == Len(ts)
             shorter == SubSeq([ts EXCEPT ![ix[n]] = ts[last]], 1, last - 1)
             moved == ts[last].traitType
             reindexed == IF ix[n] # last THEN [ix EXCEPT ![moved] = ix[n], ![n] = 0]
                          ELSE [ix EXCEPT ![n] = 0]
         IN /\ Agree(shorter, reindexed)
            /\ LookedUp(shorter, reindexed) = [LookedUp(ts, ix) EXCEPT ![n] = Absent]
  <1> DEFINE last == Len(ts)
             p == ix[n]
             filled == [ts EXCEPT ![p] = ts[last]]
             shorter == SubSeq(filled, 1, last - 1)
             moved == ts[last].traitType
             reindexed == IF p # last THEN [ix EXCEPT ![moved] = p, ![n] = 0]
                          ELSE [ix EXCEPT ![n] = 0]
  <1>1. /\ ts \in Seq(Trait) /\ last \in Nat /\ ix \in [Names -> Nat] /\ DOMAIN ts = 1..last
        /\ \A i \in 1..last : /\ ts[i] \in Trait /\ ts[i].traitType \in Names
                              /\ ix[ts[i].traitType] = i
        /\ \A q \in Names : ix[q] # 0 => ix[q] \in 1..last /\ ts[ix[q]].traitType = q
        /\ p \in 1..last /\ last \in 1..last
    BY TraitsFacts DEF Agree
  <1> HIDE DEF last
  <1>2. /\ filled \in Seq(Trait) /\ Len(filled) = last
        /\ filled[p] = ts[last] /\ \A i \in 1..last : i # p => filled[i] = ts[i]
    BY <1>1, ExceptSeq DEF last
  <1> HIDE DEF filled
  <1>3. /\ shorter \in Seq(Trait) /\ Len(shorter) = last - 1
        /\ \A i \in 1..(last - 1) : shorter[i] = filled[i]
    <2>1. \A i \in 1..(last - 1) : filled[i] \in Trait
      BY <1>1, <1>2, ElementOfSeq
    <2> QED
      BY <1>1, <2>1, SubSeqProperties
  <1> HIDE DEF shorter
  <1>4. moved \in Names /\ ix[moved] = last /\ (p # last => moved # n)
    BY <1>1
  <1>5. /\ reindexed \in [Names -> Nat] /\ reindexed[n] = 0
        /\ p # last => reindexed[moved] = p
        /\ \A q \in Names : q # n /\ q # moved => reindexed[q] = ix[q]
        /\ p = last => moved = n
    <2>1. p \in Nat /\ (p = last => moved = n)
      BY <1>1
    <2> HIDE DEF moved, p
    <2>2. CASE p # last
      BY <1>1, <1>4, <2>1, <2>2
    <2>3. CASE p = last
      BY <1>1, <1>4, <2>1, <2>3
    <2> QED
      BY <2>2, <2>3
  <1> HIDE DEF reindexed
  <1>6. ASSUME NEW q \in Names, q # n
        PROVE  IF q = moved /\ p # last THEN reindexed[q] = p
               ELSE reindexed[q] = ix[q] /\ ix[q] # last
    <2>1. ix[q] = last => q = moved
      BY <1>1
    <2> QED
      BY <1>4, <1>5, <1>6, <2>1
  <1>7. ASSUME NEW q \in Names, reindexed[q] # 0
        PROVE  /\ q # n
               /\ reindexed[q] \in 1..(last - 1)
               /\ ix[q] \in 1..last
               /\ shorter[reindexed[q]] = ts[ix[q]]
    <2>0. q # n
      BY <1>5, <1>7
    <2>1. CASE q = moved /\ p # last
      <3>1. reindexed[q] = p /\ p \in 1..(last - 1) /\ ix[q] = last
        BY <1>1, <1>4, <1>6, <2>0, <2>1
      <3>2. shorter[p] = ts[last]
        BY <1>2, <1>3, <3>1
      <3> QED
        BY <1>1, <2>0, <3>1, <3>2
    <2>2. CASE ~(q = moved /\ p # last)
      <3>1. reindexed[q] = ix[q] /\ ix[q] # last
        BY <1>6, <2>0, <2>2
      <3>2. ix[q] \in 1..(last - 1) /\ ix[q] \in 1..last /\ ix[q] # p
        BY <1>1, <1>7, <2>0, <3>1
      <3> QED
        BY <1>2, <1>3, <2>0, <3>1, <3>2
    <2> QED
      BY <2>1, <2>2
  <1>8. ASSUME NEW i \in 1..(last - 1)
        PROVE  shorter[i].traitType \in Names /\ reindexed[shorter[i].traitType] = i
    <2>0. i \in 1..last /\ i # last
      BY <1>1
    <2>1. CASE i = p
      <3>1. shorter[i].traitType = moved
        BY <1>2, <1>3, <2>1
      <3> QED
        BY <1>4, <1>5, <2>0, <2>1, <3>1
    <2>2. CASE i # p
      <3>1. shorter[i] = ts[i]
        BY <1>2, <1>3, <2>0, <2>2
      <3>2. ts[i].traitType \in Names /\ ix[ts[i].traitType] = i
        BY <1>1, <2>0
      <3>3. ts[i].traitType # n /\ ts[i].traitType # moved
        BY <1>4, <2>0, <2>2, <3>2
      <3> QED
        BY <1>5, <3>1, <3>2, <3>3
    <2> QED
      BY <2>1, <2>2
  <1>9. Agree(shorter, reindexed)
    <2>1. \A q \in Names : reindexed[q] # 0 =>
             reindexed[q] \in 1..(last - 1) /\ shorter[reindexed[q]].traitType = q
      <3>1. ASSUME NEW q \in Names, reindexed[q] # 0
            PROVE  ts[ix[q]].traitType = q
        <4>1. ix[q] # 0
          BY <1>1, <1>7, <3>1
        <4> QED
          BY <1>1, <4>1
      <3> QED
        BY <1>7, <3>1
    <2> QED
      BY <1>3, <1>5, <1>8, <2>1 DEF Agree
  <1>10. ASSUME NEW q \in Names
         PROVE  LookedUp(shorter, reindexed)[q] = [LookedUp(ts, ix) EXCEPT ![n] = Absent][q]
    <2>1. CASE q = n
      BY <1>5, <2>1 DEF LookedUp
    <2>2. CASE q # n
      <3>1. reindexed[q] = 0 <=> ix[q] = 0
        BY <1>1, <1>4, <1>6, <1>7, <2>2
      <3>2. reindexed[q] # 0 => shorter[reindexed[q]] = ts[ix[q]]
        BY <1>7
      <3>3. LookedUp(shorter, reindexed)[q] = LookedUp(ts, ix)[q]
        BY <3>1, <3>2 DEF LookedUp
      <3> QED
        BY <2>2, <3>3 DEF LookedUp
    <2> QED
      BY <2>1, <2>2
  <1>11. LookedUp(shorter, reindexed) = [LookedUp(ts, ix) EXCEPT ![n] = Absent]
    BY <1>10 DEF LookedUp
  <1> QED
    BY <1>9, <1>11 DEF reindexed, shorter, filled, last

\* The index stays exact, and each call is the call of the map it names.
LEMMA TraitsStep ==
  ASSUME TraitsInv, TraitsNext
  PROVE  /\ TraitsInv'
         /\ Map!Next \/ UNCHANGED <<AsMap, call>>
  <1>0. Agree(traits, indexes) /\ AsMap = LookedUp(traits, indexes)
    BY MapIsLookedUp DEF TraitsInv
  <1>1. /\ \A n \in Names : n \in Map!Named <=> indexes[n] # 0
        /\ Cardinality(Map!Named) = Len(traits)
    BY <1>0, NamedAreStored DEF Map!Named
  <1>2. CASE UNCHANGED <<traits, indexes, call>>
    BY <1>2 DEF TraitsInv, Agree, AsMap
  <1>3. CASE \E n \in Names, v \in Values :
               /\ indexes[n] = 0 /\ Len(traits) < MAX_TRAITS
               /\ traits' = Append(traits, [traitType |-> n, value |-> v])
               /\ indexes' = [indexes EXCEPT ![n] = Len(traits) + 1]
               /\ call' = <<"set", n, v>>
    <2>1. PICK n \in Names, v \in Values :
               /\ indexes[n] = 0 /\ Len(traits) < MAX_TRAITS
               /\ traits' = Append(traits, [traitType |-> n, value |-> v])
               /\ indexes' = [indexes EXCEPT ![n] = Len(traits) + 1]
               /\ call' = <<"set", n, v>>
      BY <1>3
    <2>2. /\ Agree(traits', indexes')
          /\ LookedUp(traits', indexes') = [LookedUp(traits, indexes) EXCEPT ![n] = v]
      <3>1. /\ Agree(Pushed(traits, n, v), Indexed(indexes, n, Len(traits) + 1))
            /\ LookedUp(Pushed(traits, n, v), Indexed(indexes, n, Len(traits) + 1))
                 = [LookedUp(traits, indexes) EXCEPT ![n] = v]
        BY <1>0, <2>1, PushKeeps
      <3>2. /\ traits' = Pushed(traits, n, v)
            /\ indexes' = Indexed(indexes, n, Len(traits) + 1)
        BY <2>1 DEF Pushed, Indexed
      <3> QED
        BY <3>1, <3>2, Zenon
    <2>3. TraitsInv'
      BY <2>2 DEF TraitsInv, Agree
    <2>4. Map!Set(n, v)
      <3>1. Map!Cardinality(Map!Named) < MAX_TRAITS
        BY <1>1, <2>1 DEF Cardinality, Map!Cardinality
      <3>2. AsMap' = [AsMap EXCEPT ![n] = v]
        BY <1>0, <2>2, <2>3, MapIsLookedUp, Zenon
      <3> QED
        BY <2>1, <3>1, <3>2, Zenon DEF Map!Set
    <2> QED
      BY <2>3, <2>4 DEF Map!Next
  <1>4. CASE \E n \in Names, v \in Values :
               /\ indexes[n] # 0
               /\ traits' = [traits EXCEPT ![indexes[n]].value = v]
               /\ indexes' = indexes
               /\ call' = <<"set", n, v>>
    <2>1. PICK n \in Names, v \in Values :
               /\ indexes[n] # 0
               /\ traits' = [traits EXCEPT ![indexes[n]].value = v]
               /\ indexes' = indexes
               /\ call' = <<"set", n, v>>
      BY <1>4
    <2>2. /\ Agree(traits', indexes')
          /\ LookedUp(traits', indexes') = [LookedUp(traits, indexes) EXCEPT ![n] = v]
      <3>1. /\ Agree(Stored(traits, indexes[n], v), indexes)
            /\ LookedUp(Stored(traits, indexes[n], v), indexes)
                 = [LookedUp(traits, indexes) EXCEPT ![n] = v]
        BY <1>0, <2>1, StoreKeeps
      <3>2. traits' = Stored(traits, indexes[n], v) /\ indexes' = indexes
        BY <2>1 DEF Stored
      <3> QED
        BY <3>1, <3>2, Zenon
    <2>3. TraitsInv'
      BY <2>2 DEF TraitsInv, Agree
    <2>4. Map!Set(n, v)
      BY <1>0, <1>1, <2>1, <2>2, <2>3, MapIsLookedUp DEF Map!Set
    <2> QED
      BY <2>3, <2>4 DEF Map!Next
  <1>5. CASE \E n \in Names :
               /\ indexes[n] # 0
               /\ traits' = SubSeq([traits EXCEPT ![indexes[n]] = traits[Len(traits)]],
                                   1, Len(traits) - 1)
               /\ indexes' = Reindexed(n)
               /\ call' = <<"remove", n>>
    <2>1. PICK n \in Names :
               /\ indexes[n] # 0
               /\ traits' = SubSeq([traits EXCEPT ![indexes[n]] = traits[Len(traits)]],
                                   1, Len(traits) - 1)
               /\ indexes' = Reindexed(n)
               /\ call' = <<"remove", n>>
      BY <1>5
    <2>2. /\ Agree(traits', indexes')
          /\ LookedUp(traits', indexes') = [LookedUp(traits, indexes) EXCEPT ![n] = Absent]
      BY <1>0, <2>1, RemoveKeeps, Zenon DEF Reindexed
    <2>3. TraitsInv'
      BY <2>2 DEF TraitsInv, Agree
    <2>4. Map!Remove(n)
      BY <1>0, <1>1, <2>1, <2>2, <2>3, MapIsLookedUp DEF Map!Remove
    <2> QED
      BY <2>3, <2>4 DEF Map!Next
  <1>6. \/ UNCHANGED <<traits, indexes, call>>
        \/ \E n \in Names, v \in Values :
             /\ indexes[n] = 0 /\ Len(traits) < MAX_TRAITS
             /\ traits' = Append(traits, [traitType |-> n, value |-> v])
             /\ indexes' = [indexes EXCEPT ![n] = Len(traits) + 1]
             /\ call' = <<"set", n, v>>
        \/ \E n \in Names, v \in Values :
             /\ indexes[n] # 0
             /\ traits' = [traits EXCEPT ![indexes[n]].value = v]
             /\ indexes' = indexes
             /\ call' = <<"set", n, v>>
        \/ \E n \in Names :
             /\ indexes[n] # 0
             /\ traits' = SubSeq([traits EXCEPT ![indexes[n]] = traits[Len(traits)]],
                                 1, Len(traits) - 1)
             /\ indexes' = Reindexed(n)
             /\ call' = <<"remove", n>>
    BY Zenon DEF TraitsNext, SetAvatarURI, SetCustomTrait, RemoveCustomTrait, ChangeOwner
  <1> QED
    BY <1>2, <1>3, <1>4, <1>5, <1>6

\* A new branding has no trait.
LEMMA TraitsStart ==
  ASSUME TraitsInit
  PROVE  TraitsInv /\ Map!Init
  <1>1. traits = <<>> /\ indexes = [n \in Names |-> 0] /\ call = <<>>
    BY DEF TraitsInit
  <1>2. traits \in Seq(Trait) /\ Len(traits) = 0
    BY <1>1, EmptySeq
  <1>3. TraitsInv
    BY <1>1, <1>2 DEF TraitsInv, Agree
  <1>4. AsMap = [n \in Names |-> Absent]
    BY <1>1, <1>3, MapIsLookedUp DEF LookedUp
  <1> QED
    BY <1>1, <1>3, <1>4 DEF Map!Init

\* Array and index agree in both directions through any sequence of replacements and
\* removals, for every limit and every set of names.
THEOREM IndexAgreesHolds == TraitsSpec => []IndexAgrees
  <1>1. TraitsInit => TraitsInv
    BY TraitsStart
  <1>2. TraitsInv /\ [TraitsNext]_traitsVars => TraitsInv'
    BY TraitsStep DEF traitsVars, TraitsInv, Agree
  <1>3. TraitsInv => IndexAgrees
    BY DEF TraitsInv, Agree, IndexAgrees
  <1> QED
    BY <1>1, <1>2, <1>3, PTL DEF TraitsSpec

\* The contract's array with its index implements a bounded map: setCustomTrait and
\* removeCustomTrait change exactly the trait they name.
THEOREM TraitsImplementMap == TraitsSpec => ImplementsMap
  <1>1. TraitsInit => TraitsInv /\ Map!Init
    BY TraitsStart
  <1>2. TraitsInv /\ [TraitsNext]_traitsVars => TraitsInv' /\ [Map!Next]_<<AsMap, call>>
    <2>1. CASE TraitsNext /\ TraitsInv
      BY <2>1, TraitsStep
    <2>2. CASE UNCHANGED traitsVars
      BY <2>2 DEF traitsVars, TraitsInv, Agree, AsMap
    <2> QED
      BY <2>1, <2>2
  <1> QED
    BY <1>1, <1>2, PTL DEF TraitsSpec, ImplementsMap, Map!Spec
=============================================================================
