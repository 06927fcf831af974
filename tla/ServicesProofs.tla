--------------------------- MODULE ServicesProofs ---------------------------
(***************************************************************************)
(* Proofs about five services of one process, each for any number of its   *)
(* clients: the Council's state store, its endpoint registry, its          *)
(* in-memory transport, and the token observer with the endpoint it reads  *)
(* through.  They share no variable and each has an inductive invariant of *)
(* its own.                                                                *)
(*                                                                         *)
(* Store: OkIsDurable compares two history counters and says nothing of    *)
(* the renames in between; IInv ties the counters to the renames still at  *)
(* risk and records that only flushed files are ever renamed.              *)
(*                                                                         *)
(* Registry: RegistrySound excepts a registry whose recorded provenance is *)
(* empty; what every update keeps is RecordsSound, which asks of all the   *)
(* records what validate_loaded_state does.                                *)
(*                                                                         *)
(* Transport: RateBounded counts messages of any window's length, while    *)
(* the code counts those of its current window only; WindowAccounts says   *)
(* what that one window tells about the length of time before it.          *)
(*                                                                         *)
(* Observer: OperationalIsTrue speaks of the last answer; EyeInv says the  *)
(* same of the view and of every read under way, whose answers may come    *)
(* back in any order.                                                      *)
(*                                                                         *)
(* Journal: JournalKeepsUp speaks of the moments between checkpoints;      *)
(* JournalInv says what a checkpoint under way knows of the files it read, *)
(* after any step of it and of everybody else at the same directory.       *)
(***************************************************************************)
EXTENDS StateStore, Registry, Transport, Donations, Workspace,
        SequenceTheorems, FiniteSetTheorems, TLAPS

-----------------------------------------------------------------------------
(* The state store *)

\* The store's variables are well formed.
TypeInv ==
  /\ started \in Nat
  /\ pc \in [Saver -> {"idle", "write", "rename", "sync"}]
  /\ value \in [Saver -> Nat]
  /\ temporary \in [Saver -> [there: BOOLEAN, synced: BOOLEAN]]
  /\ renames \in Seq([value: Nat, synced: BOOLEAN])
  /\ durable \in [value: Nat, synced: BOOLEAN]
  /\ order \in Seq(Nat)
  /\ acked \in Nat
  /\ floor \in Nat

\* A file is flushed before it is renamed.
FlushedFirst ==
  /\ \A s \in Saver : pc[s] = "rename" => temporary[s].synced
  /\ \A k \in DOMAIN renames : renames[k].synced

\* The renames at risk are exactly what was visible after the durable state.
Accounted ==
  /\ Len(order) = floor + Len(renames)
  /\ acked <= floor

\* A call past its rename finds its value among the visible ones, except
\* that a crash in between has ended it.
RenamedVisible ==
  \A s \in Saver : pc[s] = "sync" => \E k \in DOMAIN order : order[k] = value[s]

IInv == TypeInv /\ FlushedFirst /\ Accounted /\ RenamedVisible

-----------------------------------------------------------------------------
\* Every reachable state of the store satisfies the inductive invariant.
THEOREM StoreConsistent == Spec => []IInv
  <1>1. Init => IInv
    BY DEF Init, IInv, TypeInv, FlushedFirst, Accounted, RenamedVisible,
           Nowhere, NoState
  <1>2. IInv /\ [Next]_vars => IInv'
    <2> SUFFICES ASSUME IInv, [Next]_vars PROVE IInv'
      OBVIOUS
    <2>0. TypeInv /\ FlushedFirst /\ Accounted /\ RenamedVisible
      BY DEF IInv
    <2>1. ASSUME NEW s \in Saver, Create(s) PROVE IInv'
      BY <2>0, <2>1 DEF IInv, TypeInv, FlushedFirst, Accounted,
                        RenamedVisible, Create
    <2>2. ASSUME NEW s \in Saver, Write(s) PROVE IInv'
      BY <2>0, <2>2 DEF IInv, TypeInv, FlushedFirst, Accounted,
                        RenamedVisible, Write, Flushed
    <2>3. ASSUME NEW s \in Saver, Rename(s) PROVE IInv'
      <3> DEFINE r == [value |-> value[s], synced |-> temporary[s].synced]
      <3>1. r \in [value: Nat, synced: BOOLEAN] /\ r.synced
        BY <2>0, <2>3 DEF TypeInv, FlushedFirst, Rename
      <3>2. /\ renames' = Append(renames, r) /\ order' = Append(order, value[s])
            /\ temporary' = [temporary EXCEPT ![s] = Nowhere]
            /\ pc' = [pc EXCEPT ![s] = "sync"]
            /\ started' = started /\ value' = value /\ durable' = durable
            /\ acked' = acked /\ floor' = floor
        BY <2>3 DEF Rename
      <3> HIDE DEF r
      <3>3. TypeInv'
        BY <2>0, <3>1, <3>2 DEF TypeInv, Nowhere
      <3>4. /\ Len(renames') = Len(renames) + 1
            /\ Len(order') = Len(order) + 1
            /\ \A k \in 1..Len(renames) : renames'[k] = renames[k]
            /\ renames'[Len(renames) + 1] = r
            /\ \A k \in 1..Len(order) : order'[k] = order[k]
            /\ order'[Len(order) + 1] = value[s]
            /\ Len(renames) \in Nat /\ Len(order) \in Nat
        BY <2>0, <3>1, <3>2 DEF TypeInv
      <3>5. FlushedFirst'
        <4>1. \A t \in Saver : pc'[t] = "rename" => temporary'[t].synced
          BY <2>0, <3>2 DEF TypeInv, FlushedFirst
        <4>2. DOMAIN renames' = 1..(Len(renames) + 1)
                /\ DOMAIN renames = 1..Len(renames)
          BY <2>0, <3>3, <3>4 DEF TypeInv
        <4>3. \A k \in DOMAIN renames' : renames'[k].synced
          BY <2>0, <3>1, <3>4, <4>2 DEF FlushedFirst
        <4> QED
          BY <4>1, <4>3 DEF FlushedFirst
      <3>6. Accounted'
        BY <2>0, <3>2, <3>4 DEF TypeInv, Accounted
      <3>7. RenamedVisible'
        <4>1. DOMAIN order' = 1..(Len(order) + 1)
                /\ DOMAIN order = 1..Len(order)
          BY <2>0, <3>3, <3>4 DEF TypeInv
        <4>2. ASSUME NEW t \in Saver, pc'[t] = "sync"
              PROVE  \E k \in DOMAIN order' : order'[k] = value'[t]
          <5>1. CASE t = s
            BY <3>2, <3>4, <4>1, <5>1
          <5>2. CASE t # s
            <6>1. pc[t] = "sync"
              BY <2>0, <3>2, <4>2, <5>2 DEF TypeInv
            <6>2. PICK k \in DOMAIN order : order[k] = value[t]
              BY <2>0, <6>1 DEF RenamedVisible
            <6> QED
              BY <3>2, <3>4, <4>1, <6>2
          <5> QED
            BY <5>1, <5>2
        <4> QED
          BY <4>2 DEF RenamedVisible
      <3> QED
        BY <3>3, <3>5, <3>6, <3>7 DEF IInv
    <2>4. ASSUME NEW s \in Saver, Finish(s) PROVE IInv'
      <3>1. PlaceOf(s) \in DOMAIN order
        BY <2>0, <2>4 DEF RenamedVisible, Finish, PlaceOf
      <3>2. PlaceOf(s) \in Nat /\ PlaceOf(s) <= Len(order)
              /\ Len(order) \in Nat /\ Len(renames) \in Nat
        BY <2>0, <3>1 DEF TypeInv
      <3>3. Visible \in [value: Nat, synced: BOOLEAN]
        <4>1. CASE renames = <<>>
          BY <2>0, <4>1 DEF TypeInv, Visible
        <4>2. CASE renames # <<>>
          <5>1. Len(renames) \in 1..Len(renames)
            BY <2>0, <4>2 DEF TypeInv
          <5>2. renames[Len(renames)] \in [value: Nat, synced: BOOLEAN]
            BY <2>0, <5>1, ElementOfSeq DEF TypeInv
          <5> QED
            BY <4>2, <5>2 DEF Visible
        <4> QED
          BY <4>1, <4>2
      <3>4. /\ renames' = <<>> /\ durable' = Visible /\ floor' = Len(order)
            /\ acked' = (IF PlaceOf(s) > acked THEN PlaceOf(s) ELSE acked)
            /\ pc' = [pc EXCEPT ![s] = "idle"]
            /\ started' = started /\ value' = value
            /\ temporary' = temporary /\ order' = order
        BY <2>4 DEF Finish, SyncDirectory
      <3>5. TypeInv'
        BY <2>0, <3>2, <3>3, <3>4 DEF TypeInv
      <3>6. FlushedFirst' /\ RenamedVisible'
        BY <2>0, <3>4 DEF TypeInv, FlushedFirst, RenamedVisible
      <3>7. Accounted'
        BY <2>0, <3>2, <3>4 DEF TypeInv, Accounted
      <3> QED
        BY <3>5, <3>6, <3>7 DEF IInv
    <2>5. ASSUME NEW s \in Saver, Fail(s) PROVE IInv'
      BY <2>0, <2>5 DEF IInv, TypeInv, FlushedFirst, Accounted,
                        RenamedVisible, Fail, Nowhere
    <2>6. CASE Crash
      <3>1. PICK k \in 0..Len(renames) :
              /\ durable' = (IF k = 0 THEN durable
                             ELSE IF renames[k].synced THEN renames[k]
                             ELSE [value |-> Torn, synced |-> TRUE])
              /\ floor' = floor + k
              /\ order' = SubSeq(order, 1, floor + k)
        BY <2>6 DEF Crash
      <3>2. /\ renames' = <<>> /\ pc' = [s \in Saver |-> "idle"]
            /\ temporary' = [s \in Saver |-> Nowhere]
            /\ started' = started /\ value' = value /\ acked' = acked
        BY <2>6 DEF Crash
      <3>3. Len(renames) \in Nat /\ Len(order) = floor + Len(renames)
              /\ floor + k \in 0..Len(order) /\ k \in Nat
        BY <2>0 DEF TypeInv, Accounted
      <3>4. order' \in Seq(Nat) /\ Len(order') = floor + k
        BY <2>0, <3>1, <3>3, SubSeqProperties DEF TypeInv
      <3>5. durable' \in [value: Nat, synced: BOOLEAN]
        <4>1. k # 0 => k \in 1..Len(renames)
          BY <3>3
        <4>2. k # 0 => renames[k] \in [value: Nat, synced: BOOLEAN]
          BY <2>0, <4>1, ElementOfSeq DEF TypeInv
        <4>3. k # 0 => renames[k].synced
          BY <2>0, <4>1 DEF TypeInv, FlushedFirst
        <4> QED
          BY <2>0, <3>1, <4>2, <4>3 DEF TypeInv
      <3>6. TypeInv'
        BY <2>0, <3>1, <3>2, <3>3, <3>4, <3>5 DEF TypeInv, Nowhere
      <3>7. FlushedFirst' /\ RenamedVisible'
        BY <3>2 DEF FlushedFirst, RenamedVisible
      <3>8. Accounted'
        BY <2>0, <3>1, <3>2, <3>3, <3>4 DEF TypeInv, Accounted
      <3> QED
        BY <3>6, <3>7, <3>8 DEF IInv
    <2>7. CASE UNCHANGED vars
      BY <2>0, <2>7 DEF vars, IInv, TypeInv, FlushedFirst, Accounted,
                        RenamedVisible
    <2> QED
      BY <2>1, <2>2, <2>3, <2>4, <2>5, <2>6, <2>7 DEF Next
  <1> QED
    BY <1>1, <1>2, PTL DEF Spec

\* A restart never reads half a state.
THEOREM NeverTornHolds == Spec => []NeverTorn
  <1>1. IInv => NeverTorn
    BY StoreAssumption DEF IInv, TypeInv, NeverTorn
  <1> QED
    BY <1>1, StoreConsistent, PTL

\* Once save has answered Ok, no crash brings back an older state.
THEOREM OkIsDurableHolds == Spec => []OkIsDurable
  <1>1. IInv => OkIsDurable
    BY DEF IInv, TypeInv, Accounted, OkIsDurable
  <1> QED
    BY <1>1, StoreConsistent, PTL

\* What a restart reads after power loss is a whole state, and no older than the
\* last one a caller of save was told is saved.
THEOREM DurableStateHolds == Spec => []DurableState
  BY NeverTornHolds, OkIsDurableHolds, PTL DEF DurableState

-----------------------------------------------------------------------------
(* The endpoint registry *)

\* What validate_loaded_state asks of the records, provenance aside.
RecordsSound(ts) ==
  LET known == {t \in TentacleId : ts[t] # NoRecord} IN
  /\ Cardinality(known) <= MAX_AGENTS
  /\ \A t \in known : ts[t].id = t /\ Valid(ts[t])
  /\ \A t, u \in known : t # u => Inboxes(ts[t]) \cap Inboxes(ts[u]) = {}

RegistryInv ==
  /\ tentacles \in [TentacleId -> RegisteredTentacle \cup {NoRecord}]
  /\ RecordsSound(tentacles)
  /\ disk # NoRecord => disk[1] \in [TentacleId -> RegisteredTentacle \cup {NoRecord}]

\* A registry that starts is sound: it is empty, or migration has checked it.
LEMMA RegistryStarts == RegistryInit => RegistryInv
<1> USE RegistryAssumption
<1>1. ASSUME RegistryInit, tentacles = [t \in TentacleId |-> NoRecord]
      PROVE  RegistryInv
  <2>1. {t \in TentacleId : tentacles[t] # NoRecord} = {}
    BY <1>1
  <2>2. Cardinality({t \in TentacleId : tentacles[t] # NoRecord}) = 0
    BY <2>1, FS_EmptySet, Zenon
  <2>3. Cardinality({t \in TentacleId : tentacles[t] # NoRecord}) <= MAX_AGENTS
    <3>1. MAX_AGENTS \in Nat
      BY RegistryAssumption
    <3> DEFINE n == Cardinality({t \in TentacleId : tentacles[t] # NoRecord})
    <3>2. n = 0
      BY <2>2, Zenon
    <3> HIDE DEF n
    <3>3. n <= MAX_AGENTS
      BY <3>1, <3>2
    <3> QED  BY <3>3, Zenon DEF n
  <2>4. RecordsSound(tentacles)
    BY <2>1, <2>3, Zenon DEF RecordsSound
  <2> QED  BY <1>1, <2>4 DEF RegistryInit, RegistryInv
<1>2. ASSUME RegistryInit, NEW doc \in Legacy, MigrationAccepted(doc),
             tentacles = MigratedMap(doc)
      PROVE  RegistryInv
  <2>1. RecordsSound(tentacles)
    BY <1>2 DEF MigrationAccepted, LoadedStateValid, RecordsSound
  <2>2. ASSUME NEW a \in doc
        PROVE  Migrated(a) \in RegisteredTentacle
    <3>1. a \in LegacyAgent /\ Cardinality(a.endpoints) = 1
      BY <1>2 DEF MigrationAccepted
    <3>2. a.endpoints # {}
      <4>1. Cardinality({}) = 0
        BY FS_EmptySet, Zenon
      <4>2. CASE a.endpoints = {}
        <5>1. Cardinality(a.endpoints) = 0
          BY <4>1, <4>2, Zenon
        <5> QED  BY <3>1, <5>1
      <4> QED  BY <4>2
    <3>3. (CHOOSE e \in a.endpoints : TRUE) \in RegistryEndpoint
      BY <3>1, <3>2 DEF LegacyAgent
    <3> QED  BY <3>1, <3>3 DEF Migrated, RegisteredTentacle, RegistryEndpoint, LegacyAgent
  <2>3. tentacles \in [TentacleId -> RegisteredTentacle \cup {NoRecord}]
    <3>1. ASSUME NEW t \in TentacleId, \E a \in doc : Migrated(a).id = t
          PROVE  Migrated(CHOOSE a \in doc : Migrated(a).id = t) \in RegisteredTentacle
      BY <3>1, <2>2
    <3> QED  BY <1>2, <3>1 DEF MigratedMap
  <2> QED  BY <1>2, <2>1, <2>3 DEF RegistryInit, RegistryInv
<1> QED  BY <1>1, <1>2 DEF RegistryInit

\* One accepted update keeps the records sound: it fits, and its inboxes are free.
LEMMA UpdateKeepsRecords ==
  ASSUME RegistryInv, NEW r \in Submitted, RegisterOrUpdate(r)
  PROVE  RecordsSound(tentacles')
<1> USE RegistryAssumption
<1> DEFINE after == {t \in TentacleId : tentacles'[t] # NoRecord}
<1>1. /\ r \in RegisteredTentacle /\ r.id \in TentacleId
      /\ tentacles'[r.id] = r
      /\ \A t \in TentacleId \ {r.id} : tentacles'[t] = tentacles[t]
  BY DEF RegistryInv, RegisterOrUpdate, RegisteredTentacle
<1>2. after \subseteq Known \cup {r.id}
  BY <1>1 DEF Known
<1>3. Cardinality(after) <= MAX_AGENTS
  <2>1. IsFiniteSet(Known) /\ IsFiniteSet(Known \cup {r.id})
    BY <1>1, FS_Subset DEF Known
  <2>2. /\ IsFiniteSet(after)
        /\ Cardinality(after) <= Cardinality(Known \cup {r.id})
    BY <1>2, <2>1, FS_Subset
  <2>3. /\ Cardinality(Known) \in Nat /\ Cardinality(after) \in Nat
        /\ Cardinality(Known \cup {r.id}) \in Nat
    BY <2>1, <2>2, FS_CardinalityType
  <2>4. Cardinality(Known) <= MAX_AGENTS
    BY DEF RegistryInv, RecordsSound, Known
  <2>5. CASE r.id \in Known
    <3>1. Known \cup {r.id} = Known
      BY <2>5
    <3>2. Cardinality(Known \cup {r.id}) = Cardinality(Known)
      BY <3>1, Zenon
    <3>3. Cardinality(after) <= Cardinality(Known)
      BY <3>2, <2>2
    <3>4. MAX_AGENTS \in Nat
      BY RegistryAssumption
    <3> HIDE DEF after
    <3> QED  BY <3>3, <3>4, <2>3, <2>4
  <2>6. CASE r.id \notin Known
    <3>1. Cardinality(Known) < MAX_AGENTS
      BY <2>6 DEF RegisterOrUpdate, RoomFor
    <3>2. Cardinality(Known \cup {r.id}) = Cardinality(Known) + 1
      BY <2>1, <2>6, FS_AddElement
    <3> QED  BY <3>1, <3>2, <2>2, <2>3
  <2> QED  BY <2>5, <2>6
<1>4. ASSUME NEW t \in after
      PROVE  tentacles'[t].id = t /\ Valid(tentacles'[t])
  BY <1>1, <1>2 DEF RegistryInv, RecordsSound, RegisterOrUpdate, Known
<1>5. ASSUME NEW t \in after, NEW u \in after, t # u
      PROVE  Inboxes(tentacles'[t]) \cap Inboxes(tentacles'[u]) = {}
  <2>1. CASE t = r.id
    BY <1>1, <1>2, <1>5, <2>1 DEF RegisterOrUpdate, InboxesFree, Known
  <2>2. CASE u = r.id
    BY <1>1, <1>2, <1>5, <2>2 DEF RegisterOrUpdate, InboxesFree, Known
  <2>3. CASE t # r.id /\ u # r.id
    BY <1>1, <1>2, <1>5, <2>3 DEF RegistryInv, RecordsSound, Known
  <2> QED  BY <2>1, <2>2, <2>3
<1> QED  BY <1>3, <1>4, <1>5 DEF RecordsSound

LEMMA RegistryKeeps == RegistryInv /\ [RegistryNext]_registryVars => RegistryInv'
<1> SUFFICES ASSUME RegistryInv, [RegistryNext]_registryVars
             PROVE  RegistryInv'
  OBVIOUS
<1>1. ASSUME NEW r \in Submitted, RegisterOrUpdate(r)
      PROVE  RegistryInv'
  <2>1. RecordsSound(tentacles')
    BY <1>1, UpdateKeepsRecords
  <2>2. tentacles' \in [TentacleId -> RegisteredTentacle \cup {NoRecord}]
    BY <1>1, RegistryAssumption DEF RegistryInv, RegisterOrUpdate
  <2>3. disk' = disk
    BY <1>1 DEF RegisterOrUpdate
  <2> QED  BY <2>1, <2>2, <2>3 DEF RegistryInv, RecordsSound
<1>2. ASSUME Save
      PROVE  RegistryInv'
  BY <1>2 DEF Save, RegistryInv, RecordsSound
<1>3. ASSUME Reload
      PROVE  RegistryInv'
  <2>1. RecordsSound(disk[1])
    BY <1>3 DEF Reload, LoadedStateValid, RecordsSound
  <2> QED  BY <1>3, <2>1 DEF Reload, RegistryInv, RecordsSound
<1>4. ASSUME UNCHANGED registryVars
      PROVE  RegistryInv'
  BY <1>4 DEF registryVars, RegistryInv, RecordsSound
<1> QED  BY <1>1, <1>2, <1>3, <1>4 DEF RegistryNext

LEMMA SoundRecordsVouch == RegistryInv => RegistrySound
<1> SUFFICES ASSUME RegistryInv  PROVE RegistrySound
  OBVIOUS
<1>1. InboxNamesOneTentacle
  <2> SUFFICES ASSUME NEW t \in TentacleId, NEW u \in TentacleId, NEW inbox \in XmtpInbox,
                      VerifyEndpointAssociation(t, inbox),
                      VerifyEndpointAssociation(u, inbox)
               PROVE  t = u
    BY DEF InboxNamesOneTentacle
  <2>1. inbox \in Inboxes(tentacles[t]) /\ inbox \in Inboxes(tentacles[u])
    BY DEF VerifyEndpointAssociation, Inboxes
  <2>2. t \in Known /\ u \in Known
    BY DEF VerifyEndpointAssociation
  <2> QED  BY <2>1, <2>2 DEF RegistryInv, RecordsSound, Known
<1>2. Reloads
  BY DEF RegistryInv, RecordsSound, Reloads, LoadedStateValid
<1> QED  BY <1>1, <1>2 DEF RegistrySound

\* RegistrySound (`register_or_update', `migrate_v1', `validate_loaded_state'):
\* for every set of submissions and version-1 documents, an inbox vouches for one
\* Tentacle at most, and what is saved loads again.
THEOREM RegistryVouches == RegistrySpec => []RegistrySound
<1> QED  BY RegistryStarts, RegistryKeeps, SoundRecordsVouch, PTL DEF RegistrySpec

-----------------------------------------------------------------------------
(* The Council transport *)

MessageType == [envelope: Envelope, at: Nat]

WINDOW == SENDER_RATE_WINDOW_SECONDS
LIMIT == MAX_MESSAGES_PER_SENDER_PER_WINDOW

\* The orders of one sender's messages retained from lo to before hi.
Sent(messages, s, lo, hi) ==
  {k \in DOMAIN messages : /\ messages[k].envelope.sender = s
                           /\ lo <= messages[k].at /\ messages[k].at < hi}

TransportTypes ==
  /\ now \in Nat
  /\ publishing \in [Publisher -> MessageType \cup {NotPublishing}]
  /\ highest_sequence \in [CouncilId \X Sender -> Nat]
  /\ retained \in Seq(MessageType)
  /\ sender_rates \in [Sender -> [started_at: Nat, messages: 1..LIMIT] \cup {NoRate}]
  /\ cursor \in [Subscriber -> Nat]
  /\ received \in [Subscriber -> Seq(Nat)]

\* The guard remembers every message retained.
GuardRemembers ==
  /\ \A k \in DOMAIN retained : Retained(k).id \in seen_message_ids
  /\ \A k \in DOMAIN retained :
       Retained(k).sequence <= highest_sequence[<<Retained(k).council, Retained(k).sender>>]

\* What a sender's window says of its messages: none is newer than the window, it
\* counts those since its start, and the length of time before it, where only
\* the window before it can have left some, holds no more than one window's worth.
WindowAccounts(messages, s, r) ==
  /\ \A k \in DOMAIN messages :
       messages[k].envelope.sender = s => messages[k].at < r.started_at + WINDOW
  /\ Cardinality(Sent(messages, s, r.started_at, r.started_at + WINDOW)) <= r.messages
  /\ Cardinality(Sent(messages, s, (r.started_at + 1) - WINDOW, r.started_at)) <= LIMIT

RatesAccount ==
  \A s \in Sender :
    IF sender_rates[s] = NoRate
    THEN \A k \in DOMAIN retained : retained[k].envelope.sender # s
    ELSE WindowAccounts(retained, s, sender_rates[s])

\* No length of time of one window holds more than two windows' worth.
Bounded(messages, s) ==
  \A t \in Int : Cardinality(Sent(messages, s, t, t + WINDOW)) <= 2 * LIMIT

SubscribersFollow ==
  /\ \A c \in Subscriber : cursor[c] <= Len(retained)
  /\ ExactlyOnceInOrder

TransportInv ==
  /\ TransportTypes
  /\ GuardRemembers
  /\ NoReplay
  /\ RatesAccount
  /\ \A s \in Sender : Bounded(retained, s)
  /\ SubscribersFollow

-----------------------------------------------------------------------------
(* Counting one sender's messages. *)

LEMMA SentFinite ==
  ASSUME NEW messages \in Seq(MessageType), NEW s, NEW lo \in Int, NEW hi \in Int
  PROVE  /\ IsFiniteSet(Sent(messages, s, lo, hi))
         /\ Cardinality(Sent(messages, s, lo, hi)) \in Nat
<1>1. Sent(messages, s, lo, hi) \subseteq 1..Len(messages)
  BY DEF Sent
<1>2. IsFiniteSet(1..Len(messages))
  BY FS_Interval
<1> QED  BY <1>1, <1>2, FS_Subset, FS_CardinalityType

\* A later start and an earlier end count no more.
LEMMA SentWithin ==
  ASSUME NEW messages \in Seq(MessageType), NEW s,
         NEW lo \in Int, NEW hi \in Int, NEW lo2 \in Int, NEW hi2 \in Int,
         \A k \in Sent(messages, s, lo, hi) : lo2 <= messages[k].at /\ messages[k].at < hi2
  PROVE  Cardinality(Sent(messages, s, lo, hi)) <= Cardinality(Sent(messages, s, lo2, hi2))
<1>1. Sent(messages, s, lo, hi) \subseteq Sent(messages, s, lo2, hi2)
  BY DEF Sent
<1>2. IsFiniteSet(Sent(messages, s, lo2, hi2))
  BY SentFinite
<1> QED  BY <1>1, <1>2, FS_Subset

\* A length of time is counted in two parts.
LEMMA SentInParts ==
  ASSUME NEW messages \in Seq(MessageType), NEW s,
         NEW lo \in Int, NEW mid \in Int, NEW hi \in Int
  PROVE  Cardinality(Sent(messages, s, lo, hi))
           <= Cardinality(Sent(messages, s, lo, mid)) + Cardinality(Sent(messages, s, mid, hi))
<1> DEFINE A == Sent(messages, s, lo, mid)
           B == Sent(messages, s, mid, hi)
<1>1. IsFiniteSet(A) /\ IsFiniteSet(B)
  BY SentFinite
<1>2. Sent(messages, s, lo, hi) \subseteq A \cup B
  <2> SUFFICES ASSUME NEW k \in Sent(messages, s, lo, hi)  PROVE k \in A \cup B
    OBVIOUS
  <2>1. messages[k] \in MessageType
    BY DEF Sent
  <2>2. messages[k].at \in Nat
    BY <2>1 DEF MessageType
  <2> QED  BY <2>2 DEF Sent
<1>3. /\ IsFiniteSet(A \cup B)
      /\ Cardinality(A \cup B) = Cardinality(A) + Cardinality(B) - Cardinality(A \cap B)
  BY <1>1, FS_Union
<1>4. IsFiniteSet(A \cap B)
  BY <1>1, FS_Intersection
<1>5. Cardinality(Sent(messages, s, lo, hi)) <= Cardinality(A \cup B)
  BY <1>2, <1>3, FS_Subset
<1>6. /\ Cardinality(Sent(messages, s, lo, hi)) \in Nat /\ Cardinality(A \cup B) \in Nat
      /\ Cardinality(A) \in Nat /\ Cardinality(B) \in Nat /\ Cardinality(A \cap B) \in Nat
  BY <1>1, <1>3, <1>4, SentFinite, FS_CardinalityType
<1> HIDE DEF A, B
<1>7. Cardinality(Sent(messages, s, lo, hi)) <= Cardinality(A) + Cardinality(B)
  BY <1>3, <1>5, <1>6
<1> QED  BY <1>7 DEF A, B

\* One more message counts where it belongs and nowhere else.
LEMMA SentOneMore ==
  ASSUME NEW messages \in Seq(MessageType), NEW m \in MessageType, NEW s,
         NEW lo \in Int, NEW hi \in Int
  PROVE  /\ ~(m.envelope.sender = s /\ lo <= m.at /\ m.at < hi)
              => Sent(Append(messages, m), s, lo, hi) = Sent(messages, s, lo, hi)
         /\ Cardinality(Sent(Append(messages, m), s, lo, hi))
              <= Cardinality(Sent(messages, s, lo, hi)) + 1
<1> DEFINE after == Append(messages, m)
           n == Len(messages) + 1
<1>1. /\ DOMAIN after = DOMAIN messages \cup {n}
      /\ n \notin DOMAIN messages
      /\ after[n] = m
      /\ \A k \in DOMAIN messages : after[k] = messages[k]
      /\ after \in Seq(MessageType)
  OBVIOUS
<1>2. ~(m.envelope.sender = s /\ lo <= m.at /\ m.at < hi)
        => Sent(after, s, lo, hi) = Sent(messages, s, lo, hi)
  <2> HIDE DEF after, n
  <2> QED  BY <1>1 DEF Sent
<1>3. Cardinality(Sent(after, s, lo, hi)) <= Cardinality(Sent(messages, s, lo, hi)) + 1
  <2>1. Sent(after, s, lo, hi) \subseteq Sent(messages, s, lo, hi) \cup {n}
    <3> HIDE DEF after, n
    <3> QED  BY <1>1 DEF Sent
  <2>2. n \notin Sent(messages, s, lo, hi)
    BY <1>1 DEF Sent
  <2>3. /\ IsFiniteSet(Sent(messages, s, lo, hi) \cup {n})
        /\ Cardinality(Sent(messages, s, lo, hi) \cup {n})
             = Cardinality(Sent(messages, s, lo, hi)) + 1
    BY <2>2, SentFinite, FS_AddElement
  <2>4. Cardinality(Sent(after, s, lo, hi)) <= Cardinality(Sent(messages, s, lo, hi) \cup {n})
    BY <2>1, <2>3, FS_Subset
  <2> HIDE DEF after, n
  <2> QED  BY <2>3, <2>4
<1> QED  BY <1>2, <1>3

-----------------------------------------------------------------------------
(* The steps. *)

LEMMA TransportStarts == TransportInit => TransportInv
<1> SUFFICES ASSUME TransportInit  PROVE TransportInv
  OBVIOUS
<1> USE TransportAssumption
<1>1. TransportTypes
  BY DEF TransportInit, TransportTypes
<1>2. retained = <<>> /\ DOMAIN retained = {}
  BY DEF TransportInit
<1>3. GuardRemembers /\ NoReplay /\ RatesAccount
  BY <1>2 DEF TransportInit, GuardRemembers, NoReplay, RatesAccount
<1>4. ASSUME NEW s \in Sender, NEW t \in Int
      PROVE  Cardinality(Sent(retained, s, t, t + WINDOW)) <= 2 * LIMIT
  <2>1. Sent(retained, s, t, t + WINDOW) = {}
    BY <1>2 DEF Sent
  <2>2. Cardinality(Sent(retained, s, t, t + WINDOW)) = 0
    BY <2>1, FS_EmptySet, Zenon
  <2> QED  BY <2>2 DEF LIMIT
<1>5. SubscribersFollow
  <2> SUFFICES ASSUME NEW c \in Subscriber
               PROVE  /\ cursor[c] = 0 /\ Len(retained) = 0
                      /\ received[c] = <<>> /\ Range(received[c]) = {}
    BY DEF SubscribersFollow, ExactlyOnceInOrder
  <2> QED  BY <1>2 DEF TransportInit, Range
<1> QED  BY <1>1, <1>3, <1>4, <1>5 DEF TransportInv, Bounded

\* The sender's window after a publication still accounts for its messages.
LEMMA PublishAccounts ==
  ASSUME TransportInv, NEW p \in Publisher, Publish(p), NEW s \in Sender,
         s = publishing[p].envelope.sender
  PROVE  /\ sender_rates'[s] \in [started_at: Nat, messages: 1..LIMIT]
         /\ sender_rates'[s].started_at <= publishing[p].at
         /\ WindowAccounts(retained', s, sender_rates'[s])
<1> USE TransportAssumption
<1> DEFINE at == publishing[p].at
           m == [envelope |-> publishing[p].envelope, at |-> at]
           old == sender_rates[s]
           new == sender_rates'[s]
<1>1. /\ m \in MessageType /\ m = publishing[p] /\ m.envelope.sender = s /\ m.at = at
      /\ at \in Nat
      /\ retained' = Append(retained, m)
      /\ retained \in Seq(MessageType) /\ Append(retained, m) \in Seq(MessageType)
      /\ new = NextRate(s, at)
      /\ RateAllows(s, at)
  BY DEF TransportInv, TransportTypes, Publish, Allowed, MessageType
<1>2. /\ WINDOW \in Nat \ {0} /\ LIMIT \in Nat \ {0}
  BY DEF WINDOW, LIMIT
<1>3. \A k \in DOMAIN retained' :
        \/ k \in DOMAIN retained /\ retained'[k] = retained[k]
        \/ retained'[k] = m
  BY <1>1
<1>4. \A k \in DOMAIN retained : retained[k].at \in Nat
  <2>1. \A k \in DOMAIN retained : retained[k] \in MessageType
    BY <1>1
  <2> QED  BY <2>1 DEF MessageType
<1>5. CASE old = NoRate
  <2>1. new = [started_at |-> at, messages |-> 1]
    BY <1>1, <1>5 DEF NextRate
  <2>2. \A k \in DOMAIN retained : retained[k].envelope.sender # s
    BY <1>5 DEF TransportInv, RatesAccount
  <2>3. \A lo, hi \in Int : Sent(retained, s, lo, hi) = {}
    BY <2>2 DEF Sent
  <2>4. \A lo, hi \in Int : Cardinality(Sent(retained, s, lo, hi)) = 0
    BY <2>3, FS_EmptySet, Zenon
  <2>5. \A lo, hi \in Int : Cardinality(Sent(retained', s, lo, hi)) <= 1
    <3> SUFFICES ASSUME NEW lo \in Int, NEW hi \in Int
                 PROVE  Cardinality(Sent(retained', s, lo, hi)) <= 1
      OBVIOUS
    <3>1. Cardinality(Sent(Append(retained, m), s, lo, hi))
            <= Cardinality(Sent(retained, s, lo, hi)) + 1
      BY <1>1, SentOneMore
    <3>2. Cardinality(Sent(retained, s, lo, hi)) = 0
      BY <2>4
    <3>3. Cardinality(Sent(Append(retained, m), s, lo, hi)) \in Nat
      BY <1>1, SentFinite
    <3>4. Cardinality(Sent(Append(retained, m), s, lo, hi)) <= 1
      BY <3>1, <3>2, <3>3
    <3> QED  BY <3>4, <1>1
  <2>6. \A k \in DOMAIN retained' :
          retained'[k].envelope.sender = s => retained'[k].at < at + WINDOW
    BY <1>1, <1>2, <1>3, <2>2
  <2>7. /\ Cardinality(Sent(retained', s, at, at + WINDOW)) <= 1
        /\ Cardinality(Sent(retained', s, (at + 1) - WINDOW, at)) <= LIMIT
    <3>1. Cardinality(Sent(retained', s, (at + 1) - WINDOW, at)) <= 1
      BY <1>1, <1>2, <2>5
    <3>2. Cardinality(Sent(retained', s, (at + 1) - WINDOW, at)) \in Nat
      <4>1. retained' \in Seq(MessageType) /\ (at + 1) - WINDOW \in Int /\ at \in Int
        BY <1>1, <1>2
      <4> HIDE DEF at
      <4> QED  BY <4>1, SentFinite
    <3>3. Cardinality(Sent(retained', s, (at + 1) - WINDOW, at)) <= LIMIT
      BY <3>1, <3>2, <1>2
    <3> QED  BY <3>3, <2>5, <1>1, <1>2
  <2> QED  BY <1>1, <1>2, <2>1, <2>6, <2>7 DEF WindowAccounts
<1>6. ASSUME old # NoRate
      PROVE  /\ old \in [started_at: Nat, messages: 1..LIMIT]
             /\ WindowAccounts(retained, s, old)
             /\ old.started_at <= at
  BY <1>1, <1>6 DEF TransportInv, TransportTypes, RatesAccount, RateAllows, ClockAlarm
<1>7. CASE old # NoRate /\ WindowOver(s, at)
  <2>1. new = [started_at |-> at, messages |-> 1] /\ old.started_at + WINDOW <= at
    <3>1. new = [started_at |-> at, messages |-> 1]
      BY <1>1, <1>7 DEF NextRate
    <3>2. at - old.started_at >= WINDOW
      BY <1>7 DEF WindowOver, WINDOW
    <3>3. old.started_at \in Nat
      BY <1>6, <1>7
    <3>4. old.started_at + WINDOW <= at
      <4> HIDE DEF old, at
      <4> QED  BY <1>1, <1>2, <3>2, <3>3
    <3> QED  BY <3>1, <3>4
  <2>2. \A k \in DOMAIN retained :
          retained[k].envelope.sender = s => retained[k].at < old.started_at + WINDOW
    BY <1>6, <1>7 DEF WindowAccounts
  <2>3. \A k \in DOMAIN retained' :
          retained'[k].envelope.sender = s => retained'[k].at < at + WINDOW
    <3>1. old.started_at \in Nat
      BY <1>6, <1>7
    <3>2. \A k \in DOMAIN retained : retained[k].envelope.sender = s => retained[k].at < at + WINDOW
      <4> HIDE DEF old, at
      <4> QED  BY <1>1, <1>2, <1>4, <2>1, <2>2, <3>1
    <3>3. m.at < at + WINDOW
      BY <1>1, <1>2
    <3> HIDE DEF m, at
    <3> QED  BY <1>3, <3>2, <3>3
  <2>4. Cardinality(Sent(retained', s, at, at + WINDOW)) <= 1
    <3>1. Sent(retained, s, at, at + WINDOW) = {}
      BY <1>1, <1>2, <1>4, <1>6, <1>7, <2>1, <2>2 DEF Sent
    <3>2. Cardinality(Sent(retained, s, at, at + WINDOW)) = 0
      BY <3>1, FS_EmptySet, Zenon
    <3>3. Cardinality(Sent(Append(retained, m), s, at, at + WINDOW))
            <= Cardinality(Sent(retained, s, at, at + WINDOW)) + 1
      BY <1>1, <1>2, SentOneMore
    <3> QED  BY <3>2, <3>3, <1>1
  <2>5. Cardinality(Sent(retained', s, (at + 1) - WINDOW, at)) <= LIMIT
    <3> DEFINE lo == (at + 1) - WINDOW
    <3>0. lo \in Int /\ old.started_at <= lo /\ lo <= at
      BY <1>1, <1>2, <1>6, <1>7, <2>1
    <3>1. Sent(Append(retained, m), s, lo, at) = Sent(retained, s, lo, at)
      BY <1>1, <3>0, SentOneMore
    <3>2. Cardinality(Sent(retained, s, lo, at))
            <= Cardinality(Sent(retained, s, old.started_at, old.started_at + WINDOW))
      <4>1. \A k \in Sent(retained, s, lo, at) :
              old.started_at <= retained[k].at /\ retained[k].at < old.started_at + WINDOW
        BY <1>4, <1>6, <1>7, <2>2, <3>0 DEF Sent
      <4>2. old.started_at \in Int /\ old.started_at + WINDOW \in Int
        BY <1>2, <1>6, <1>7
      <4> HIDE DEF lo, old, m
      <4>3. at \in Int
        BY <1>1
      <4> HIDE DEF at
      <4> QED  BY <1>1, <3>0, <4>1, <4>2, <4>3, SentWithin
    <3>3. Cardinality(Sent(retained, s, old.started_at, old.started_at + WINDOW)) <= old.messages
      BY <1>6, <1>7 DEF WindowAccounts
    <3>4. /\ Cardinality(Sent(retained, s, lo, at)) \in Nat
          /\ Cardinality(Sent(retained, s, old.started_at, old.started_at + WINDOW)) \in Nat
      <4>1. /\ old.started_at \in Int /\ old.started_at + WINDOW \in Int
            /\ lo \in Int /\ at \in Int
        BY <1>1, <1>2, <1>6, <1>7, <3>0
      <4> HIDE DEF lo, at, old
      <4> QED  BY <1>1, <4>1, SentFinite
    <3>5. old.messages \in 1..LIMIT
      BY <1>6, <1>7
    <3>6. Cardinality(Sent(retained, s, lo, at)) <= LIMIT
      BY <1>2, <3>2, <3>3, <3>4, <3>5
    <3> QED  BY <1>1, <3>1, <3>6
  <2> QED  BY <1>1, <1>2, <2>1, <2>3, <2>4, <2>5 DEF WindowAccounts
<1>8. CASE old # NoRate /\ ~WindowOver(s, at)
  <2>1. /\ new = [old EXCEPT !.messages = @ + 1]
        /\ at < old.started_at + WINDOW
        /\ old.messages < LIMIT
    <3>1. new = [old EXCEPT !.messages = @ + 1]
      BY <1>1, <1>8 DEF NextRate
    <3>2. ~(at - old.started_at >= WINDOW) /\ old.messages < LIMIT
      BY <1>1, <1>8 DEF WindowOver, RateAllows, WINDOW, LIMIT
    <3>3. old.started_at \in Nat
      BY <1>6, <1>8
    <3>4. at < old.started_at + WINDOW
      <4> HIDE DEF old, at
      <4> QED  BY <1>1, <1>2, <3>2, <3>3
    <3> QED  BY <3>1, <3>2, <3>4
  <2>2. /\ new \in [started_at: Nat, messages: 1..LIMIT]
        /\ new.started_at = old.started_at /\ new.messages = old.messages + 1
        /\ old.started_at <= at
    BY <1>2, <1>6, <1>8, <2>1
  <2>3. \A k \in DOMAIN retained' :
          retained'[k].envelope.sender = s => retained'[k].at < old.started_at + WINDOW
    BY <1>1, <1>3, <1>6, <1>8, <2>1 DEF WindowAccounts
  <2>4. Cardinality(Sent(retained', s, old.started_at, old.started_at + WINDOW))
          <= old.messages + 1
    <3>1. Cardinality(Sent(retained, s, old.started_at, old.started_at + WINDOW)) <= old.messages
      BY <1>6, <1>8 DEF WindowAccounts
    <3>2. old.started_at \in Int /\ old.started_at + WINDOW \in Int
      BY <1>2, <1>6, <1>8
    <3>3. Cardinality(Sent(Append(retained, m), s, old.started_at, old.started_at + WINDOW))
            <= Cardinality(Sent(retained, s, old.started_at, old.started_at + WINDOW)) + 1
      BY <1>1, <3>2, SentOneMore
    <3>4. /\ Cardinality(Sent(retained, s, old.started_at, old.started_at + WINDOW)) \in Nat
          /\ Cardinality(Sent(retained', s, old.started_at, old.started_at + WINDOW)) \in Nat
      BY <1>1, <3>2, SentFinite
    <3> QED  BY <1>1, <1>6, <1>8, <3>1, <3>3, <3>4
  <2>5. Cardinality(Sent(retained', s, (old.started_at + 1) - WINDOW, old.started_at)) <= LIMIT
    <3>1. (old.started_at + 1) - WINDOW \in Int /\ old.started_at \in Int
      BY <1>2, <1>6, <1>8
    <3>2. Sent(Append(retained, m), s, (old.started_at + 1) - WINDOW, old.started_at)
            = Sent(retained, s, (old.started_at + 1) - WINDOW, old.started_at)
      BY <1>1, <2>2, <3>1, SentOneMore
    <3>3. Cardinality(Sent(retained, s, (old.started_at + 1) - WINDOW, old.started_at)) <= LIMIT
      BY <1>6, <1>8 DEF WindowAccounts
    <3> QED  BY <1>1, <3>2, <3>3
  <2> QED  BY <2>2, <2>3, <2>4, <2>5 DEF WindowAccounts
<1> QED  BY <1>5, <1>7, <1>8

\* A publication keeps every sender to the rate.
LEMMA PublishKeepsRate ==
  ASSUME TransportInv, NEW p \in Publisher, Publish(p), NEW s \in Sender
  PROVE  /\ sender_rates'[s] \in [started_at: Nat, messages: 1..LIMIT] \cup {NoRate}
         /\ IF sender_rates'[s] = NoRate
            THEN \A k \in DOMAIN retained' : retained'[k].envelope.sender # s
            ELSE WindowAccounts(retained', s, sender_rates'[s])
         /\ Bounded(retained', s)
<1> USE TransportAssumption
<1> DEFINE m == publishing[p]
           after == Append(retained, m)
<1>1. /\ m \in MessageType /\ retained \in Seq(MessageType) /\ after \in Seq(MessageType)
      /\ m.at \in Nat
      /\ retained' = after
      /\ m.envelope.sender \in Sender
      /\ sender_rates' = [sender_rates EXCEPT ![m.envelope.sender] = NextRate(m.envelope.sender, m.at)]
  BY DEF TransportInv, TransportTypes, Publish, MessageType
<1>2. /\ WINDOW \in Nat \ {0} /\ LIMIT \in Nat \ {0}
  BY DEF WINDOW, LIMIT
<1>3. /\ sender_rates[s] \in [started_at: Nat, messages: 1..LIMIT] \cup {NoRate}
      /\ IF sender_rates[s] = NoRate
         THEN \A k \in DOMAIN retained : retained[k].envelope.sender # s
         ELSE WindowAccounts(retained, s, sender_rates[s])
      /\ Bounded(retained, s)
  BY DEF TransportInv, TransportTypes, RatesAccount
<1>4. CASE s # m.envelope.sender
  <2>1. sender_rates'[s] = sender_rates[s]
    BY <1>1, <1>4 DEF TransportInv, TransportTypes
  <2>2. \A lo, hi \in Int : Sent(after, s, lo, hi) = Sent(retained, s, lo, hi)
    <3> HIDE DEF m
    <3> QED  BY <1>1, <1>4, SentOneMore
  <2>3. \A k \in DOMAIN after :
          after[k].envelope.sender = s => k \in DOMAIN retained /\ after[k] = retained[k]
    BY <1>1, <1>4
  <2>4. Bounded(after, s)
    <3> HIDE DEF after, m
    <3> QED  BY <1>2, <1>3, <2>2 DEF Bounded
  <2>5. CASE sender_rates[s] = NoRate
    <3>1. \A k \in DOMAIN after : after[k].envelope.sender # s
      BY <1>3, <2>3, <2>5
    <3> QED  BY <3>1, <1>1, <1>3, <2>1, <2>4, <2>5
  <2>6. CASE sender_rates[s] # NoRate
    <3> DEFINE r == sender_rates[s]
    <3>1. r \in [started_at: Nat, messages: 1..LIMIT] /\ WindowAccounts(retained, s, r)
      BY <1>3, <2>6
    <3>2. /\ r.started_at \in Int /\ r.started_at + WINDOW \in Int
          /\ (r.started_at + 1) - WINDOW \in Int
      BY <1>2, <3>1
    <3> HIDE DEF r, after, m
    <3>3. WindowAccounts(after, s, r)
      BY <2>2, <2>3, <3>1, <3>2 DEF WindowAccounts
    <3> USE DEF r
    <3> QED  BY <3>3, <1>1, <1>3, <2>1, <2>4, <2>6
  <2> QED  BY <2>5, <2>6
<1>5. CASE s = m.envelope.sender
  <2> DEFINE r == sender_rates'[s]
  <2>1. /\ r \in [started_at: Nat, messages: 1..LIMIT]
        /\ r.started_at <= m.at
        /\ WindowAccounts(retained', s, r)
    BY <1>5, PublishAccounts
  <2>2. ASSUME NEW t \in Int
        PROVE  Cardinality(Sent(after, s, t, t + WINDOW)) <= 2 * LIMIT
    <3> HIDE DEF m, r, after
    <3>0. /\ r.started_at \in Nat /\ r.messages \in 1..LIMIT
          /\ t + WINDOW \in Int /\ r.started_at + WINDOW \in Int
          /\ (r.started_at + 1) - WINDOW \in Int
      BY <1>2, <2>1
    <3>1. CASE t + WINDOW <= r.started_at
      <4>1. ~(m.at < t + WINDOW)
        BY <3>1, <3>0, <2>1, <1>1
      <4>2. Sent(after, s, t, t + WINDOW) = Sent(retained, s, t, t + WINDOW)
        BY <4>1, <3>0, <1>1, SentOneMore DEF after
      <4> QED  BY <4>2, <1>3 DEF Bounded
    <3>2. CASE t + WINDOW > r.started_at
      <4> DEFINE old == Sent(after, s, t, r.started_at)
                 new == Sent(after, s, r.started_at, t + WINDOW)
                 before == Sent(after, s, (r.started_at + 1) - WINDOW, r.started_at)
                 since == Sent(after, s, r.started_at, r.started_at + WINDOW)
                 all == Sent(after, s, t, t + WINDOW)
      <4>0. \A k \in DOMAIN after : after[k].at \in Nat
        <5>1. \A k \in DOMAIN after : after[k] \in MessageType
          BY <1>1
        <5> QED  BY <5>1 DEF MessageType
      <4>1. Cardinality(all) <= Cardinality(old) + Cardinality(new)
        BY <1>1, <3>0, SentInParts
      <4>2. Cardinality(old) <= Cardinality(before)
        <5>1. \A k \in old : /\ (r.started_at + 1) - WINDOW <= after[k].at
                             /\ after[k].at < r.started_at
          BY <1>2, <3>0, <3>2, <4>0 DEF Sent
        <5> QED  BY <1>1, <3>0, <5>1, SentWithin
      <4>3. Cardinality(new) <= Cardinality(since)
        <5>1. \A k \in new : /\ r.started_at <= after[k].at
                             /\ after[k].at < r.started_at + WINDOW
          BY <1>1, <2>1, <3>0 DEF Sent, WindowAccounts
        <5> QED  BY <1>1, <3>0, <5>1, SentWithin
      <4>4. Cardinality(before) <= LIMIT /\ Cardinality(since) <= r.messages
        BY <1>1, <2>1 DEF WindowAccounts
      <4>5. /\ Cardinality(all) \in Nat /\ Cardinality(old) \in Nat
            /\ Cardinality(new) \in Nat /\ Cardinality(before) \in Nat
            /\ Cardinality(since) \in Nat
        BY <1>1, <3>0, SentFinite
      <4> HIDE DEF all, old, new, before, since
      <4>6. Cardinality(all) <= 2 * LIMIT
        BY <1>2, <3>0, <4>1, <4>2, <4>3, <4>4, <4>5
      <4> QED  BY <4>6 DEF all
    <3> QED  BY <3>0, <3>1, <3>2
  <2>3. Bounded(after, s)
    BY <2>2 DEF Bounded
  <2>4. r # NoRate
    <3>1. NoRate \notin [started_at: Nat, messages: 1..LIMIT]
      BY <1>2
    <3> QED  BY <2>1, <3>1
  <2> QED  BY <1>1, <2>1, <2>3, <2>4
<1> QED  BY <1>4, <1>5

LEMMA PublishKeeps ==
  ASSUME TransportInv, NEW p \in Publisher, Publish(p)
  PROVE  TransportInv'
<1> USE TransportAssumption
<1> DEFINE m == publishing[p]
           e == m.envelope
           pair == <<e.council, e.sender>>
           after == Append(retained, m)
           n == Len(retained) + 1
<1>1. /\ m \in MessageType /\ m.at \in Nat /\ e \in Envelope
      /\ pair \in CouncilId \X Sender /\ e.sequence \in Nat
      /\ retained' = after
      /\ after \in Seq(MessageType)
      /\ DOMAIN after = DOMAIN retained \cup {n}
      /\ DOMAIN retained = 1..Len(retained) /\ Len(retained) \in Nat
      /\ after[n] = m
      /\ \A k \in DOMAIN retained : after[k] = retained[k]
      /\ \A k \in DOMAIN retained : retained[k] \in MessageType
  <2>1. /\ m \in MessageType /\ retained \in Seq(MessageType) /\ retained' = after
    BY DEF TransportInv, TransportTypes, Publish, MessageType
  <2>2. /\ m.at \in Nat /\ e \in Envelope
        /\ pair \in CouncilId \X Sender /\ e.sequence \in Nat
    BY <2>1 DEF MessageType
  <2> HIDE DEF m
  <2> QED  BY <2>1, <2>2
<1>2. /\ highest_sequence' = [highest_sequence EXCEPT ![pair] = e.sequence]
      /\ highest_sequence \in [CouncilId \X Sender -> Nat]
      /\ seen_message_ids' = seen_message_ids \cup {e.id}
      /\ e.id \notin seen_message_ids
      /\ e.sequence > highest_sequence[pair]
  BY DEF TransportInv, TransportTypes, Publish, Allowed, GuardAllows
<1>3. TransportTypes'
  <2>1. sender_rates' \in [Sender -> [started_at: Nat, messages: 1..LIMIT] \cup {NoRate}]
    <3>1. \A s \in Sender : sender_rates'[s] \in [started_at: Nat, messages: 1..LIMIT] \cup {NoRate}
      BY PublishKeepsRate
    <3>2. DOMAIN sender_rates' = Sender /\ sender_rates' = [s \in Sender |-> sender_rates'[s]]
      BY DEF Publish, TransportInv, TransportTypes
    <3> QED  BY <3>1, <3>2
  <2>2. /\ now' \in Nat /\ cursor' \in [Subscriber -> Nat] /\ received' \in [Subscriber -> Seq(Nat)]
        /\ publishing' \in [Publisher -> MessageType \cup {NotPublishing}]
    BY DEF Publish, TransportInv, TransportTypes
  <2>3. highest_sequence' \in [CouncilId \X Sender -> Nat]
    <3> HIDE DEF m, e, pair
    <3> QED  BY <1>1, <1>2
  <2> QED  BY <1>1, <2>1, <2>2, <2>3 DEF TransportTypes
<1>4. ASSUME NEW k \in DOMAIN retained
      PROVE  /\ retained[k].envelope.id \in seen_message_ids
             /\ <<retained[k].envelope.council, retained[k].envelope.sender>> \in CouncilId \X Sender
             /\ retained[k].envelope.sequence \in Nat
             /\ retained[k].envelope.sequence
                  <= highest_sequence[<<retained[k].envelope.council, retained[k].envelope.sender>>]
  BY <1>1, <1>4 DEF TransportInv, GuardRemembers, Retained, MessageType
<1>5. GuardRemembers'
  <2> SUFFICES ASSUME NEW k \in DOMAIN after
               PROVE  /\ after[k].envelope.id \in seen_message_ids'
                      /\ after[k].envelope.sequence
                          <= highest_sequence'[<<after[k].envelope.council, after[k].envelope.sender>>]
    BY <1>1 DEF GuardRemembers, Retained
  <2>1. CASE k = n
    <3>1. highest_sequence'[pair] = e.sequence
      BY <1>1, <1>2
    <3> QED  BY <1>1, <1>2, <2>1, <3>1
  <2>2. CASE k \in DOMAIN retained
    <3> DEFINE q == <<retained[k].envelope.council, retained[k].envelope.sender>>
    <3>1. highest_sequence'[q] = IF q = pair THEN e.sequence ELSE highest_sequence[q]
      <4> HIDE DEF pair, e, m
      <4> QED  BY <1>2, <1>4, <2>2
    <3>2. q = pair => highest_sequence[q] = highest_sequence[pair]
      OBVIOUS
    <3>3. /\ retained[k].envelope.sequence \in Nat /\ highest_sequence[q] \in Nat
          /\ retained[k].envelope.sequence <= highest_sequence[q]
      BY <1>2, <1>4, <2>2
    <3>4. retained[k].envelope.sequence <= highest_sequence'[q]
      <4> HIDE DEF q, pair, e, m
      <4> QED  BY <1>1, <1>2, <3>1, <3>2, <3>3
    <3> QED  BY <1>1, <1>2, <1>4, <2>2, <3>4
  <2> QED  BY <1>1, <2>1, <2>2
<1>6. NoReplay'
  <2>0. SUFFICES ASSUME NEW j \in DOMAIN retained', NEW k \in DOMAIN retained', j < k
               PROVE  /\ retained'[j].envelope.id # retained'[k].envelope.id
                      /\ (/\ retained'[j].envelope.sender = retained'[k].envelope.sender
                          /\ retained'[j].envelope.council = retained'[k].envelope.council)
                           => retained'[j].envelope.sequence < retained'[k].envelope.sequence
    BY DEF NoReplay, Retained
  <2>1. j \in DOMAIN retained
    <3> HIDE DEF after, m
    <3>1. k <= n /\ j \in Nat /\ k \in Nat
      BY <1>1
    <3> QED  BY <1>1, <2>0, <3>1
  <2>2. CASE k \in DOMAIN retained
    BY <1>1, <2>0, <2>1, <2>2 DEF TransportInv, NoReplay, Retained
  <2>3. CASE k = n
    <3>1. after[j].envelope.id # after[k].envelope.id
      BY <1>1, <1>2, <1>4, <2>1, <2>3
    <3>2. ASSUME after[j].envelope.sender = after[k].envelope.sender,
                 after[j].envelope.council = after[k].envelope.council
          PROVE  after[j].envelope.sequence < after[k].envelope.sequence
      <4>1. /\ after[j].envelope.sequence \in Nat
            /\ after[j].envelope.sequence <= highest_sequence[pair]
        BY <1>1, <1>4, <2>1, <2>3, <3>2
      <4>2. highest_sequence[pair] \in Nat
        BY <1>1, <1>2
      <4>3. after[k].envelope.sequence = e.sequence
        BY <1>1, <2>3
      <4> HIDE DEF after, pair, m, e
      <4> QED  BY <1>1, <1>2, <4>1, <4>2, <4>3
    <3> QED  BY <1>1, <3>1, <3>2
  <2>4. k \in DOMAIN retained \/ k = n
    BY <1>1, Zenon
  <2> QED  BY <2>2, <2>3, <2>4, Zenon
<1>7. RatesAccount'
  BY PublishKeepsRate DEF RatesAccount, WindowAccounts
<1>8. SubscribersFollow'
  <2>1. cursor' = cursor /\ received' = received
    BY DEF Publish
  <2> SUFFICES ASSUME NEW c \in Subscriber
               PROVE  /\ cursor[c] <= Len(after)
                      /\ \A i, j \in DOMAIN received[c] : i < j => received[c][i] < received[c][j]
                      /\ Range(received[c])
                          = {k \in 1..cursor[c] : after[k].envelope.council = Follows[c]}
    BY <1>1, <2>1 DEF SubscribersFollow, ExactlyOnceInOrder, Retained
  <2>2. /\ cursor[c] \in Nat /\ cursor[c] <= Len(retained)
        /\ \A i, j \in DOMAIN received[c] : i < j => received[c][i] < received[c][j]
        /\ Range(received[c])
             = {k \in 1..cursor[c] : retained[k].envelope.council = Follows[c]}
    BY DEF TransportInv, TransportTypes, SubscribersFollow, ExactlyOnceInOrder, Retained
  <2>3. Len(after) = Len(retained) + 1
    BY DEF TransportInv, TransportTypes
  <2>4. \A k \in 1..cursor[c] : after[k] = retained[k]
    BY <1>1, <2>2
  <2> QED  BY <1>1, <2>2, <2>3, <2>4
<1>9. \A s \in Sender : Bounded(retained', s)
  BY PublishKeepsRate
<1> QED  BY <1>3, <1>5, <1>6, <1>7, <1>8, <1>9 DEF TransportInv, Bounded

\* A batch continues what its subscriber has received.
LEMMA SubscribeKeeps ==
  ASSUME TransportInv, NEW c \in Subscriber, NEW limit \in 0..MAX_SUBSCRIPTION_BATCH,
         Subscribe(c, Follows[c], limit)
  PROVE  SubscribersFollow' /\ TransportTypes'
<1> USE TransportAssumption
<1> DEFINE matching == AfterCursor(Follows[c], cursor[c])
<1>0. PICK n \in 1..limit : \E batch \in [1..n -> matching] :
        /\ FirstInOrder(batch, matching, limit)
        /\ received' = [received EXCEPT ![c] = @ \o batch]
        /\ cursor' = [cursor EXCEPT ![c] = Last(batch)]
  BY DEF Subscribe
<1>1. PICK batch \in [1..n -> matching] :
        /\ FirstInOrder(batch, matching, limit)
        /\ received' = [received EXCEPT ![c] = @ \o batch]
        /\ cursor' = [cursor EXCEPT ![c] = Last(batch)]
  BY <1>0
<1>2. /\ UNCHANGED <<now, publishing, guardVars, retained, sender_rates>>
      /\ limit \in 1..MAX_SUBSCRIPTION_BATCH
  BY DEF Subscribe
<1>3. /\ cursor[c] \in Nat /\ cursor[c] <= Len(retained) /\ received[c] \in Seq(Nat)
      /\ Len(retained) \in Nat /\ DOMAIN retained = 1..Len(retained)
      /\ \A i, j \in DOMAIN received[c] : i < j => received[c][i] < received[c][j]
      /\ Range(received[c]) = {k \in 1..cursor[c] : retained[k].envelope.council = Follows[c]}
  BY DEF TransportInv, TransportTypes, SubscribersFollow, ExactlyOnceInOrder, Retained
<1>4. /\ n \in Nat \ {0} /\ Len(batch) = n /\ DOMAIN batch = 1..n
      /\ batch \in Seq(Nat)
      /\ \A i \in 1..n : /\ batch[i] \in DOMAIN retained /\ batch[i] \in Nat
                        /\ batch[i] > cursor[c]
                        /\ retained[batch[i]].envelope.council = Follows[c]
  <2>1. n \in Nat \ {0}
    BY <1>2
  <2>2. \A i \in 1..n : batch[i] \in matching
    BY <1>1
  <2>3. \A k \in matching : /\ k \in DOMAIN retained /\ k \in Nat
                            /\ k > cursor[c]
                            /\ retained[k].envelope.council = Follows[c]
    BY <1>3 DEF AfterCursor
  <2> HIDE DEF matching
  <2>4. matching \subseteq Nat
    BY <2>3
  <2>5. batch \in [1..n -> Nat]
    BY <2>4
  <2>6. batch \in Seq(Nat) /\ Len(batch) = n /\ DOMAIN batch = 1..n
    BY <2>1, <2>5
  <2> QED  BY <2>1, <2>2, <2>3, <2>6
<1>5. Last(batch) = batch[n] /\ batch[n] \in Nat
  BY <1>4 DEF Last
<1>6. \A i, j \in 1..n : i < j => batch[i] < batch[j]
  BY <1>1, <1>4 DEF FirstInOrder
<1>7. \A i \in 1..n : batch[i] <= batch[n]
  BY <1>4, <1>6
<1> DEFINE whole == received[c] \o batch
           r == Len(received[c])
<1>8. /\ whole \in Seq(Nat) /\ r \in Nat /\ Len(whole) = r + n
      /\ DOMAIN whole = 1..(r + n) /\ DOMAIN received[c] = 1..r
      /\ \A i \in 1..r : whole[i] = received[c][i]
      /\ \A i \in 1..n : whole[r + i] = batch[i]
  <2>1. /\ whole \in Seq(Nat) /\ r \in Nat /\ Len(whole) = r + n
        /\ DOMAIN whole = 1..(r + n) /\ DOMAIN received[c] = 1..r
    <3>1. r \in Nat /\ DOMAIN received[c] = 1..r
      BY <1>3, LenProperties
    <3>2. whole \in Seq(Nat) /\ Len(whole) = Len(received[c]) + Len(batch)
      <4>1. received[c] \in Seq(Nat) /\ batch \in Seq(Nat)
        BY <1>3, <1>4
      <4> QED  BY <4>1, ConcatProperties, Zenon
    <3>3. Len(whole) = r + n
      BY <1>4, <3>2
    <3>4. DOMAIN whole = 1..Len(whole)
      BY <3>2, LenProperties
    <3> HIDE DEF whole, r
    <3> QED  BY <3>1, <3>2, <3>3, <3>4
  <2>2. \A i \in 1..r : whole[i] = received[c][i]
    BY <1>3, <1>4
  <2>3. ASSUME NEW i \in 1..n
        PROVE  whole[r + i] = batch[i]
    <3>1. r + i \in 1..(r + n) /\ ~(r + i <= r) /\ (r + i) - r = i
      BY <1>4, <2>1
    <3>2. whole[r + i] = batch[(r + i) - r]
      BY <1>3, <1>4, <3>1
    <3> QED  BY <3>1, <3>2
  <2> QED  BY <2>1, <2>2, <2>3
<1>9. \A i \in 1..r : received[c][i] \in 1..cursor[c]
                     /\ retained[received[c][i]].envelope.council = Follows[c]
  <2>1. \A i \in 1..r : received[c][i] \in Range(received[c])
    BY <1>8 DEF Range
  <2> QED  BY <1>3, <2>1
<1>10. \A i \in 1..(r + n) : i \in 1..r \/ (i - r \in 1..n /\ whole[i] = batch[i - r])
  <2> SUFFICES ASSUME NEW i \in 1..(r + n), i \notin 1..r
               PROVE  i - r \in 1..n /\ whole[i] = batch[i - r]
    OBVIOUS
  <2>1. i - r \in 1..n /\ r + (i - r) = i
    BY <1>4, <1>8
  <2> QED  BY <1>8, <2>1
<1>11. ASSUME NEW i \in 1..(r + n), NEW j \in 1..(r + n), i < j
       PROVE  whole[i] < whole[j]
  <2>1. CASE i \in 1..r /\ j \in 1..r
    BY <1>3, <1>8, <1>11, <2>1
  <2>2. CASE i \in 1..r /\ j \notin 1..r
    <3>1. j - r \in 1..n /\ whole[j] = batch[j - r]
      BY <1>10, <2>2
    <3>2. whole[i] = received[c][i] /\ received[c][i] \in 1..cursor[c]
      BY <1>8, <1>9, <2>2
    <3>3. batch[j - r] \in Nat /\ batch[j - r] > cursor[c]
      BY <1>4, <3>1
    <3> HIDE DEF whole, r
    <3> QED  BY <1>3, <3>1, <3>2, <3>3
  <2>3. CASE i \notin 1..r /\ j \in 1..r
    BY <1>8, <1>11, <2>3
  <2>4. CASE i \notin 1..r /\ j \notin 1..r
    <3>1. /\ i - r \in 1..n /\ whole[i] = batch[i - r]
          /\ j - r \in 1..n /\ whole[j] = batch[j - r]
      BY <1>10, <2>4
    <3>2. i - r < j - r
      BY <1>8, <1>11
    <3> HIDE DEF whole, r
    <3> QED  BY <1>6, <3>1, <3>2
  <2> QED  BY <2>1, <2>2, <2>3, <2>4
<1>12. Range(whole) = {k \in 1..batch[n] : retained[k].envelope.council = Follows[c]}
  <2>1. ASSUME NEW i \in 1..(r + n)
        PROVE  whole[i] \in 1..batch[n] /\ retained[whole[i]].envelope.council = Follows[c]
    <3>1. CASE i \in 1..r
      <4>1. whole[i] \in 1..cursor[c] /\ retained[whole[i]].envelope.council = Follows[c]
        BY <1>8, <1>9, <3>1
      <4>2. n \in 1..n
        BY <1>4
      <4>3. cursor[c] < batch[n]
        BY <1>3, <1>4, <4>2
      <4> QED  BY <1>3, <1>5, <4>1, <4>3
    <3>2. CASE i \notin 1..r
      <4>1. i - r \in 1..n /\ whole[i] = batch[i - r]
        BY <1>10, <3>2
      <4>2. /\ batch[i - r] \in DOMAIN retained
            /\ retained[batch[i - r]].envelope.council = Follows[c]
            /\ batch[i - r] <= batch[n]
        BY <1>4, <1>7, <4>1
      <4>3. batch[i - r] \in 1..batch[n]
        BY <1>3, <1>5, <4>2
      <4> QED  BY <4>1, <4>2, <4>3
    <3> QED  BY <3>1, <3>2
  <2>2. ASSUME NEW k \in 1..batch[n], retained[k].envelope.council = Follows[c]
        PROVE  \E i \in 1..(r + n) : whole[i] = k
    <3>1. CASE k <= cursor[c]
      <4>1. k \in Range(received[c])
        BY <1>3, <1>5, <2>2, <3>1
      <4>2. PICK i \in 1..r : received[c][i] = k
        BY <1>8, <4>1 DEF Range
      <4>3. i \in 1..(r + n)
        BY <1>4, <1>8
      <4> QED  BY <1>8, <4>2, <4>3
    <3>2. CASE k > cursor[c]
      <4>1. n \in 1..n /\ batch[n] \in DOMAIN retained
        BY <1>4
      <4>2. k \in DOMAIN retained
        BY <1>3, <1>5, <4>1
      <4>3. k \in matching
        BY <2>2, <3>2, <4>2 DEF AfterCursor
      <4>4. ~(batch[n] < k)
        BY <1>5
      <4>5. PICK i \in 1..n : batch[i] = k
        BY <1>1, <1>4, <4>1, <4>3, <4>4 DEF FirstInOrder
      <4>6. r + i \in 1..(r + n)
        BY <1>4, <1>8
      <4>7. whole[r + i] = k
        BY <1>8, <4>5
      <4> HIDE DEF whole, r
      <4> QED  BY <4>6, <4>7
    <3> QED  BY <1>3, <1>5, <3>1, <3>2
  <2>3. Range(whole) = {whole[i] : i \in 1..(r + n)}
    BY <1>8 DEF Range
  <2>4. \A i \in 1..(r + n) : whole[i] \in {k \in 1..batch[n] : retained[k].envelope.council = Follows[c]}
    BY <2>1
  <2>5. \A k \in {k \in 1..batch[n] : retained[k].envelope.council = Follows[c]} :
          \E i \in 1..(r + n) : whole[i] = k
    BY <2>2
  <2> HIDE DEF whole, r
  <2> QED  BY <2>3, <2>4, <2>5
<1>13. TransportTypes'
  BY <1>1, <1>2, <1>5, <1>8 DEF TransportInv, TransportTypes, guardVars
<1>14. SubscribersFollow'
  <2> SUFFICES ASSUME NEW d \in Subscriber
               PROVE  /\ cursor'[d] <= Len(retained)
                      /\ \A i, j \in DOMAIN received'[d] : i < j => received'[d][i] < received'[d][j]
                      /\ Range(received'[d])
                          = {k \in 1..cursor'[d] : retained[k].envelope.council = Follows[d]}
    BY <1>2 DEF SubscribersFollow, ExactlyOnceInOrder, Retained
  <2>1. CASE d = c
    <3>1. cursor'[d] = batch[n] /\ received'[d] = whole
      BY <1>1, <1>5, <2>1 DEF TransportInv, TransportTypes
    <3>2. batch[n] <= Len(retained)
      BY <1>3, <1>4
    <3> HIDE DEF whole, r
    <3> QED  BY <1>8, <1>11, <1>12, <2>1, <3>1, <3>2
  <2>2. CASE d # c
    <3>1. cursor'[d] = cursor[d] /\ received'[d] = received[d]
      BY <1>1, <2>2 DEF TransportInv, TransportTypes
    <3> QED  BY <3>1 DEF TransportInv, SubscribersFollow, ExactlyOnceInOrder, Retained
  <2> QED  BY <2>1, <2>2
<1> QED  BY <1>13, <1>14

LEMMA TransportKeeps == TransportInv /\ [TransportNext]_transportVars => TransportInv'
<1> SUFFICES ASSUME TransportInv, [TransportNext]_transportVars
             PROVE  TransportInv'
  OBVIOUS
<1>1. ASSUME NEW p \in Publisher, Publish(p)
      PROVE  TransportInv'
  BY <1>1, PublishKeeps
<1>2. ASSUME NEW c \in Subscriber, NEW limit \in 0..MAX_SUBSCRIPTION_BATCH,
             Subscribe(c, Follows[c], limit)
      PROVE  TransportInv'
  <2>1. SubscribersFollow' /\ TransportTypes'
    BY <1>2, SubscribeKeeps
  <2>2. UNCHANGED <<guardVars, retained, sender_rates>>
    BY <1>2 DEF Subscribe
  <2>3. /\ GuardRemembers' /\ NoReplay' /\ RatesAccount'
        /\ \A s \in Sender : Bounded(retained', s)
    BY <2>2 DEF TransportInv, guardVars, GuardRemembers, NoReplay, Retained,
                RatesAccount
  <2> QED  BY <2>1, <2>3 DEF TransportInv, Bounded
<1>3. ASSUME /\ UNCHANGED <<guardVars, retained, sender_rates, cursor, received>>
             /\ TransportTypes'
      PROVE  TransportInv'
  <2>1. /\ GuardRemembers' /\ NoReplay' /\ RatesAccount' /\ SubscribersFollow'
        /\ \A s \in Sender : Bounded(retained', s)
    BY <1>3 DEF TransportInv, guardVars, GuardRemembers, NoReplay, Retained,
                RatesAccount, SubscribersFollow, ExactlyOnceInOrder
  <2> QED  BY <1>3, <2>1 DEF TransportInv, Bounded
<1>4. ASSUME NEW p \in Publisher, NEW e \in Envelope, BeginPublish(p, e)
      PROVE  TransportInv'
  <2>1. TransportTypes'
    BY <1>4 DEF TransportInv, TransportTypes, BeginPublish, MessageType, guardVars
  <2> QED  BY <1>3, <1>4, <2>1 DEF BeginPublish
<1>5. ASSUME NEW p \in Publisher, Refuse(p)
      PROVE  TransportInv'
  <2>1. TransportTypes'
    BY <1>5 DEF TransportInv, TransportTypes, Refuse, guardVars
  <2> QED  BY <1>3, <1>5, <2>1 DEF Refuse
<1>6. ASSUME NEW t \in 0..MaxTime, SetClock(t)
      PROVE  TransportInv'
  <2>1. TransportTypes'
    BY <1>6, TransportAssumption DEF TransportInv, TransportTypes, SetClock, guardVars
  <2> QED  BY <1>3, <1>6, <2>1 DEF SetClock
<1>7. ASSUME UNCHANGED transportVars
      PROVE  TransportInv'
  <2>1. TransportTypes'
    BY <1>7 DEF TransportInv, TransportTypes, transportVars
  <2> QED  BY <1>3, <1>7, <2>1 DEF transportVars, guardVars
<1> QED  BY <1>1, <1>2, <1>4, <1>5, <1>6, <1>7 DEF TransportNext

LEMMA BoundedIsRate ==
  ASSUME TransportInv
  PROVE  RateBounded
<1> SUFFICES ASSUME NEW s \in Sender, NEW t \in 0..MaxTime
             PROVE  Cardinality({k \in DOMAIN retained :
                      /\ Retained(k).sender = s
                      /\ retained[k].at \in t..(t + SENDER_RATE_WINDOW_SECONDS - 1)})
                    <= 2 * MAX_MESSAGES_PER_SENDER_PER_WINDOW
  BY DEF RateBounded
<1>1. SENDER_RATE_WINDOW_SECONDS \in Nat /\ t \in Int
  BY TransportAssumption
<1>2. \A k \in DOMAIN retained : retained[k].at \in Nat
  <2>1. \A k \in DOMAIN retained : retained[k] \in MessageType
    BY DEF TransportInv, TransportTypes
  <2> QED  BY <2>1 DEF MessageType
<1>3. {k \in DOMAIN retained :
         /\ Retained(k).sender = s
         /\ retained[k].at \in t..(t + SENDER_RATE_WINDOW_SECONDS - 1)}
      = Sent(retained, s, t, t + WINDOW)
  BY <1>1, <1>2 DEF Sent, WINDOW, Retained
<1> QED  BY <1>1, <1>3 DEF TransportInv, Bounded, LIMIT

\* DeliveredOnce (`publish', `check_and_record', `subscribe'): for any threads,
\* envelopes, limits and clock, nothing is replayed, no sender exceeds twice its
\* rate over one window's length, and every subscriber has had exactly its
\* council's messages up to its cursor, in order.
THEOREM TransportDelivers == TransportSpec => []DeliveredOnce
<1>1. TransportInv => DeliveredOnce
  BY BoundedIsRate DEF TransportInv, SubscribersFollow, DeliveredOnce
<1> QED  BY <1>1, TransportStarts, TransportKeeps, PTL DEF TransportSpec

-----------------------------------------------------------------------------
(* The observer's view and the endpoint it reads through *)

\* A balance the holder had at some second from `from' to `to'.
Had(h, balance, from, to) == \E t \in from .. to : balance \in held[h][t]

\* Every read under way is dated no later than now, and one that has its answer
\* has a true one.
ReadsTrue ==
  \A r \in reads : /\ r.holder \in Holder
                   /\ r.asked \in 0 .. clock
                   /\ r.balance # None => Had(r.holder, r.balance, r.asked, clock)

\* So is the view, at the date it gives; and so was the last answer.
ViewTrue ==
  \A h \in Holder :
    last_seen[h] # None => /\ last_seen[h] \in 0 .. clock
                           /\ Had(h, balances[h], last_seen[h], clock)

AnswerTrue ==
  Operational(observation) =>
    /\ observation.holder \in Holder
    /\ observation.answered \in 0 .. clock /\ observation.observed_at \in 0 .. clock
    /\ Had(observation.holder, observation.balance, observation.observed_at,
           observation.answered)
    /\ observation.freshness = "cached" =>
         observation.answered - observation.observed_at < observation_interval

EyeTypes ==
  /\ clock \in 0 .. MaxSeconds
  /\ held \in [Holder -> [0 .. MaxSeconds -> SUBSET Balance]]
  /\ balances \in [Holder -> Nat \cup {None}]
  /\ last_seen \in [Holder -> Nat \cup {None}]
  /\ reads \subseteq [number: 1 .. MaxReads, holder: Holder, asked: Nat,
                      balance: Nat \cup {None}]

EyeInv == EyeTypes /\ ReadsTrue /\ ViewTrue /\ AnswerTrue

\* What was true of the chain stays true as it grows.
LEMMA HistoryStays ==
  ASSUME EyeInv, clock' \in Nat, clock <= clock',
         \A h \in Holder : \A t \in 0 .. clock : held[h][t] \subseteq held'[h][t],
         UNCHANGED <<view, observation>>,
         \A r \in reads' : r \in reads \/ (/\ r.holder \in Holder
                                           /\ r.asked \in 0 .. clock
                                           /\ r.balance # None => Had(r.holder, r.balance, r.asked, clock)')
  PROVE  ReadsTrue' /\ ViewTrue' /\ AnswerTrue'
<1> USE TokenEyeAssumption
<1>1. clock \in Nat /\ clock' \in Nat /\ clock <= clock'
  BY DEF EyeInv, EyeTypes
<1>2. ASSUME NEW h \in Holder, NEW b, NEW lo \in 0 .. clock, NEW hi \in 0 .. clock,
             Had(h, b, lo, hi)
      PROVE  \E t \in lo .. hi : b \in held'[h][t]
  <2>1. PICK t \in lo .. hi : b \in held[h][t]
    BY <1>2 DEF Had
  <2>2. t \in 0 .. clock
    BY <1>1
  <2> QED  BY <2>1, <2>2
<1>3. ReadsTrue'
  <2> SUFFICES ASSUME NEW r \in reads'
               PROVE  /\ r.holder \in Holder /\ r.asked \in 0 .. clock'
                      /\ r.balance # None => \E t \in r.asked .. clock' : r.balance \in held'[r.holder][t]
    BY DEF ReadsTrue, Had
  <2>1. CASE r \in reads
    <3>1. /\ r.holder \in Holder /\ r.asked \in 0 .. clock
          /\ r.balance # None => Had(r.holder, r.balance, r.asked, clock)
      BY <2>1 DEF EyeInv, ReadsTrue
    <3>2. ASSUME r.balance # None
          PROVE  \E t \in r.asked .. clock' : r.balance \in held'[r.holder][t]
      <4>1. clock \in 0 .. clock
        BY <1>1
      <4>2. PICK t \in r.asked .. clock : r.balance \in held'[r.holder][t]
        BY <1>2, <3>1, <3>2, <4>1
      <4>3. t \in r.asked .. clock'
        BY <1>1, <3>1
      <4> QED  BY <4>2, <4>3
    <3>3. r.asked \in 0 .. clock'
      BY <1>1, <3>1
    <3> QED  BY <3>1, <3>2, <3>3
  <2>2. CASE r \notin reads
    <3>1. /\ r.holder \in Holder /\ r.asked \in 0 .. clock
          /\ r.balance # None => Had(r.holder, r.balance, r.asked, clock)'
      BY <2>2
    <3>2. r.asked \in 0 .. clock'
      BY <1>1, <3>1
    <3>3. r.balance # None => \E t \in r.asked .. clock' : r.balance \in held'[r.holder][t]
      BY <3>1 DEF Had
    <3> QED  BY <3>1, <3>2, <3>3
  <2> QED  BY <2>1, <2>2
<1>4. ViewTrue'
  <2> SUFFICES ASSUME NEW h \in Holder, last_seen[h] # None
               PROVE  /\ last_seen[h] \in 0 .. clock'
                      /\ \E t \in last_seen[h] .. clock' : balances[h] \in held'[h][t]
    BY DEF ViewTrue, Had, view
  <2>1. last_seen[h] \in 0 .. clock /\ Had(h, balances[h], last_seen[h], clock)
    BY DEF EyeInv, ViewTrue
  <2>2. clock \in 0 .. clock
    BY <1>1
  <2>3. PICK t \in last_seen[h] .. clock : balances[h] \in held'[h][t]
    BY <1>2, <2>1, <2>2
  <2>4. t \in last_seen[h] .. clock' /\ last_seen[h] \in 0 .. clock'
    BY <1>1, <2>1
  <2> QED  BY <2>3, <2>4
<1>5. AnswerTrue'
  <2> DEFINE o == observation
  <2> SUFFICES ASSUME Operational(o)
               PROVE  /\ o.holder \in Holder
                      /\ o.answered \in 0 .. clock' /\ o.observed_at \in 0 .. clock'
                      /\ \E t \in o.observed_at .. o.answered : o.balance \in held'[o.holder][t]
                      /\ o.freshness = "cached" =>
                           o.answered - o.observed_at < observation_interval
    BY DEF AnswerTrue, Had, Operational
  <2>1. /\ o.holder \in Holder
        /\ o.answered \in 0 .. clock /\ o.observed_at \in 0 .. clock
        /\ Had(o.holder, o.balance, o.observed_at, o.answered)
        /\ o.freshness = "cached" =>
             o.answered - o.observed_at < observation_interval
    BY DEF EyeInv, AnswerTrue
  <2>2. \E t \in o.observed_at .. o.answered : o.balance \in held'[o.holder][t]
    BY <1>2, <2>1
  <2>3. o.answered \in 0 .. clock' /\ o.observed_at \in 0 .. clock'
    BY <1>1, <2>1
  <2> QED  BY <2>1, <2>2, <2>3
<1> QED  BY <1>3, <1>4, <1>5

LEMMA EyeStarts == EyeInit => EyeInv
<1> SUFFICES ASSUME EyeInit  PROVE EyeInv
  OBVIOUS
<1> USE TokenEyeAssumption
<1>1. held \in [Holder -> [0 .. MaxSeconds -> SUBSET Balance]]
  <2>1. ASSUME NEW b \in Balance
        PROVE  [t \in 0 .. MaxSeconds |-> IF t = 0 THEN {b} ELSE {}]
                 \in [0 .. MaxSeconds -> SUBSET Balance]
    OBVIOUS
  <2> QED  BY <2>1 DEF EyeInit
<1>2. EyeTypes
  BY <1>1 DEF EyeInit, EyeTypes
<1>3. ReadsTrue /\ ViewTrue /\ AnswerTrue
  BY DEF EyeInit, ReadsTrue, ViewTrue, AnswerTrue, Operational
<1> QED  BY <1>2, <1>3 DEF EyeInv

LEMMA SetOnce ==
  ASSUME NEW S, NEW T, NEW f \in [S -> T], NEW e \in T, NEW t
  PROVE  [f EXCEPT ![t] = e] \in [S -> T]
  OBVIOUS

LEMMA TickTypes ==
  ASSUME EyeTypes, Tick
  PROVE  EyeTypes'
<1>1. PICK after \in [Holder -> Balance] :
        /\ \A h \in Holder : after[h] \in Current(h)
        /\ held' = [h \in Holder |-> Continued(h, after[h])]
  BY DEF Tick
<1>2. ASSUME NEW h \in Holder
      PROVE  Continued(h, after[h]) \in [0 .. MaxSeconds -> SUBSET Balance]
  <2>1. held[h] \in [0 .. MaxSeconds -> SUBSET Balance] /\ {after[h]} \in SUBSET Balance
    BY DEF EyeTypes
  <2> QED  BY <2>1, SetOnce DEF Continued
<1>3. held' \in [Holder -> [0 .. MaxSeconds -> SUBSET Balance]]
  BY <1>1, <1>2
<1>4. clock' \in 0 .. MaxSeconds
  BY TokenEyeAssumption DEF Tick, EyeTypes
<1>5. balances' = balances /\ last_seen' = last_seen /\ reads' = reads
  BY DEF Tick, view
<1> QED  BY <1>3, <1>4, <1>5 DEF EyeTypes

LEMMA EyeKeeps == EyeInv /\ [EyeNext]_eyeVars => EyeInv'
<1> SUFFICES ASSUME EyeInv, [EyeNext]_eyeVars  PROVE EyeInv'
  OBVIOUS
<1> USE TokenEyeAssumption
<1>0. clock \in Nat /\ clock \in 0 .. clock /\ MaxSeconds \in Nat /\ clock <= MaxSeconds
  BY DEF EyeInv, EyeTypes
<1>1. CASE Tick
  <2>1. PICK after \in [Holder -> Balance] :
          /\ \A h \in Holder : after[h] \in Current(h)
          /\ held' = [h \in Holder |-> Continued(h, after[h])]
    BY <1>1 DEF Tick
  <2>2. /\ clock' = clock + 1 /\ clock' \in 0 .. MaxSeconds
        /\ UNCHANGED <<view, reads, observation>>
    BY <1>0, <1>1 DEF Tick
  <2>4. \A h \in Holder : \A t \in 0 .. clock : held[h][t] \subseteq held'[h][t]
    BY <1>0, <2>1 DEF EyeInv, EyeTypes, Continued
  <2>5. EyeTypes'
    BY <1>1, TickTypes DEF EyeInv
  <2>6. ReadsTrue' /\ ViewTrue' /\ AnswerTrue'
    <3>1. clock' \in Nat /\ clock <= clock'
      BY <1>0, <2>2
    <3> QED  BY <2>2, <2>4, <3>1, HistoryStays
  <2> QED  BY <2>5, <2>6 DEF EyeInv
<1>2. ASSUME NEW h \in Holder, NEW b \in Balance, Transfer(h, b)
      PROVE  EyeInv'
  <2>1. /\ held' = [held EXCEPT ![h] = [held[h] EXCEPT ![clock] = held[h][clock] \cup {b}]]
        /\ UNCHANGED <<clock, view, reads, observation>>
    BY <1>2 DEF Transfer
  <2>2. held' \in [Holder -> [0 .. MaxSeconds -> SUBSET Balance]]
    BY <1>0, <2>1 DEF EyeInv, EyeTypes
  <2>3. \A g \in Holder : \A t \in 0 .. clock : held[g][t] \subseteq held'[g][t]
    BY <1>0, <2>1 DEF EyeInv, EyeTypes
  <2>4. EyeTypes'
    BY <2>1, <2>2 DEF EyeInv, EyeTypes, view
  <2>5. ReadsTrue' /\ ViewTrue' /\ AnswerTrue'
    BY <1>0, <2>1, <2>3, HistoryStays
  <2> QED  BY <2>4, <2>5 DEF EyeInv
<1>3. ASSUME NEW h \in Holder, Asks(h), UNCHANGED <<clock, held, view, observation>>
      PROVE  EyeInv'
  <2>1. PICK n \in 1 .. MaxReads :
          reads' = reads \cup {[number |-> n, holder |-> h, asked |-> clock, balance |-> None]}
    BY <1>3 DEF Asks
  <2>2. EyeTypes'
    BY <1>0, <1>3, <2>1 DEF EyeInv, EyeTypes, view
  <2>3. ReadsTrue' /\ ViewTrue' /\ AnswerTrue'
    <3>1. \A r \in reads' : r \in reads \/ (r.holder = h /\ r.asked = clock /\ r.balance = None)
      BY <2>1
    <3> QED  BY <1>0, <1>3, <3>1, HistoryStays
  <2> QED  BY <2>2, <2>3 DEF EyeInv
<1>4. ASSUME NEW h \in Holder, Answered(h), UNCHANGED <<clock, held, view, reads>>
      PROVE  EyeInv'
  <2>1. EyeTypes' /\ ReadsTrue' /\ ViewTrue'
    BY <1>4 DEF EyeInv, EyeTypes, ReadsTrue, ViewTrue, Had, view
  <2>2. CASE Due(h)
    <3>1. observation'.freshness \in {"unknown", "stale"}
      BY <1>4, <2>2 DEF Answered, Failure, Observed
    <3> QED  BY <2>1, <3>1 DEF EyeInv, AnswerTrue, Operational
  <2>3. CASE ~Due(h)
    <3>1. /\ observation'.holder = h /\ observation'.balance = balances[h]
          /\ observation'.observed_at = last_seen[h] /\ observation'.answered = clock
      BY <1>4, <2>3 DEF Answered, Observed
    <3>2. last_seen[h] # None /\ ~(clock - last_seen[h] >= observation_interval)
      BY <2>3 DEF Due
    <3>3. last_seen[h] \in 0 .. clock /\ Had(h, balances[h], last_seen[h], clock)
      BY <3>2 DEF EyeInv, ViewTrue
    <3>4. clock - last_seen[h] < observation_interval
      BY <1>0, <3>2, <3>3
    <3>5. AnswerTrue'
      BY <1>0, <1>4, <3>1, <3>3, <3>4 DEF AnswerTrue, Had
    <3> QED  BY <2>1, <3>5 DEF EyeInv
  <2> QED  BY <2>2, <2>3
<1>5. ASSUME NEW r \in reads, ReadChain(r)
      PROVE  EyeInv'
  <2>1. PICK b \in Current(r.holder) :
          reads' = (reads \ {r}) \cup {[r EXCEPT !.balance = b]}
    BY <1>5 DEF ReadChain
  <2>2. UNCHANGED <<clock, held, view, observation>>
    BY <1>5 DEF ReadChain
  <2>3. /\ r \in [number: 1 .. MaxReads, holder: Holder, asked: Nat, balance: Nat \cup {None}]
        /\ r.holder \in Holder /\ r.asked \in 0 .. clock
    BY DEF EyeInv, EyeTypes, ReadsTrue
  <2>4. b \in held[r.holder][clock] /\ b \in Nat
    BY <1>0, <2>1, <2>3 DEF Current, EyeInv, EyeTypes
  <2>5. EyeTypes'
    <3>1. [r EXCEPT !.balance = b]
            \in [number: 1 .. MaxReads, holder: Holder, asked: Nat, balance: Nat \cup {None}]
      BY <2>3, <2>4
    <3> QED  BY <2>1, <2>2, <3>1 DEF EyeInv, EyeTypes, view
  <2>6. \A q \in reads' : q \in reads \/ (q.holder = r.holder /\ q.asked = r.asked /\ q.balance = b)
    BY <2>1, <2>3
  <2>7. Had(r.holder, b, r.asked, clock)'
    <3>1. clock \in r.asked .. clock
      BY <1>0, <2>3
    <3> QED  BY <2>2, <2>4, <3>1 DEF Had
  <2>8. ReadsTrue' /\ ViewTrue' /\ AnswerTrue'
    BY <1>0, <2>2, <2>3, <2>6, <2>7, HistoryStays
  <2> QED  BY <2>5, <2>8 DEF EyeInv
<1>6. ASSUME NEW r \in reads, Apply(r)
      PROVE  EyeInv'
  <2>1. /\ r \in [number: 1 .. MaxReads, holder: Holder, asked: Nat, balance: Nat \cup {None}]
        /\ r.holder \in Holder /\ r.asked \in 0 .. clock
        /\ r.balance # None /\ r.balance \in Nat
        /\ Had(r.holder, r.balance, r.asked, clock)
    BY <1>6 DEF EyeInv, EyeTypes, ReadsTrue, Apply
  <2>2. /\ balances' = [balances EXCEPT ![r.holder] = r.balance]
        /\ last_seen' = [last_seen EXCEPT ![r.holder] = r.asked]
        /\ reads' = reads \ {r} /\ UNCHANGED <<clock, held>>
    BY <1>6 DEF Apply, DatedAt
  <2>3. /\ observation'.holder = r.holder /\ observation'.balance = balances'[r.holder]
        /\ observation'.observed_at = r.asked /\ observation'.answered = clock
        /\ observation'.freshness = "fresh"
    BY <1>6 DEF Apply, DatedAt, Observed
  <2>4. EyeTypes'
    BY <2>1, <2>2 DEF EyeInv, EyeTypes
  <2>5. ReadsTrue'
    BY <2>2 DEF EyeInv, ReadsTrue, Had
  <2>6. ViewTrue'
    BY <2>1, <2>2 DEF EyeInv, EyeTypes, ViewTrue, Had
  <2>7. AnswerTrue'
    <3>1. balances'[r.holder] = r.balance
      BY <2>1, <2>2 DEF EyeInv, EyeTypes
    <3> QED  BY <1>0, <2>1, <2>2, <2>3, <3>1 DEF AnswerTrue, Had
  <2> QED  BY <2>4, <2>5, <2>6, <2>7 DEF EyeInv
<1>7. ASSUME NEW r \in reads, ReadFails(r)
      PROVE  EyeInv'
  <2>1. reads' = reads \ {r} /\ UNCHANGED <<clock, held, balances, last_seen>>
    BY <1>7 DEF ReadFails
  <2>2. observation'.freshness \in {"unknown", "stale"}
    BY <1>7 DEF ReadFails, Failure, Observed
  <2>3. EyeTypes' /\ ReadsTrue' /\ ViewTrue'
    BY <2>1 DEF EyeInv, EyeTypes, ReadsTrue, ViewTrue, Had
  <2> QED  BY <2>2, <2>3 DEF EyeInv, AnswerTrue, Operational
<1>8. ASSUME UNCHANGED eyeVars
      PROVE  EyeInv'
  BY <1>8 DEF eyeVars, view, EyeInv, EyeTypes, ReadsTrue, ViewTrue, AnswerTrue, Had, Operational
<1>9. ASSUME NEW h \in Holder, Observe(h) \/ ObserveFresh(h)
      PROVE  EyeInv'
  <2>1. CASE Asks(h) /\ UNCHANGED <<clock, held, view, observation>>
    BY <1>3, <2>1
  <2>2. CASE Answered(h) /\ UNCHANGED <<clock, held, view, reads>>
    BY <1>4, <2>2
  <2> QED  BY <1>9, <2>1, <2>2 DEF Observe, ObserveFresh
<1> QED  BY <1>1, <1>2, <1>5, <1>6, <1>7, <1>8, <1>9 DEF EyeNext

\* A lane that is about to use an endpoint has had it accepted.
DonationInv ==
  /\ EndpointVouched
  /\ lane \in [Lanes -> {None} \cup [step: {"validating", "stored", "probing"},
                                     value: Endpoint \cup Key \cup {Fallback}]]
  /\ \A l \in Lanes : At(l, "stored") => lane[l].value \in Sound \cup {Fallback}

LEMMA DonationStarts == DonationInit => DonationInv
  BY DEF DonationInit, DonationInv, EndpointVouched, InUse, Lanes, At

LEMMA DonationKeeps == DonationInv /\ [DonationNext]_donationVars => DonationInv'
<1> SUFFICES ASSUME DonationInv, [DonationNext]_donationVars  PROVE DonationInv'
  OBVIOUS
<1> USE DEF DonationInv, EndpointVouched, InUse, At, Waits, Done
<1>1. ASSUME NEW l \in Lanes, NEW e \in Endpoint, Provision(l, e)
      PROVE  DonationInv'
  BY <1>1 DEF Provision
<1>2. ASSUME NEW l \in Lanes, NEW k \in Key, VeniceKey(l, k)
      PROVE  DonationInv'
  BY <1>2 DEF VeniceKey
<1>3. ASSUME NEW l \in Lanes, Persist(l)
      PROVE  DonationInv'
  BY <1>3 DEF Persist, Validates
<1>4. ASSUME NEW l \in Lanes, Activate(l)
      PROVE  DonationInv'
  BY <1>4 DEF Activate
<1>5. ASSUME ClearEndpoint
      PROVE  DonationInv'
  BY <1>5 DEF ClearEndpoint, Lanes
<1>6. ASSUME Probe
      PROVE  DonationInv'
  BY <1>6 DEF Probe, Lanes
<1>7. ASSUME Restart
      PROVE  DonationInv'
  BY <1>7 DEF Restart
<1>8. ASSUME UNCHANGED donationVars
      PROVE  DonationInv'
  BY <1>8 DEF donationVars
<1> QED  BY <1>1, <1>2, <1>3, <1>4, <1>5, <1>6, <1>7, <1>8 DEF DonationNext

\* ChainIsVouched (`observe', `apply_refresh', `BaseRpcStore::provision', `open'):
\* for any holders, balances, reads, donated credentials and restarts, a balance
\* that may carry a decision was held when it says, and the endpoint in use was
\* accepted by its service.  The two share no variable, so each goes its own way.
THEOREM ChainVouched == EyeSpec /\ DonationSpec => []ChainIsVouched
<1>1. EyeInv => OperationalIsTrue
  <2> SUFFICES ASSUME EyeInv, Operational(observation)  PROVE OperationalIsTrue
    BY DEF OperationalIsTrue
  <2> QED  BY DEF EyeInv, AnswerTrue, Had, OperationalIsTrue
<1>2. DonationInv => EndpointVouched
  BY DEF DonationInv
<1>3. EyeInv /\ DonationInv => ChainIsVouched
  BY <1>1, <1>2 DEF ChainIsVouched
<1> QED  BY <1>3, EyeStarts, EyeKeeps, DonationStarts, DonationKeeps, PTL DEF EyeSpec, DonationSpec

-----------------------------------------------------------------------------
(* The workspace journal *)

\* The files, the trees and the checkpoint under way are what their names say, and
\* only a tip has a parent.
WorkspaceTypes ==
    /\ work \in Tree /\ index \in Tree /\ head \in Tree /\ previous \in Tree
    /\ parent \in Tree \cup {Nothing}
    /\ parent # Nothing => repo = "born"
    /\ release \in Nat
    /\ ck \in Checkpoint \cup {Nothing}
    /\ raced \subseteq Path

\* Every action ends with the history brought up to date.
LEMMA RaceStays ==
  ASSUME NEW reported, Remember(reported), raced \subseteq Path
  PROVE  raced' \subseteq Path
BY Zenon DEF Remember, DirtyIn

LEMMA WorkspaceStarts ==
  WorkspaceInit => WorkspaceTypes
<1>1. \A f, n : n \in Nat => [Empty EXCEPT ![f] = n] \in Tree
  BY DEF Empty, Tree
<1>2. Empty \in Tree
  BY DEF Empty, Tree
<1>. SUFFICES ASSUME WorkspaceInit PROVE WorkspaceTypes
  OBVIOUS
<1>3. work \in Tree /\ index \in Tree /\ head \in Tree
  <2>1. PICK f \in File, w \in {0, 1, 2}, i \in {0, 1, 2}, born \in BOOLEAN :
           /\ work = [Empty EXCEPT ![f] = w]
           /\ index = [Empty EXCEPT ![f] = i]
           /\ head = [Empty EXCEPT ![f] = IF born THEN 1 ELSE 0]
    BY DEF WorkspaceInit
  <2>2. w \in Nat /\ i \in Nat /\ (IF born THEN 1 ELSE 0) \in Nat
    OBVIOUS
  <2>. QED BY <2>1, <2>2, <1>1, Zenon
<1>. QED BY <1>2, <1>3 DEF WorkspaceInit, WorkspaceTypes

LEMMA CommitTyped ==
  ASSUME NEW tree \in Tree, work \in Tree
  PROVE  Commit(tree) \in Tree
BY DEF Commit, Tree

LEMMA WritesTyped ==
  ASSUME NEW paths, NEW text \in Text \cup {0}, Writes(paths, text), work \in Tree
  PROVE  work' \in Tree
BY WorkspaceAssumption DEF Writes, Tree

LEMMA WorkspaceTyped ==
  WorkspaceTypes /\ [WorkspaceNext]_workspaceVars => WorkspaceTypes'
<1>. SUFFICES ASSUME WorkspaceTypes, [WorkspaceNext]_workspaceVars
     PROVE  WorkspaceTypes'
  OBVIOUS
<1>0. work \in Tree /\ index \in Tree /\ head \in Tree /\ previous \in Tree
      /\ parent \in Tree \cup {Nothing} /\ release \in Nat
      /\ ck \in Checkpoint \cup {Nothing} /\ raced \subseteq Path
      /\ (parent # Nothing => repo = "born")
  BY DEF WorkspaceTypes
<1>e. Empty \in Tree
  BY DEF Empty, Tree
<1>a. CASE Busy
  BY <1>0, <1>a, RaceStays DEF Busy, Fails, Answer, onDisk, WorkspaceTypes
<1>b. CASE Begin
  <2>1. raced' \subseteq Path
    BY <1>0, <1>b, RaceStays DEF Begin
  <2>2. previous' \in Tree
    BY <1>0, <1>b DEF Begin, Fails
  <2>3. ck' \in Checkpoint \cup {Nothing}
    <3>1. Journaled \subseteq Path /\ Staged \subseteq Path
          /\ Changed \cap Protected \subseteq Path
      BY DEF Journaled, Changed, Staged
    <3>2. \/ ck' = Nothing
          \/ ck' = [step |-> "log", changed |-> Journaled, current |-> work,
                    staged |-> Staged, protected |-> Changed \cap Protected,
                    old |-> Empty, tree |-> Empty, next |-> Empty]
      BY <1>b, Zenon DEF Begin, Fails, Answer
    <3>. QED BY <3>1, <3>2, <1>0, <1>e DEF Checkpoint
  <2>. QED BY <2>1, <2>2, <2>3, <1>0, <1>b DEF Begin, WorkspaceTypes
<1>c. CASE WriteLog
  <2>1. raced' \subseteq Path
    BY <1>0, <1>c, RaceStays DEF WriteLog
  <2>2. work' \in Tree
    BY <1>0, <1>c DEF WriteLog, Tree, Path
  <2>3. ck' \in Checkpoint \cup {Nothing}
    <3>1. ck \in Checkpoint /\ LOG \in Path
      BY <1>0, <1>c DEF WriteLog, Path
    <3>2. [ck EXCEPT !.step = "build", !.changed = @ \cup {LOG}] \in Checkpoint
      BY <3>1 DEF Checkpoint
    <3>. QED BY <3>2, <1>c, Zenon DEF WriteLog, Fails, Answer
  <2>. QED BY <2>1, <2>2, <2>3, <1>0, <1>c DEF WriteLog, WorkspaceTypes, Fails
<1>d. CASE Build
  <2>1. raced' \subseteq Path
    BY <1>0, <1>d, RaceStays DEF Build
  <2>2. Commit(head) \in Tree /\ Commit(index) \in Tree
    BY <1>0, CommitTyped
  <2>3. ck' \in Checkpoint \cup {Nothing}
    BY <1>0, <1>d, <2>2 DEF Build, Fails, Answer, Checkpoint
  <2>. QED BY <2>1, <2>3, <1>0, <1>d DEF Build, WorkspaceTypes, Fails
<1>f. CASE MoveHead
  <2>1. raced' \subseteq Path
    BY <1>0, <1>f, RaceStays DEF MoveHead
  <2>2. ck \in Checkpoint
    BY <1>0, <1>f DEF MoveHead
  <2>3. ck' \in Checkpoint \cup {Nothing}
    BY <2>2, <1>f DEF MoveHead, Fails, Answer, Checkpoint
  <2>4. head' \in Tree /\ parent' \in Tree \cup {Nothing}
    BY <2>2, <1>0, <1>f DEF MoveHead, Checkpoint
  <2>. QED BY <2>1, <2>3, <2>4, <1>0, <1>f DEF MoveHead, WorkspaceTypes, Fails
<1>g. CASE FinishCheckpoint
  <2>1. raced' \subseteq Path
    BY <1>0, <1>g, RaceStays DEF FinishCheckpoint
  <2>2. index' \in Tree
    BY <1>0, <1>g DEF FinishCheckpoint, Checkpoint
  <2>. QED BY <2>1, <2>2, <1>0, <1>g DEF FinishCheckpoint, WorkspaceTypes, Answer
<1>h. CASE Start
  <2>1. raced' \subseteq Path
    BY <1>0, <1>h, RaceStays DEF Start
  <2>2. release' \in Nat
    BY <1>0, <1>h DEF Start
  <2>. QED BY <2>1, <2>2, <1>0, <1>e, <1>h DEF Start, WorkspaceTypes
<1>i. CASE RefreshHelper
  <2>1. raced' \subseteq Path
    BY <1>0, <1>i, RaceStays DEF RefreshHelper
  <2>2. work' \in Tree
    BY <1>0, <1>i DEF RefreshHelper, Tree
  <2>. QED BY <2>1, <2>2, <1>0, <1>i DEF RefreshHelper, WorkspaceTypes, memory
<1>j. CASE SeedFiles
  <2>1. raced' \subseteq Path
    BY <1>0, <1>j, RaceStays DEF SeedFiles
  <2>2. work' \in Tree
    BY <1>0, <1>j DEF SeedFiles, Tree
  <2>. QED BY <2>1, <2>2, <1>0, <1>j DEF SeedFiles, WorkspaceTypes, memory
<1>k. CASE \E p \in Path, text \in Text \cup {0} : Tool(p, text)
  <2>1. raced' \subseteq Path
    BY <1>0, <1>k, RaceStays DEF Tool, ToolEnds
  <2>2. work' \in Tree
    BY <1>0, <1>k, WritesTyped DEF Tool
  <2>. QED BY <2>1, <2>2, <1>0, <1>k DEF Tool, ToolEnds, WorkspaceTypes
<1>l. CASE \E text \in Text \cup {0} : Exec(text)
  <2>1. raced' \subseteq Path
    BY <1>0, <1>l, RaceStays DEF Exec, ToolEnds
  <2>2. work' \in Tree
    BY <1>0, <1>l, WritesTyped DEF Exec
  <2>. QED BY <2>1, <2>2, <1>0, <1>l DEF Exec, ToolEnds, WorkspaceTypes
<1>m. CASE IdleTool
  <2>1. raced' \subseteq Path
    BY <1>0, <1>m, RaceStays DEF IdleTool
  <2>. QED BY <2>1, <1>0, <1>m DEF IdleTool, onDisk, WorkspaceTypes
<1>n. CASE \E p \in Path : OperatorEdits(p)
  <2>1. raced' \subseteq Path
    BY <1>0, <1>n, RaceStays DEF OperatorEdits
  <2>2. work' \in Tree
    BY <1>0, <1>n, WritesTyped DEF OperatorEdits
  <2>. QED BY <2>1, <2>2, <1>0, <1>n DEF OperatorEdits, memory, WorkspaceTypes
<1>o. CASE \E p \in Path : Stages(p)
  <2>1. raced' \subseteq Path
    BY <1>0, <1>o, RaceStays DEF Stages
  <2>2. index' \in Tree
    BY <1>0, <1>o DEF Stages, Tree
  <2>. QED BY <2>1, <2>2, <1>0, <1>o DEF Stages, Git, memory, WorkspaceTypes
<1>p. CASE OpensCommit
  <2>1. raced' \subseteq Path
    BY <1>0, <1>p, RaceStays DEF OpensCommit
  <2>. QED BY <2>1, <1>0, <1>p DEF OpensCommit, Git, memory, WorkspaceTypes
<1>q. CASE Commits
  <2>1. raced' \subseteq Path
    BY <1>0, <1>q, RaceStays DEF Commits
  <2>. QED BY <2>1, <1>0, <1>q DEF Commits, memory, WorkspaceTypes
<1>r. CASE ResetsSoftly
  <2>1. raced' \subseteq Path
    BY <1>0, <1>r, RaceStays DEF ResetsSoftly
  <2>. QED BY <2>1, <1>0, <1>r DEF ResetsSoftly, Git, memory, WorkspaceTypes
<1>s. CASE RemovesStaleLock
  <2>1. raced' \subseteq Path
    BY <1>0, <1>s, RaceStays DEF RemovesStaleLock
  <2>. QED BY <2>1, <1>0, <1>s DEF RemovesStaleLock, memory, WorkspaceTypes
<1>t. CASE Killed
  <2>1. raced' \subseteq Path
    BY <1>0, <1>t, RaceStays DEF Killed
  <2>. QED BY <2>1, <1>0, <1>e, <1>t DEF Killed, WorkspaceTypes
<1>u. CASE UNCHANGED workspaceVars
  BY <1>0, <1>u DEF workspaceVars, onDisk, memory, history, WorkspaceTypes
<1>. QED
  BY <1>a, <1>b, <1>c, <1>d, <1>f, <1>g, <1>h, <1>i, <1>j, <1>k, <1>l, <1>m, <1>n,
     <1>o, <1>p, <1>q, <1>r, <1>s, <1>t, <1>u DEF WorkspaceNext

-----------------------------------------------------------------------------
(* What a checkpoint leaves alone. *)

\* A checkpoint runs in a live process that holds the index lock.
LockHeld ==
    ck # Nothing => proc \in {"new", "ready", "serve"} /\ lock = "agent"

\* What stayed dirty since the start is still among the paths remembered from it.
KeptIsRemembered ==
    proc # "down" => kept \subseteq preexisting \cap dirty_paths

\* What the checkpoint commits is neither kept nor staged, and so is the log; the
\* built tree and index differ from those they replace only in it.
LeavesAlone ==
    ck # Nothing =>
        /\ LOG \notin kept \cup ck.staged
        /\ ck.changed \cap (kept \cup ck.staged) = {}
        /\ ck.step \in {"move", "finish"} =>
             \A p \in Path \ ck.changed :
                ck.tree[p] = ck.old[p] /\ ck.next[p] = index[p]

OperatorInv == LockHeld /\ KeptIsRemembered /\ LeavesAlone

\* The history of what stayed dirty only shrinks, except at the start of a process.
LEMMA KeptShrinks ==
  ASSUME NEW reported, Remember(reported), ~(proc = "down" /\ proc' = "new")
  PROVE  kept' \subseteq kept /\ kept' \subseteq dirty_paths'
BY Zenon DEF Remember, dirty_paths

\* An action that leaves the process and its memory alone, and the index while a
\* checkpoint is under way, keeps the invariant.
LEMMA BystanderLeavesAlone ==
  ASSUME OperatorInv, NEW reported, Remember(reported),
         ck' = ck, preexisting' = preexisting,
         proc = "down" => proc' = "down",
         ck # Nothing => index' = index /\ lock' = lock /\ proc' = proc
  PROVE  OperatorInv'
<1>1. CASE proc = "down"
  <2>1. ck = Nothing
    BY <1>1 DEF OperatorInv, LockHeld
  <2>. QED BY <1>1, <2>1 DEF OperatorInv, LockHeld, KeptIsRemembered, LeavesAlone
<1>2. CASE proc # "down"
  <2>1. kept' \subseteq kept /\ kept' \subseteq dirty_paths'
    BY <1>2, KeptShrinks
  <2>2. LockHeld'
    BY DEF OperatorInv, LockHeld
  <2>3. KeptIsRemembered'
    BY <1>2, <2>1 DEF OperatorInv, KeptIsRemembered
  <2>4. LeavesAlone'
    <3>. SUFFICES ASSUME ck # Nothing PROVE LeavesAlone'
      BY DEF LeavesAlone
    <3>1. index' = index
      OBVIOUS
    <3>2. /\ LOG \notin kept \cup ck.staged
          /\ ck.changed \cap (kept \cup ck.staged) = {}
          /\ ck.step \in {"move", "finish"} =>
               \A p \in Path \ ck.changed :
                  ck.tree[p] = ck.old[p] /\ ck.next[p] = index[p]
      BY DEF OperatorInv, LeavesAlone
    <3>. QED BY <2>1, <3>1, <3>2 DEF LeavesAlone
  <2>. QED BY <2>2, <2>3, <2>4 DEF OperatorInv
<1>. QED BY <1>1, <1>2

\* So does one that ends the checkpoint, or runs when none is under way.
LEMMA AnswerLeavesAlone ==
  ASSUME OperatorInv, NEW reported, Remember(reported), proc # "down",
         ck' = Nothing,
         preexisting' = preexisting \/ preexisting' = preexisting \cap dirty_paths
  PROVE  OperatorInv'
<1>1. kept' \subseteq kept /\ kept' \subseteq dirty_paths'
  BY KeptShrinks
<1>2. kept \subseteq preexisting \cap dirty_paths
  BY DEF OperatorInv, KeptIsRemembered
<1>3. KeptIsRemembered'
  <2>1. kept' \subseteq preexisting'
    BY <1>1, <1>2
  <2>. QED BY <1>1, <2>1 DEF KeptIsRemembered
<1>. QED BY <1>3 DEF OperatorInv, LockHeld, LeavesAlone

LEMMA OperatorStarts ==
  WorkspaceInit => OperatorInv
BY DEF WorkspaceInit, OperatorInv, LockHeld, KeptIsRemembered, LeavesAlone

LEMMA OperatorKeeps ==
  WorkspaceTypes /\ OperatorInv /\ [WorkspaceNext]_workspaceVars => OperatorInv'
<1>. SUFFICES ASSUME WorkspaceTypes, OperatorInv, [WorkspaceNext]_workspaceVars
     PROVE  OperatorInv'
  OBVIOUS
<1>0. ck \in Checkpoint \cup {Nothing}
  BY DEF WorkspaceTypes
<1>1. /\ LockHeld
      /\ proc # "down" => kept \subseteq preexisting \cap dirty_paths
      /\ ck # Nothing => /\ LOG \notin kept \cup ck.staged
                         /\ ck.changed \cap (kept \cup ck.staged) = {}
  BY DEF OperatorInv, KeptIsRemembered, LeavesAlone
<1>a. CASE Busy
  <2>1. Remember({}) /\ proc # "down" /\ ck' = Nothing /\ preexisting' = preexisting
    BY <1>a DEF Busy, Fails, Answer
  <2>. QED BY <2>1, AnswerLeavesAlone
<1>b. CASE Begin
  <2>1. proc # "down" /\ preexisting' = preexisting \cap dirty_paths
        /\ ck = Nothing /\ index' = index
    BY <1>b DEF Begin
  <2>2. CASE ck' = Nothing
    <3>1. \E reported : Remember(reported)
      BY <1>b, Zenon DEF Begin
    <3>. QED BY <2>1, <2>2, <3>1, AnswerLeavesAlone
  <2>3. CASE ck' # Nothing
    <3>1. /\ LOG \notin Protected /\ Remember({})
          /\ ck' = [step |-> "log", changed |-> Journaled, current |-> work,
                    staged |-> Staged, protected |-> Changed \cap Protected,
                    old |-> Empty, tree |-> Empty, next |-> Empty]
          /\ lock' = "agent" /\ proc' = proc /\ proc \in {"new", "ready", "serve"}
      BY <1>b, <2>3 DEF Begin, Fails, Answer
    <3>2. kept' \subseteq kept /\ kept' \subseteq dirty_paths'
      BY <2>1, <3>1, KeptShrinks
    <3>3. kept \subseteq preexisting \cap dirty_paths
      BY <1>1, <2>1
    <3>4. KeptIsRemembered'
      <4>1. kept' \subseteq preexisting'
        BY <2>1, <3>2, <3>3
      <4>. QED BY <3>2, <4>1 DEF KeptIsRemembered
    <3>5. kept' \cup Staged \subseteq Protected
      BY <3>2, <3>3 DEF Protected
    <3>6. Journaled \cap Protected = {}
      BY DEF Journaled
    <3>7. ck'.changed = Journaled /\ ck'.staged = Staged /\ ck'.step = "log"
      BY <3>1
    <3>8. LeavesAlone'
      BY <3>1, <3>5, <3>6, <3>7 DEF LeavesAlone
    <3>9. LockHeld'
      BY <3>1 DEF LockHeld
    <3>. QED BY <3>4, <3>8, <3>9 DEF OperatorInv
  <2>. QED BY <2>2, <2>3
<1>c. CASE WriteLog
  <2>0. proc # "down" /\ Remember({}) /\ preexisting' = preexisting /\ ck # Nothing
        /\ index' = index
    BY <1>c, <1>1 DEF WriteLog, LockHeld
  <2>1. CASE ck' = Nothing
    BY <2>0, <2>1, AnswerLeavesAlone
  <2>2. CASE ck' # Nothing
    <3>1. /\ ck' = [ck EXCEPT !.step = "build", !.changed = @ \cup {LOG}]
          /\ lock' = lock /\ proc' = proc
      BY <1>c, <2>2 DEF WriteLog, Fails, Answer
    <3>2. ck'.changed = ck.changed \cup {LOG} /\ ck'.staged = ck.staged
          /\ ck'.step = "build"
      BY <3>1, <2>0, <1>0 DEF Checkpoint
    <3>3. kept' \subseteq kept /\ kept' \subseteq dirty_paths'
      BY <2>0, KeptShrinks
    <3>4. KeptIsRemembered'
      BY <2>0, <3>3, <1>1 DEF KeptIsRemembered
    <3>5. LeavesAlone'
      BY <2>0, <3>2, <3>3, <1>1 DEF LeavesAlone
    <3>6. LockHeld'
      BY <2>0, <3>1, <1>1 DEF LockHeld
    <3>. QED BY <3>4, <3>5, <3>6 DEF OperatorInv
  <2>. QED BY <2>1, <2>2
<1>d. CASE Build
  <2>0. proc # "down" /\ Remember({}) /\ preexisting' = preexisting /\ ck # Nothing
        /\ index' = index
    BY <1>d, <1>1 DEF Build, LockHeld
  <2>1. CASE ck' = Nothing
    BY <2>0, <2>1, AnswerLeavesAlone
  <2>2. CASE ck' # Nothing
    <3>1. /\ ck' = [ck EXCEPT !.step = "move", !.old = head,
                              !.tree = Commit(head), !.next = Commit(index)]
          /\ lock' = lock /\ proc' = proc
      BY <1>d, <2>2 DEF Build, Fails, Answer
    <3>2. ck'.changed = ck.changed /\ ck'.staged = ck.staged
          /\ ck'.old = head /\ ck'.tree = Commit(head) /\ ck'.next = Commit(index)
      BY <3>1, <2>0, <1>0 DEF Checkpoint
    <3>3. kept' \subseteq kept /\ kept' \subseteq dirty_paths'
      BY <2>0, KeptShrinks
    <3>4. KeptIsRemembered'
      BY <2>0, <3>3, <1>1 DEF KeptIsRemembered
    <3>5. \A p \in Path \ ck.changed :
             Commit(head)[p] = head[p] /\ Commit(index)[p] = index[p]
      BY DEF Commit
    <3>6. LeavesAlone'
      BY <2>0, <3>2, <3>3, <3>5, <1>1 DEF LeavesAlone
    <3>7. LockHeld'
      BY <2>0, <3>1, <1>1 DEF LockHeld
    <3>. QED BY <3>4, <3>6, <3>7 DEF OperatorInv
  <2>. QED BY <2>1, <2>2
<1>e. CASE MoveHead
  <2>0. proc # "down" /\ Remember({}) /\ preexisting' = preexisting /\ ck # Nothing
        /\ index' = index /\ ck.step = "move"
    BY <1>e, <1>1 DEF MoveHead, LockHeld
  <2>1. CASE ck' = Nothing
    BY <2>0, <2>1, AnswerLeavesAlone
  <2>2. CASE ck' # Nothing
    <3>1. /\ ck' = [ck EXCEPT !.step = "finish"]
          /\ lock' = lock /\ proc' = proc
      BY <1>e, <2>2 DEF MoveHead, Fails, Answer
    <3>2. ck'.changed = ck.changed /\ ck'.staged = ck.staged
          /\ ck'.old = ck.old /\ ck'.tree = ck.tree /\ ck'.next = ck.next
      BY <3>1, <2>0, <1>0 DEF Checkpoint
    <3>3. kept' \subseteq kept /\ kept' \subseteq dirty_paths'
      BY <2>0, KeptShrinks
    <3>4. KeptIsRemembered'
      BY <2>0, <3>3, <1>1 DEF KeptIsRemembered
    <3>5. \A p \in Path \ ck.changed : ck.tree[p] = ck.old[p] /\ ck.next[p] = index[p]
      BY <2>0 DEF OperatorInv, LeavesAlone
    <3>6. LeavesAlone'
      BY <2>0, <3>2, <3>3, <3>5, <1>1 DEF LeavesAlone
    <3>7. LockHeld'
      BY <2>0, <3>1, <1>1 DEF LockHeld
    <3>. QED BY <3>4, <3>6, <3>7 DEF OperatorInv
  <2>. QED BY <2>1, <2>2
<1>f. CASE FinishCheckpoint
  <2>1. proc # "down" /\ Remember(ck.protected) /\ ck' = Nothing
        /\ preexisting' = preexisting
    BY <1>f, <1>1 DEF FinishCheckpoint, Answer, LockHeld
  <2>. QED BY <2>1, AnswerLeavesAlone
<1>g. CASE Start
  <2>1. ck' = Nothing
    BY <1>g, <1>1 DEF Start, LockHeld
  <2>2. KeptIsRemembered'
    <3>1. CASE repo = "none"
      BY <1>g, <3>1 DEF Start, Remember, KeptIsRemembered
    <3>2. CASE repo # "none"
      <4>1. repo' = repo /\ head' = head /\ index' = index /\ work' = work
            /\ preexisting' = dirty_paths
        BY <1>g, <3>2 DEF Start
      <4>2. kept' = DirtyIn(repo', head', index', work')
        BY <1>g, <3>2 DEF Start, Remember
      <4>3. dirty_paths' = kept' /\ kept' = preexisting'
        BY <4>1, <4>2, Zenon DEF dirty_paths
      <4>. QED BY <4>3 DEF KeptIsRemembered
    <3>. QED BY <3>1, <3>2
  <2>. QED BY <2>1, <2>2 DEF OperatorInv, LockHeld, LeavesAlone
<1>h. CASE RefreshHelper
  <2>1. Remember({}) /\ ck' = ck /\ preexisting' = preexisting /\ ck = Nothing
        /\ proc # "down"
    BY <1>h, <1>1 DEF RefreshHelper, memory, LockHeld
  <2>. QED BY <2>1, BystanderLeavesAlone
<1>i. CASE SeedFiles
  <2>1. Remember({}) /\ ck' = ck /\ preexisting' = preexisting /\ ck = Nothing
        /\ proc # "down"
    BY <1>i, <1>1 DEF SeedFiles, memory, LockHeld
  <2>. QED BY <2>1, BystanderLeavesAlone
<1>j. CASE \/ \E p \in Path, text \in Text \cup {0} : Tool(p, text)
           \/ \E text \in Text \cup {0} : Exec(text)
  <2>1. ToolEnds
    BY <1>j DEF Tool, Exec
  <2>2. Remember({}) /\ ck' = ck /\ preexisting' = preexisting /\ proc' = proc
        /\ index' = index /\ lock' = lock
    BY <2>1 DEF ToolEnds
  <2>. QED BY <2>2, BystanderLeavesAlone
<1>k. CASE IdleTool
  <2>1. Remember({}) /\ ck' = ck /\ preexisting' = preexisting /\ proc' = proc
        /\ index' = index /\ lock' = lock
    BY <1>k DEF IdleTool, onDisk
  <2>. QED BY <2>1, BystanderLeavesAlone
<1>l. CASE \E p \in Path : OperatorEdits(p)
  <2>1. Remember({}) /\ ck' = ck /\ preexisting' = preexisting /\ proc' = proc
        /\ index' = index /\ lock' = lock
    BY <1>l DEF OperatorEdits, memory
  <2>. QED BY <2>1, BystanderLeavesAlone
<1>m. CASE \E p \in Path : Stages(p)
  <2>1. Remember({}) /\ ck' = ck /\ preexisting' = preexisting /\ proc' = proc
        /\ lock = "free" /\ lock' = lock
    BY <1>m DEF Stages, Git, memory
  <2>2. ck = Nothing
    BY <2>1, <1>1 DEF LockHeld
  <2>. QED BY <2>1, <2>2, BystanderLeavesAlone
<1>n. CASE OpensCommit
  <2>1. Remember({}) /\ ck' = ck /\ preexisting' = preexisting /\ proc' = proc
        /\ lock = "free"
    BY <1>n DEF OpensCommit, Git, memory
  <2>2. ck = Nothing
    BY <2>1, <1>1 DEF LockHeld
  <2>. QED BY <2>1, <2>2, BystanderLeavesAlone
<1>o. CASE Commits
  <2>1. Remember(Path) /\ ck' = ck /\ preexisting' = preexisting /\ proc' = proc
        /\ lock = "operator"
    BY <1>o DEF Commits, memory
  <2>2. ck = Nothing
    BY <2>1, <1>1 DEF LockHeld
  <2>. QED BY <2>1, <2>2, BystanderLeavesAlone
<1>p. CASE ResetsSoftly
  <2>1. Remember(Path) /\ ck' = ck /\ preexisting' = preexisting /\ proc' = proc
        /\ index' = index /\ lock' = lock
    BY <1>p DEF ResetsSoftly, Git, memory
  <2>. QED BY <2>1, BystanderLeavesAlone
<1>q. CASE RemovesStaleLock
  <2>1. Remember({}) /\ ck' = ck /\ preexisting' = preexisting /\ proc' = proc
        /\ index' = index /\ lock = "stale"
    BY <1>q DEF RemovesStaleLock, memory
  <2>2. ck = Nothing
    BY <2>1, <1>1 DEF LockHeld
  <2>. QED BY <2>1, <2>2, BystanderLeavesAlone
<1>r. CASE Killed
  BY <1>r DEF Killed, OperatorInv, LockHeld, KeptIsRemembered, LeavesAlone
<1>s. CASE UNCHANGED workspaceVars
  <2>1. UNCHANGED <<work, index, head, repo, lock, proc, preexisting, ck, kept>>
    BY <1>s DEF workspaceVars, onDisk, memory, history
  <2>. QED
    BY <2>1 DEF OperatorInv, LockHeld, KeptIsRemembered, LeavesAlone, dirty_paths
<1>. QED
  BY <1>a, <1>b, <1>c, <1>d, <1>e, <1>f, <1>g, <1>h, <1>i, <1>j, <1>k, <1>l, <1>m, <1>n,
     <1>o, <1>p, <1>q, <1>r, <1>s DEF WorkspaceNext

\* What OperatorsWorkStays asks of one step.
LEMMA StepLeavesAlone ==
  ASSUME WorkspaceTypes, OperatorInv, [WorkspaceNext]_workspaceVars,
         ck # Nothing, ck' # ck, ck.step \in {"move", "finish"},
         NEW p \in Path, p \in kept \cup ck.staged
  PROVE  index'[p] = index[p] /\ head'[p] = head[p]
<1>1. /\ ck.tree[p] = ck.old[p] /\ ck.next[p] = index[p]
      /\ lock = "agent" /\ proc \in {"new", "ready", "serve"}
  BY DEF OperatorInv, LeavesAlone, LockHeld
<1>a. CASE MoveHead
  <2>1. index' = index /\ (head' = head \/ (head = ck.old /\ head' = ck.tree))
    BY <1>a DEF MoveHead
  <2>. QED BY <2>1, <1>1
<1>b. CASE FinishCheckpoint
  BY <1>b, <1>1 DEF FinishCheckpoint
<1>c. CASE Killed
  BY <1>c DEF Killed
<1>d. CASE Busy \/ Begin \/ WriteLog \/ Build \/ Start
  BY <1>d, <1>1 DEF Busy, Begin, WriteLog, Build, Start
<1>e. CASE \/ RefreshHelper \/ SeedFiles
           \/ \E q \in Path, text \in Text \cup {0} : Tool(q, text)
           \/ \E text \in Text \cup {0} : Exec(text)
           \/ IdleTool
  BY <1>e DEF RefreshHelper, SeedFiles, memory, Tool, Exec, ToolEnds, IdleTool
<1>f. CASE \/ \E q \in Path : OperatorEdits(q) \/ Stages(q)
           \/ OpensCommit \/ Commits \/ ResetsSoftly \/ RemovesStaleLock
  BY <1>f DEF OperatorEdits, Stages, OpensCommit, Commits, ResetsSoftly,
              RemovesStaleLock, Git, memory
<1>g. CASE UNCHANGED workspaceVars
  BY <1>g DEF workspaceVars, memory
<1>. QED
  BY <1>a, <1>b, <1>c, <1>d, <1>e, <1>f, <1>g DEF WorkspaceNext

\* Neither the commit nor the index of a checkpoint touches a path that has been
\* dirty since the process started, or that was staged when the checkpoint took the
\* index lock, whatever the tools and the operator do in between
\* (WorkspaceRuntime::checkpoint, commit_snapshot).
THEOREM OperatorsWorkIsLeftAlone == WorkspaceSpec => OperatorsWorkStays
<1>1. WorkspaceInit => WorkspaceTypes /\ OperatorInv
  BY WorkspaceStarts, OperatorStarts
<1>2. WorkspaceTypes /\ OperatorInv /\ [WorkspaceNext]_workspaceVars
        => (WorkspaceTypes /\ OperatorInv)'
  BY WorkspaceTyped, OperatorKeeps
<1>3. WorkspaceTypes /\ OperatorInv /\ [WorkspaceNext]_workspaceVars =>
        [ck # Nothing /\ ck' # ck /\ ck.step \in {"move", "finish"} =>
           \A p \in Path :
              p \in kept \cup ck.staged =>
                index'[p] = index[p] /\ head'[p] = head[p]]_workspaceVars
  BY StepLeavesAlone
<1>. QED BY <1>1, <1>2, <1>3, PTL DEF WorkspaceSpec, OperatorsWorkStays

-----------------------------------------------------------------------------
(* What the journal misses. *)

\* Before the first commit the tip is the empty tree.
TipIsBorn == repo # "born" => head = Empty

\* What the last snapshot and the tip tell apart is the operator's, or was written
\* during a checkpoint, or is in the commit whose checkpoint is about to finish.
SnapshotKeepsUp ==
    proc # "down" =>
        \A p \in Path :
            previous[p] # head[p] =>
                \/ p \in theirs \cup raced
                \/ ck # Nothing /\ ck.step = "finish" /\ p \in ck.changed

\* What a checkpoint under way knows of the files nobody wrote to meanwhile: its
\* reading of them is right, it passes over those that are as in the last snapshot
\* or reported, and it commits the others as it read them.
CheckpointKnows ==
    ck # Nothing =>
        /\ ck.step # "log" => LOG \in raced
        /\ ck.step = "finish" => repo = "born"
        /\ \A p \in Path \ raced :
             /\ work[p] = ck.current[p]
             /\ p \notin ck.changed =>
                  ck.current[p] = previous[p] \/ p \in ck.protected
             /\ p \in ck.changed /\ ck.step \in {"move", "finish"} =>
                  ck.tree[p] = ck.current[p]
             /\ p \in ck.changed /\ ck.step = "finish" =>
                  head[p] = ck.current[p] \/ p \in theirs

JournalInv == TipIsBorn /\ SnapshotKeepsUp /\ CheckpointKnows

\* Who is remembered after a step: a path that is dirty, or that the snapshot and
\* the tip tell apart, keeps its place in both histories, and while a checkpoint is
\* under way nothing leaves the second, which gains what was written.
LEMMA Remembered ==
  ASSUME NEW reported, Remember(reported), raced \subseteq Path, NEW p \in Path
  PROVE  /\ previous'[p] # head'[p] \/ p \in DirtyIn(repo', head', index', work') =>
              /\ p \in theirs \cup reported => p \in theirs'
              /\ p \in raced => p \in raced'
         /\ ck' # Nothing => (p \in raced => p \in raced')
         /\ ck' # Nothing /\ ck # Nothing /\ work'[p] # work[p] => p \in raced'
<1>. DEFINE dirtied == DirtyIn(repo', head', index', work')
            ahead == {q \in Path : previous'[q] # head'[q]}
            written == {q \in Path : ck # Nothing /\ work'[q] # work[q]}
<1>1. /\ theirs' = (theirs \cup reported) \cap (dirtied \cup ahead)
      /\ raced' = (raced \cup written)
                    \cap (dirtied \cup ahead \cup IF ck' # Nothing THEN Path ELSE {})
  BY Zenon DEF Remember
<1>2. previous'[p] # head'[p] => p \in ahead
  OBVIOUS
<1>3. ck # Nothing /\ work'[p] # work[p] => p \in written
  OBVIOUS
<1>. HIDE DEF dirtied, ahead, written
<1>4. previous'[p] # head'[p] \/ p \in dirtied =>
        /\ p \in theirs \cup reported => p \in theirs'
        /\ p \in raced => p \in raced'
  BY <1>1, <1>2
<1>5. ck' # Nothing => (p \in raced \cup written => p \in raced')
  BY <1>1
<1>. QED BY <1>3, <1>4, <1>5 DEF dirtied

\* On a born branch, a file that is not as in the tip is dirty.
LEMMA DirtyOnceBorn ==
  ASSUME NEW p \in Path, NEW h \in Tree, NEW i \in Tree, NEW w \in Tree, w[p] # h[p]
  PROVE  p \in DirtyIn("born", h, i, w)
BY DEF DirtyIn, Tree

\* An action that leaves the snapshot and the tip's birth alone, and the tip or else
\* reports every path, keeps the invariant.
LEMMA BystanderKeepsUp ==
  ASSUME WorkspaceTypes, WorkspaceTypes', JournalInv,
         NEW reported, Remember(reported),
         ck' = ck, previous' = previous, repo = "born" => repo' = "born",
         proc = "down" => proc' = "down",
         \/ head' = head /\ repo' = repo
         \/ reported = Path /\ repo' = "born"
  PROVE  JournalInv'
<1>0. raced \subseteq Path /\ work' \in Tree /\ index' \in Tree /\ head' \in Tree
  BY DEF WorkspaceTypes
<1>1. TipIsBorn'
  BY DEF JournalInv, TipIsBorn
<1>2. SnapshotKeepsUp'
  <2>. SUFFICES ASSUME proc' # "down", NEW p \in Path, previous'[p] # head'[p],
                       ~(ck # Nothing /\ ck.step = "finish" /\ p \in ck.changed)
       PROVE  p \in theirs' \cup raced'
    BY DEF SnapshotKeepsUp
  <2>1. p \in theirs \cup reported => p \in theirs'
    BY <1>0, Remembered
  <2>2. p \in raced => p \in raced'
    BY <1>0, Remembered
  <2>3. CASE reported = Path
    BY <2>1, <2>3
  <2>4. CASE head' = head
    <3>1. proc # "down" /\ previous[p] # head[p]
      BY <2>4
    <3>2. p \in theirs \cup raced
      BY <3>1 DEF JournalInv, SnapshotKeepsUp
    <3>. QED BY <3>2, <2>1, <2>2
  <2>. QED BY <2>3, <2>4
<1>3. CheckpointKnows'
  <2>. SUFFICES ASSUME ck # Nothing PROVE CheckpointKnows'
    BY DEF CheckpointKnows
  <2>0. /\ ck.step # "log" => LOG \in raced
        /\ ck.step = "finish" => repo = "born"
        /\ \A p \in Path \ raced :
             /\ work[p] = ck.current[p]
             /\ p \notin ck.changed =>
                  ck.current[p] = previous[p] \/ p \in ck.protected
             /\ p \in ck.changed /\ ck.step \in {"move", "finish"} =>
                  ck.tree[p] = ck.current[p]
             /\ p \in ck.changed /\ ck.step = "finish" =>
                  head[p] = ck.current[p] \/ p \in theirs
    BY DEF JournalInv, CheckpointKnows
  <2>1. LOG \in Path
    BY DEF Path
  <2>2. ck.step # "log" => LOG \in raced'
    BY <1>0, <2>0, <2>1, Remembered
  <2>3. \A p \in Path \ raced' : p \notin raced /\ work'[p] = work[p]
    BY <1>0, Remembered
  <2>4. ASSUME NEW p \in Path, p \notin raced', p \in ck.changed, ck.step = "finish",
               head'[p] # ck.current[p]
        PROVE  p \in theirs'
    <3>1. work'[p] = ck.current[p]
      BY <2>0, <2>3, <2>4
    <3>2. repo' = "born"
      BY <2>0, <2>4
    <3>3. p \in DirtyIn(repo', head', index', work')
      BY <1>0, <2>4, <3>1, <3>2, DirtyOnceBorn
    <3>4. p \in theirs \cup reported => p \in theirs'
      BY <1>0, <3>3, Remembered
    <3>5. CASE reported = Path
      BY <3>4, <3>5
    <3>6. CASE head' = head
      <4>1. p \in theirs
        BY <2>0, <2>3, <2>4, <3>6
      <4>. QED BY <3>4, <4>1
    <3>. QED BY <3>5, <3>6
  <2>. QED BY <2>0, <2>2, <2>3, <2>4 DEF CheckpointKnows
<1>. QED BY <1>1, <1>2, <1>3 DEF JournalInv

\* An error, and the end of a process, change no file, no snapshot and no tip.
LEMMA ErrorKeepsUp ==
  ASSUME WorkspaceTypes, JournalInv, NEW reported, Remember(reported),
         ck' = Nothing, previous' = previous, head' = head, repo' = repo,
         proc # "down", ck = Nothing \/ ck.step # "finish"
  PROVE  JournalInv'
<1>1. TipIsBorn' /\ CheckpointKnows'
  BY DEF JournalInv, TipIsBorn, CheckpointKnows
<1>2. SnapshotKeepsUp'
  <2>. SUFFICES ASSUME NEW p \in Path, previous'[p] # head'[p]
       PROVE  p \in theirs' \cup raced'
    BY DEF SnapshotKeepsUp
  <2>1. p \in theirs \cup raced
    BY DEF JournalInv, SnapshotKeepsUp
  <2>2. p \in theirs \cup reported => p \in theirs'
    BY Remembered DEF WorkspaceTypes
  <2>3. p \in raced => p \in raced'
    BY Remembered DEF WorkspaceTypes
  <2>. QED BY <2>1, <2>2, <2>3
<1>. QED BY <1>1, <1>2 DEF JournalInv

LEMMA JournalStarts ==
  WorkspaceInit => JournalInv
<1>. SUFFICES ASSUME WorkspaceInit PROVE JournalInv
  OBVIOUS
<1>1. TipIsBorn
  <2>1. PICK f \in File, born \in BOOLEAN :
           /\ repo = IF born THEN "born" ELSE "none"
           /\ head = [Empty EXCEPT ![f] = IF born THEN 1 ELSE 0]
    BY DEF WorkspaceInit
  <2>2. CASE ~born
    <3>1. head = [Empty EXCEPT ![f] = 0]
      BY <2>1, <2>2
    <3>. QED BY <3>1 DEF TipIsBorn, Empty
  <2>. QED BY <2>1, <2>2 DEF TipIsBorn
<1>. QED BY <1>1 DEF WorkspaceInit, JournalInv, SnapshotKeepsUp, CheckpointKnows

LEMMA BeginKeepsUp ==
  ASSUME WorkspaceTypes, JournalInv, Begin
  PROVE  JournalInv'
<1>0. /\ ck = Nothing /\ proc # "down" /\ head' = head /\ repo' = repo /\ work' = work
      /\ raced \subseteq Path
  BY DEF Begin, WorkspaceTypes
<1>1. PICK reported : Remember(reported)
  BY Zenon DEF Begin
<1>2. CASE ck' = Nothing
  <2>1. previous' = previous \/ (Changed = {} /\ previous' = work)
    BY <1>2, Zenon DEF Begin, Fails
  <2>2. TipIsBorn' /\ CheckpointKnows'
    BY <1>0, <1>2 DEF JournalInv, TipIsBorn, CheckpointKnows
  <2>3. SnapshotKeepsUp'
    <3>. SUFFICES ASSUME NEW p \in Path, previous'[p] # head'[p]
         PROVE  p \in theirs' \cup raced'
      BY DEF SnapshotKeepsUp
    <3>1. previous'[p] = previous[p]
      BY <2>1 DEF Changed
    <3>2. p \in theirs \cup raced
      BY <1>0, <3>1 DEF JournalInv, SnapshotKeepsUp
    <3>3. p \in theirs \cup reported => p \in theirs'
      BY <1>0, <1>1, Remembered
    <3>4. p \in raced => p \in raced'
      BY <1>0, <1>1, Remembered
    <3>. QED BY <3>2, <3>3, <3>4
  <2>. QED BY <2>2, <2>3 DEF JournalInv
<1>3. CASE ck' # Nothing
  <2>1. /\ ck' = [step |-> "log", changed |-> Journaled, current |-> work,
                  staged |-> Staged, protected |-> Changed \cap Protected,
                  old |-> Empty, tree |-> Empty, next |-> Empty]
        /\ previous' = previous
    BY <1>3 DEF Begin, Fails, Answer
  <2>2. /\ ck'.step = "log" /\ ck'.changed = Journaled /\ ck'.current = work
        /\ ck'.protected = Changed \cap Protected
    BY <2>1
  <2>3. TipIsBorn'
    BY <1>0 DEF JournalInv, TipIsBorn
  <2>4. SnapshotKeepsUp'
    <3>. SUFFICES ASSUME NEW p \in Path, previous'[p] # head'[p]
         PROVE  p \in theirs' \cup raced'
      BY DEF SnapshotKeepsUp
    <3>1. p \in theirs \cup raced
      BY <1>0, <2>1 DEF JournalInv, SnapshotKeepsUp
    <3>2. p \in theirs \cup reported => p \in theirs'
      BY <1>0, <1>1, Remembered
    <3>3. p \in raced => p \in raced'
      BY <1>0, <1>1, Remembered
    <3>. QED BY <3>1, <3>2, <3>3
  <2>5. \A p \in Path : p \notin Journaled =>
           work[p] = previous[p] \/ p \in Changed \cap Protected
    BY DEF Journaled, Changed
  <2>6. CheckpointKnows'
    BY <1>0, <2>1, <2>2, <2>5 DEF CheckpointKnows
  <2>. QED BY <2>3, <2>4, <2>6 DEF JournalInv
<1>. QED BY <1>2, <1>3

\* A step of a checkpoint that goes on, and is not its last, writes at most the log;
\* it keeps the invariant when it builds and moves as the two last premises say.
LEMMA WriteLogKeepsUp ==
  ASSUME WorkspaceTypes, OperatorInv, JournalInv, WriteLog
  PROVE  JournalInv'
<1>0. /\ ck \in Checkpoint /\ ck # Nothing /\ ck.step = "log" /\ Remember({}) /\ proc # "down"
      /\ head' = head /\ repo' = repo /\ previous' = previous
      /\ raced \subseteq Path /\ work \in Tree /\ LOG \in Path
  BY DEF WriteLog, WorkspaceTypes, OperatorInv, LockHeld, Fails, Path
<1>1. CASE ck' = Nothing
  BY <1>0, <1>1, ErrorKeepsUp
<1>2. CASE ck' # Nothing
  <2>1. /\ ck' = [ck EXCEPT !.step = "build", !.changed = @ \cup {LOG}]
        /\ work' = [work EXCEPT ![LOG] = @ + 1]
    BY <1>2 DEF WriteLog, Fails, Answer
  <2>2. /\ ck'.step = "build" /\ ck'.changed = ck.changed \cup {LOG}
        /\ ck'.current = ck.current /\ ck'.protected = ck.protected
    BY <1>0, <2>1 DEF Checkpoint
  <2>3. work'[LOG] # work[LOG]
    BY <1>0, <2>1 DEF Tree
  <2>4. LOG \in raced'
    BY <1>0, <1>2, <2>3, Remembered
  <2>5. \A p \in Path \ raced' : p \notin raced /\ work'[p] = work[p]
    BY <1>0, <1>2, Remembered
  <2>6. TipIsBorn'
    BY <1>0 DEF JournalInv, TipIsBorn
  <2>7. SnapshotKeepsUp'
    <3>. SUFFICES ASSUME NEW p \in Path, previous'[p] # head'[p]
         PROVE  p \in theirs' \cup raced'
      BY DEF SnapshotKeepsUp
    <3>1. p \in theirs \cup raced
      BY <1>0 DEF JournalInv, SnapshotKeepsUp
    <3>2. p \in theirs => p \in theirs'
      BY <1>0, Remembered
    <3>3. p \in raced => p \in raced'
      BY <1>0, Remembered
    <3>. QED BY <3>1, <3>2, <3>3
  <2>8. \A p \in Path \ raced :
             /\ work[p] = ck.current[p]
             /\ p \notin ck.changed =>
                  ck.current[p] = previous[p] \/ p \in ck.protected
    BY <1>0 DEF JournalInv, CheckpointKnows
  <2>9. CheckpointKnows'
    BY <1>0, <2>2, <2>4, <2>5, <2>8 DEF CheckpointKnows
  <2>. QED BY <2>6, <2>7, <2>9 DEF JournalInv
<1>. QED BY <1>1, <1>2

LEMMA BuildKeepsUp ==
  ASSUME WorkspaceTypes, OperatorInv, JournalInv, Build
  PROVE  JournalInv'
<1>0. /\ ck \in Checkpoint /\ ck # Nothing /\ ck.step = "build" /\ Remember({}) /\ proc # "down"
      /\ head' = head /\ repo' = repo /\ previous' = previous /\ work' = work
      /\ raced \subseteq Path
  BY DEF Build, WorkspaceTypes, OperatorInv, LockHeld, Fails
<1>1. CASE ck' = Nothing
  BY <1>0, <1>1, ErrorKeepsUp
<1>2. CASE ck' # Nothing
  <2>1. ck' = [ck EXCEPT !.step = "move", !.old = head,
                         !.tree = Commit(head), !.next = Commit(index)]
    BY <1>2 DEF Build, Fails, Answer
  <2>2. /\ ck'.step = "move" /\ ck'.changed = ck.changed /\ ck'.tree = Commit(head)
        /\ ck'.current = ck.current /\ ck'.protected = ck.protected
    BY <1>0, <2>1 DEF Checkpoint
  <2>3. \A p \in Path : p \in ck.changed => Commit(head)[p] = work[p]
    BY DEF Commit
  <2>4. \A p \in Path : p \in raced => p \in raced'
    BY <1>0, <1>2, Remembered
  <2>6. TipIsBorn'
    BY <1>0 DEF JournalInv, TipIsBorn
  <2>7. SnapshotKeepsUp'
    <3>. SUFFICES ASSUME NEW p \in Path, previous'[p] # head'[p]
         PROVE  p \in theirs' \cup raced'
      BY DEF SnapshotKeepsUp
    <3>1. p \in theirs \cup raced
      BY <1>0 DEF JournalInv, SnapshotKeepsUp
    <3>2. p \in theirs => p \in theirs'
      BY <1>0, Remembered
    <3>. QED BY <3>1, <3>2, <2>4
  <2>8. /\ LOG \in raced /\ LOG \in Path
        /\ \A p \in Path \ raced :
             /\ work[p] = ck.current[p]
             /\ p \notin ck.changed =>
                  ck.current[p] = previous[p] \/ p \in ck.protected
    BY <1>0 DEF JournalInv, CheckpointKnows, Path
  <2>9. CheckpointKnows'
    BY <1>0, <2>2, <2>3, <2>4, <2>8 DEF CheckpointKnows
  <2>. QED BY <2>6, <2>7, <2>9 DEF JournalInv
<1>. QED BY <1>1, <1>2

LEMMA MoveHeadKeepsUp ==
  ASSUME WorkspaceTypes, OperatorInv, JournalInv, MoveHead
  PROVE  JournalInv'
<1>0. /\ ck \in Checkpoint /\ ck # Nothing /\ ck.step = "move" /\ Remember({}) /\ proc # "down"
      /\ previous' = previous /\ work' = work /\ raced \subseteq Path
  BY DEF MoveHead, WorkspaceTypes, OperatorInv, LockHeld, Fails
<1>1. CASE ck' = Nothing
  <2>1. CASE head = ck.old
    <3>1. ck' = [ck EXCEPT !.step = "finish"]
      BY <2>1 DEF MoveHead
    <3>2. ck' \in Checkpoint
      BY <3>1, <1>0 DEF Checkpoint
    <3>. QED BY <3>2, <1>1, WorkspaceAssumption
  <2>2. CASE head # ck.old
    <3>1. head' = head /\ repo' = repo
      BY <2>2 DEF MoveHead
    <3>. QED BY <1>0, <1>1, <3>1, ErrorKeepsUp
  <2>. QED BY <2>1, <2>2
<1>2. CASE ck' # Nothing
  <2>1. /\ ck' = [ck EXCEPT !.step = "finish"]
        /\ head = ck.old /\ head' = ck.tree /\ repo' = "born"
    BY <1>2 DEF MoveHead, Fails, Answer
  <2>2. /\ ck'.step = "finish" /\ ck'.changed = ck.changed
        /\ ck'.current = ck.current /\ ck'.protected = ck.protected
    BY <1>0, <2>1 DEF Checkpoint
  <2>3. \A p \in Path : p \notin ck.changed => head'[p] = head[p]
    BY <1>0, <2>1 DEF OperatorInv, LeavesAlone
  <2>4. \A p \in Path : p \in raced => p \in raced'
    BY <1>0, <1>2, Remembered
  <2>6. TipIsBorn'
    BY <2>1 DEF TipIsBorn
  <2>7. SnapshotKeepsUp'
    <3>. SUFFICES ASSUME NEW p \in Path, previous'[p] # head'[p], p \notin ck.changed
         PROVE  p \in theirs' \cup raced'
      BY <1>2, <2>2 DEF SnapshotKeepsUp
    <3>1. p \in theirs \cup raced
      BY <1>0, <2>3 DEF JournalInv, SnapshotKeepsUp
    <3>2. p \in theirs => p \in theirs'
      BY <1>0, Remembered
    <3>. QED BY <3>1, <3>2, <2>4
  <2>8. /\ LOG \in raced /\ LOG \in Path
        /\ \A p \in Path \ raced :
             /\ work[p] = ck.current[p]
             /\ p \notin ck.changed =>
                  ck.current[p] = previous[p] \/ p \in ck.protected
             /\ p \in ck.changed => ck.tree[p] = ck.current[p]
    BY <1>0 DEF JournalInv, CheckpointKnows, Path
  <2>9. CheckpointKnows'
    <3>1. ck'.tree = ck.tree
      BY <1>0, <2>1 DEF Checkpoint
    <3>. QED BY <1>0, <2>1, <2>2, <3>1, <2>4, <2>8 DEF CheckpointKnows
  <2>. QED BY <2>6, <2>7, <2>9 DEF JournalInv
<1>. QED BY <1>1, <1>2

LEMMA FinishKeepsUp ==
  ASSUME WorkspaceTypes, OperatorInv, JournalInv, FinishCheckpoint
  PROVE  JournalInv'
<1>0. /\ ck # Nothing /\ ck.step = "finish" /\ Remember(ck.protected) /\ proc # "down"
      /\ previous' = work /\ head' = head /\ repo' = repo /\ ck' = Nothing
      /\ raced \subseteq Path
  BY DEF FinishCheckpoint, Answer, WorkspaceTypes, OperatorInv, LockHeld
<1>1. TipIsBorn' /\ CheckpointKnows'
  BY <1>0 DEF JournalInv, TipIsBorn, CheckpointKnows
<1>2. SnapshotKeepsUp'
  <2>. SUFFICES ASSUME NEW p \in Path, work[p] # head[p]
       PROVE  p \in theirs' \cup raced'
    BY <1>0 DEF SnapshotKeepsUp
  <2>1. p \in theirs \cup ck.protected => p \in theirs'
    BY <1>0, Remembered
  <2>2. p \in raced => p \in raced'
    BY <1>0, Remembered
  <2>3. p \notin raced =>
           /\ work[p] = ck.current[p]
           /\ p \notin ck.changed => ck.current[p] = previous[p] \/ p \in ck.protected
           /\ p \in ck.changed => head[p] = ck.current[p] \/ p \in theirs
    BY <1>0 DEF JournalInv, CheckpointKnows
  <2>4. previous[p] # head[p] => p \in theirs \cup raced \cup ck.changed
    BY <1>0 DEF JournalInv, SnapshotKeepsUp
  <2>. QED BY <2>1, <2>2, <2>3, <2>4
<1>. QED BY <1>1, <1>2 DEF JournalInv

\* A start takes the directory as it is, and what is not as in the tip then is
\* reported to be the operator's.
LEMMA StartKeepsUp ==
  ASSUME WorkspaceTypes, OperatorInv, JournalInv, Start
  PROVE  JournalInv'
<1>0. /\ ck' = Nothing /\ head' = head /\ Remember(Staged \cup dirty_paths)
      /\ raced \subseteq Path /\ work \in Tree /\ index \in Tree /\ head \in Tree
      /\ repo # "born" => head = Empty
  BY DEF Start, WorkspaceTypes, OperatorInv, LockHeld, JournalInv, TipIsBorn
<1>1. TipIsBorn' /\ CheckpointKnows'
  BY <1>0 DEF Start, TipIsBorn, CheckpointKnows
<1>2. SnapshotKeepsUp'
  <2>. SUFFICES ASSUME NEW p \in Path, previous'[p] # head[p]
       PROVE  p \in theirs' \cup raced'
    BY <1>0 DEF SnapshotKeepsUp
  <2>1. repo # "none" /\ work[p] # head[p]
    BY <1>0 DEF Start
  <2>2. p \in Staged \cup dirty_paths
    <3>1. work[p] \in Nat /\ index[p] \in Nat /\ head[p] \in Nat
      BY <1>0 DEF Tree
    <3>2. repo # "born" => head[p] = 0
      BY <1>0 DEF Empty
    <3>. QED BY <2>1, <3>1, <3>2 DEF Staged, dirty_paths, DirtyIn
  <2>3. p \in theirs \cup (Staged \cup dirty_paths) => p \in theirs'
    BY <1>0, Remembered
  <2>. QED BY <2>2, <2>3
<1>. QED BY <1>1, <1>2 DEF JournalInv

LEMMA JournalKeeps ==
  WorkspaceTypes /\ WorkspaceTypes' /\ OperatorInv /\ JournalInv
    /\ [WorkspaceNext]_workspaceVars => JournalInv'
<1>. SUFFICES ASSUME WorkspaceTypes, WorkspaceTypes', OperatorInv, JournalInv,
                     [WorkspaceNext]_workspaceVars
     PROVE  JournalInv'
  OBVIOUS
<1>a. CASE Busy
  <2>1. /\ Remember({}) /\ ck = Nothing /\ ck' = Nothing /\ previous' = previous
        /\ head' = head /\ repo' = repo /\ proc # "down"
    BY <1>a DEF Busy, Fails, Answer, onDisk
  <2>. QED BY <2>1, ErrorKeepsUp
<1>b. CASE Begin \/ WriteLog \/ Build \/ MoveHead \/ FinishCheckpoint \/ Start
  BY <1>b, BeginKeepsUp, WriteLogKeepsUp, BuildKeepsUp, MoveHeadKeepsUp, FinishKeepsUp,
     StartKeepsUp
<1>c. CASE RefreshHelper \/ SeedFiles
  <2>1. /\ Remember({}) /\ ck' = ck /\ previous' = previous /\ proc # "down"
        /\ head' = head /\ repo' = repo
    BY <1>c DEF RefreshHelper, SeedFiles, memory
  <2>. QED BY <2>1, BystanderKeepsUp
<1>d. CASE \/ \E p \in Path, text \in Text \cup {0} : Tool(p, text)
           \/ \E text \in Text \cup {0} : Exec(text)
           \/ IdleTool
           \/ \E p \in Path : OperatorEdits(p) \/ Stages(p)
           \/ OpensCommit \/ RemovesStaleLock
  <2>1. /\ Remember({}) /\ ck' = ck /\ previous' = previous /\ proc' = proc
        /\ head' = head /\ repo' = repo
    BY <1>d DEF Tool, Exec, ToolEnds, IdleTool, onDisk, OperatorEdits, Stages, Git,
                OpensCommit, RemovesStaleLock, memory
  <2>. QED BY <2>1, BystanderKeepsUp
<1>e. CASE Commits
  <2>1. /\ Remember(Path) /\ ck' = ck /\ previous' = previous /\ proc' = proc
        /\ repo' = "born"
    BY <1>e DEF Commits, memory
  <2>. QED BY <2>1, BystanderKeepsUp
<1>f. CASE ResetsSoftly
  <2>1. /\ Remember(Path) /\ ck' = ck /\ previous' = previous /\ proc' = proc
        /\ repo' = "born"
    BY <1>f DEF ResetsSoftly, Git, memory, WorkspaceTypes
  <2>. QED BY <2>1, BystanderKeepsUp
<1>g. CASE Killed
  BY <1>g DEF Killed, JournalInv, TipIsBorn, SnapshotKeepsUp, CheckpointKnows
<1>h. CASE UNCHANGED workspaceVars
  <2>1. UNCHANGED <<work, head, repo, proc, previous, ck, theirs, raced>>
    BY <1>h DEF workspaceVars, onDisk, memory, history
  <2>. QED BY <2>1 DEF JournalInv, TipIsBorn, SnapshotKeepsUp, CheckpointKnows
<1>. QED
  BY <1>a, <1>b, <1>c, <1>d, <1>e, <1>f, <1>g, <1>h DEF WorkspaceNext

\* When no checkpoint is under way, a file that is not as in the last commit, and
\* that the next checkpoint would take for unchanged, is the operator's or was
\* written while a checkpoint was under way: an error, an interrupted tool, a lost
\* race for the tip and the operator's own commits lose no change of a tool
\* (WorkspaceRuntime::checkpoint).
THEOREM JournalKeepsUpHolds == WorkspaceSpec => []JournalKeepsUp
<1> DEFINE Inv == WorkspaceTypes /\ OperatorInv /\ JournalInv
<1>1. WorkspaceInit => Inv
  BY WorkspaceStarts, OperatorStarts, JournalStarts
<1>2. Inv /\ [WorkspaceNext]_workspaceVars => Inv'
  BY WorkspaceTyped, OperatorKeeps, JournalKeeps
<1>3. Inv => JournalKeepsUp
  <2>. SUFFICES ASSUME WorkspaceTypes, JournalInv, proc = "serve", ck = Nothing,
                       NEW p \in dirty_paths, previous[p] = work[p], p \notin Staged
       PROVE  p \in theirs \cup raced
    BY DEF JournalKeepsUp
  <2>1. p \in Path
    BY DEF dirty_paths, DirtyIn
  <2>2. previous[p] # head[p]
    <3>1. index[p] = head[p]
      BY <2>1 DEF Staged
    <3>. QED BY <3>1 DEF dirty_paths, DirtyIn
  <2>. QED BY <2>1, <2>2 DEF JournalInv, SnapshotKeepsUp
<1>. QED BY <1>1, <1>2, <1>3, PTL DEF WorkspaceSpec
====
