---------------------------- MODULE LeasesProofs ----------------------------
(***************************************************************************)
(* Proofs about the lease manager, for every set of leases, sessions,      *)
(* Tentacles and terms and for every value of the limits.                  *)
(*                                                                         *)
(* Fencing is not inductive: it speaks of the indexed lease only, and says *)
(* nothing of the leases the next grant or sweep will touch.  IInv adds    *)
(* what ties the three maps of the manager together.  The second half      *)
(* carries this to the control plane of module Council, where the callers  *)
(* are rendezvous, failover and the holders of leases.                     *)
(***************************************************************************)
EXTENDS Council, FiniteSetTheorems, TLAPS

\* The session index points at a live lease of that session which carries the
\* session's recorded generation.
IndexPoints ==
    \A s \in SessionId : active_by_session[s] # NoLeaseId =>
        /\ active_by_session[s] \in LeaseId
        /\ leases[active_by_session[s]] # NoLease
        /\ leases[active_by_session[s]].session_id = s
        /\ leases[active_by_session[s]].generation = generations[s]
        /\ leases[active_by_session[s]].status \in Live

\* Every live lease is the one its session's index points at.
LiveIndexed ==
    \A id \in LeaseId :
        /\ leases[id] # NoLease
        /\ leases[id].status \in Live
        => active_by_session[leases[id].session_id] = id

\* No lease is newer than its session's recorded generation.
GenerationBound ==
    \A id \in LeaseId : leases[id] # NoLease =>
        leases[id].generation <= generations[leases[id].session_id]

\* A generation of a session is granted once.
GenerationUnique ==
    \A a, b \in LeaseId :
        /\ leases[a] # NoLease
        /\ leases[b] # NoLease
        /\ leases[a].session_id = leases[b].session_id
        /\ leases[a].generation = leases[b].generation
        => a = b

\* No generation up to the recorded one is missing.
GenerationPresent ==
    \A s \in SessionId : \A g \in 1..generations[s] :
        \E id \in LeaseId : /\ leases[id] # NoLease
                            /\ leases[id].session_id = s
                            /\ leases[id].generation = g

IInv ==
    /\ TypeOK
    /\ IndexPoints
    /\ LiveIndexed
    /\ GenerationBound
    /\ GenerationUnique
    /\ GenerationPresent

-----------------------------------------------------------------------------
\* The lease `grant' builds has the type of a lease.
LEMMA NewLeaseType ==
    ASSUME TypeOK,
           NEW session \in SessionId, NEW tentacle \in TentacleId,
           NEW incarnation \in Incarnation, NEW term \in Term,
           NEW r \in Nat
    PROVE  NewLease(session, tentacle, incarnation, term, r) \in Lease
  <1>1. term \in Nat \X Nat
    BY LeasesAssumption DEF LeasesAssumption
  <1>2. term[1] \in Nat /\ term[2] \in Nat
    BY <1>1
  <1>3. generations[session] \in Nat /\ now \in Nat
    BY DEF TypeOK
  <1>4. generations[session] + 1 \in Nat \ {0}
    BY <1>3
  <1> QED
    BY <1>2, <1>3, <1>4 DEF NewLease, Lease, LeaseStatus

\* A fresh lease of a session is stored under its next generation, over a copy
\* of the table in which every other live lease of that session has ended.
StoreStep(id, session, lease, base) ==
    /\ leases[id] = NoLease
    /\ lease.session_id = session
    /\ lease.generation = generations[session] + 1
    /\ lease.status = "Granted"
    /\ \A x \in LeaseId : (base[x] = NoLease) <=> (leases[x] = NoLease)
    /\ \A x \in LeaseId : base[x] # NoLease =>
           /\ base[x].session_id = leases[x].session_id
           /\ base[x].generation = leases[x].generation
           /\ base[x].session_id # session => base[x] = leases[x]
           /\ base[x].session_id = session => base[x].status \notin Live
    /\ leases' = [base EXCEPT ![id] = lease]
    /\ active_by_session' = [active_by_session EXCEPT ![session] = id]
    /\ generations' = [generations EXCEPT ![session] = lease.generation]
    /\ now' = now

\* Such a step keeps the invariant; `grant' and `failover' are both one.
LEMMA StoreKeepsIInv ==
    ASSUME IInv,
           NEW id \in LeaseId, NEW session \in SessionId,
           NEW lease \in Lease, NEW base \in [LeaseId -> Lease \cup {NoLease}],
           StoreStep(id, session, lease, base)
    PROVE  IInv'
  <1> USE DEF StoreStep
  <1> NoLease \notin Lease /\ NoLeaseId \notin LeaseId
    BY LeasesAssumption DEF LeasesAssumption
  <1>1. TypeOK'
    BY DEF IInv, TypeOK, Lease
  <1>2. \A x \in LeaseId \ {id} : leases'[x] = base[x]
    BY DEF IInv, TypeOK
  <1>3. leases'[id] = lease /\ base[id] = NoLease /\ lease # NoLease
    BY DEF IInv, TypeOK
  <1>4. /\ \A s \in SessionId \ {session} :
               /\ active_by_session'[s] = active_by_session[s]
               /\ generations'[s] = generations[s]
        /\ active_by_session'[session] = id
        /\ generations'[session] = generations[session] + 1
        /\ \A s \in SessionId : generations[s] \in Nat
    BY DEF IInv, TypeOK
  <1>5. \A x \in LeaseId : leases[x] # NoLease =>
            /\ leases[x].session_id \in SessionId
            /\ leases[x].generation \in Nat \ {0}
    BY DEF IInv, TypeOK, Lease
  <1>6. IndexPoints'
    <2> SUFFICES ASSUME NEW s \in SessionId, active_by_session'[s] # NoLeaseId
                 PROVE  /\ active_by_session'[s] \in LeaseId
                        /\ leases'[active_by_session'[s]] # NoLease
                        /\ leases'[active_by_session'[s]].session_id = s
                        /\ leases'[active_by_session'[s]].generation = generations'[s]
                        /\ leases'[active_by_session'[s]].status \in Live
      BY DEF IndexPoints
    <2>1. CASE s = session
      BY <2>1, <1>3, <1>4 DEF Live
    <2>2. CASE s # session
      <3>1. /\ active_by_session[s] \in LeaseId
            /\ leases[active_by_session[s]] # NoLease
            /\ leases[active_by_session[s]].session_id = s
            /\ leases[active_by_session[s]].generation = generations[s]
            /\ leases[active_by_session[s]].status \in Live
        BY <2>2, <1>4 DEF IInv, IndexPoints
      <3>2. leases'[active_by_session[s]] = leases[active_by_session[s]]
        BY <2>2, <3>1, <1>2
      <3> QED
        BY <2>2, <3>1, <3>2, <1>4
    <2> QED
      BY <2>1, <2>2
  <1>7. LiveIndexed'
    BY <1>2, <1>3, <1>4, <1>5 DEF IInv, LiveIndexed
  <1>8. GenerationBound'
    BY <1>2, <1>3, <1>4, <1>5 DEF IInv, GenerationBound
  <1>9. GenerationUnique'
    BY <1>2, <1>3, <1>4, <1>5 DEF IInv, GenerationBound, GenerationUnique
  <1>10. GenerationPresent'
    <2> SUFFICES ASSUME NEW s \in SessionId, NEW g \in 1..generations'[s]
                 PROVE  \E x \in LeaseId : /\ leases'[x] # NoLease
                                           /\ leases'[x].session_id = s
                                           /\ leases'[x].generation = g
      BY DEF GenerationPresent
    <2>1. CASE s = session /\ g = generations[session] + 1
      BY <2>1, <1>3
    <2>2. CASE ~(s = session /\ g = generations[session] + 1)
      <3>1. g \in 1..generations[s]
        BY <2>2, <1>4
      <3>2. PICK x \in LeaseId : /\ leases[x] # NoLease
                                 /\ leases[x].session_id = s
                                 /\ leases[x].generation = g
        BY <3>1 DEF IInv, GenerationPresent
      <3> QED
        BY <3>2, <1>2
    <2> QED
      BY <2>1, <2>2
  <1> QED
    BY <1>1, <1>6, <1>7, <1>8, <1>9, <1>10 DEF IInv

\* Ending some live leases and dropping their sessions from the index keeps
\* the invariant: `release', `revoke' and the sweep of `expire' do that.
LEMMA EndKeepsIInv ==
    ASSUME IInv,
           NEW ended \in SUBSET LeaseId,
           \A x \in ended : leases[x] # NoLease /\ leases[x].status \in Live,
           leases' \in [LeaseId -> Lease \cup {NoLease}],
           \A x \in LeaseId \ ended : leases'[x] = leases[x],
           \A x \in ended : /\ leases'[x] # NoLease
                            /\ leases'[x].session_id = leases[x].session_id
                            /\ leases'[x].generation = leases[x].generation
                            /\ leases'[x].status \notin Live,
           active_by_session' \in [SessionId -> LeaseId \cup {NoLeaseId}],
           \A s \in SessionId :
               active_by_session'[s] =
                   IF \E x \in ended : leases[x].session_id = s
                   THEN NoLeaseId ELSE active_by_session[s],
           UNCHANGED <<generations, now>>
    PROVE  IInv'
  <1> NoLease \notin Lease /\ NoLeaseId \notin LeaseId
    BY LeasesAssumption DEF LeasesAssumption
  <1>1. TypeOK'
    BY DEF IInv, TypeOK
  <1>2. \A x \in LeaseId : leases[x] # NoLease => leases[x].session_id \in SessionId
    BY DEF IInv, TypeOK, Lease
  <1>3. IndexPoints'
    <2> SUFFICES ASSUME NEW s \in SessionId, active_by_session'[s] # NoLeaseId
                 PROVE  /\ active_by_session'[s] \in LeaseId
                        /\ leases'[active_by_session'[s]] # NoLease
                        /\ leases'[active_by_session'[s]].session_id = s
                        /\ leases'[active_by_session'[s]].generation = generations'[s]
                        /\ leases'[active_by_session'[s]].status \in Live
      BY DEF IndexPoints
    <2>1. /\ active_by_session'[s] = active_by_session[s]
          /\ ~ \E x \in ended : leases[x].session_id = s
      OBVIOUS
    <2>2. /\ active_by_session[s] \in LeaseId
          /\ leases[active_by_session[s]] # NoLease
          /\ leases[active_by_session[s]].session_id = s
          /\ leases[active_by_session[s]].generation = generations[s]
          /\ leases[active_by_session[s]].status \in Live
      BY <2>1 DEF IInv, IndexPoints
    <2>3. active_by_session[s] \notin ended
      BY <2>1, <2>2
    <2> QED
      BY <2>1, <2>2, <2>3
  <1>4. LiveIndexed'
    <2> SUFFICES ASSUME NEW x \in LeaseId, leases'[x] # NoLease, leases'[x].status \in Live
                 PROVE  active_by_session'[leases'[x].session_id] = x
      BY DEF LiveIndexed
    <2>1. x \notin ended /\ leases'[x] = leases[x]
      OBVIOUS
    <2>2. active_by_session[leases[x].session_id] = x
      BY <2>1 DEF IInv, LiveIndexed
    <2>3. \A y \in ended : active_by_session[leases[y].session_id] = y
      BY DEF IInv, LiveIndexed
    <2> QED
      BY <2>1, <2>2, <2>3, <1>2
  <1>5. GenerationBound'
    BY <1>2 DEF IInv, GenerationBound
  <1>6. GenerationUnique'
    BY DEF IInv, GenerationUnique
  <1>7. GenerationPresent'
    <2> SUFFICES ASSUME NEW s \in SessionId, NEW g \in 1..generations[s]
                 PROVE  \E x \in LeaseId : /\ leases'[x] # NoLease
                                           /\ leases'[x].session_id = s
                                           /\ leases'[x].generation = g
      BY DEF GenerationPresent
    <2>1. PICK x \in LeaseId : /\ leases[x] # NoLease
                               /\ leases[x].session_id = s
                               /\ leases[x].generation = g
      BY DEF IInv, GenerationPresent
    <2> QED
      BY <2>1
  <1> QED
    BY <1>1, <1>3, <1>4, <1>5, <1>6, <1>7 DEF IInv

\* Changing the status (Granted to Active) or the times of one live lease
\* keeps the invariant: `accept' and `renew'.
LEMMA UpdateKeepsIInv ==
    ASSUME IInv,
           NEW id \in LeaseId, leases[id] # NoLease, leases[id].status \in Live,
           NEW lease \in Lease,
           lease.session_id = leases[id].session_id,
           lease.generation = leases[id].generation,
           lease.status \in Live,
           leases' = [leases EXCEPT ![id] = lease],
           UNCHANGED <<active_by_session, generations, now>>
    PROVE  IInv'
  <1> NoLease \notin Lease /\ NoLeaseId \notin LeaseId
    BY LeasesAssumption DEF LeasesAssumption
  <1>1. TypeOK'
    BY DEF IInv, TypeOK
  <1>2. /\ \A x \in LeaseId \ {id} : leases'[x] = leases[x]
        /\ leases'[id] = lease
        /\ lease # NoLease
    BY DEF IInv, TypeOK
  <1>3. IndexPoints'
    BY <1>2 DEF IInv, IndexPoints
  <1>4. LiveIndexed'
    BY <1>2 DEF IInv, LiveIndexed
  <1>5. GenerationBound'
    BY <1>2 DEF IInv, GenerationBound
  <1>6. GenerationUnique'
    BY <1>2 DEF IInv, GenerationUnique
  <1>7. GenerationPresent'
    <2> SUFFICES ASSUME NEW s \in SessionId, NEW g \in 1..generations[s]
                 PROVE  \E x \in LeaseId : /\ leases'[x] # NoLease
                                           /\ leases'[x].session_id = s
                                           /\ leases'[x].generation = g
      BY DEF GenerationPresent
    <2>1. PICK x \in LeaseId : /\ leases[x] # NoLease
                               /\ leases[x].session_id = s
                               /\ leases[x].generation = g
      BY DEF IInv, GenerationPresent
    <2> QED
      BY <2>1, <1>2
  <1> QED
    BY <1>1, <1>3, <1>4, <1>5, <1>6, <1>7 DEF IInv


-----------------------------------------------------------------------------
\* The invariant holds of the empty manager.
LEMMA InitIInv == Init => IInv
  <1> SUFFICES ASSUME Init PROVE IInv
    OBVIOUS
  <1>1. TypeOK
    BY DEF Init, TypeOK
  <1>2. IndexPoints /\ LiveIndexed /\ GenerationBound /\ GenerationUnique
    BY DEF Init, IndexPoints, LiveIndexed, GenerationBound, GenerationUnique
  <1>3. GenerationPresent
    BY DEF Init, GenerationPresent
  <1> QED
    BY <1>1, <1>2, <1>3 DEF IInv

\* Every operation of the manager, and every clock step, keeps the invariant.
LEMMA NextIInv == IInv /\ [Next]_vars => IInv'
  <1> SUFFICES ASSUME IInv, [Next]_vars PROVE IInv'
    OBVIOUS
  <1> USE DEF IInv
  <1>a. NoLease \notin Lease /\ NoLeaseId \notin LeaseId
    BY LeasesAssumption DEF LeasesAssumption
  <1>b. \A id \in LeaseId : leases[id] # NoLease => leases[id] \in Lease
    BY DEF TypeOK
  <1>1. ASSUME NEW id \in LeaseId, NEW s \in SessionId, NEW t \in TentacleId,
               NEW i \in Incarnation, NEW term \in Term, NEW r \in RequestExpiry,
               Grant(id, s, t, i, term, r)
        PROVE  IInv'
    <2> DEFINE lease == NewLease(s, t, i, term, r)
    <2>1. lease \in Lease
      BY NewLeaseType, LeasesAssumption DEF LeasesAssumption
    <2>2. /\ leases[id] = NoLease
          /\ lease.session_id = s
          /\ lease.generation = generations[s] + 1
          /\ lease.status = "Granted"
      BY <1>1 DEF Grant, GrantAllowed, NewLease
    <2>3. ~(active_by_session[s] # NoLeaseId /\ leases[active_by_session[s]].status \in Live)
      BY <1>1 DEF Grant, GrantAllowed
    <2>4. \A x \in LeaseId : leases[x] # NoLease =>
              (leases[x].session_id = s => leases[x].status \notin Live)
      BY <2>3, <1>a DEF IndexPoints, LiveIndexed
    <2>5. PICK base \in [LeaseId -> Lease \cup {NoLease}] : base = leases
      BY DEF TypeOK
    <2>6. leases' = [base EXCEPT ![id] = lease]
      BY <1>1, <2>5 DEF Grant
    <2>7. /\ active_by_session' = [active_by_session EXCEPT ![s] = id]
          /\ generations' = [generations EXCEPT ![s] = lease.generation]
          /\ now' = now
      BY <1>1 DEF Grant
    <2>8. \A x \in LeaseId : (base[x] = NoLease) <=> (leases[x] = NoLease)
      BY <2>5
    <2>9. \A x \in LeaseId : base[x] # NoLease =>
              /\ base[x].session_id = leases[x].session_id
              /\ base[x].generation = leases[x].generation
              /\ base[x].session_id # s => base[x] = leases[x]
              /\ base[x].session_id = s => base[x].status \notin Live
      BY <2>4, <2>5
    <2> HIDE DEF lease
    <2>10. StoreStep(id, s, lease, base)
      BY <2>2, <2>6, <2>7, <2>8, <2>9 DEF StoreStep
    <2> HIDE DEF IInv
    <2> QED
      BY <2>1, <2>10, StoreKeepsIInv
  <1>2. ASSUME NEW id \in LeaseId, NEW t \in TentacleId, NEW i \in Incarnation,
               NEW g \in 1..MAX_LEASES, Accept(id, t, i, g)
        PROVE  IInv'
    <2> DEFINE lease == [leases[id] EXCEPT !.status = "Active"]
    <2>1. leases[id] # NoLease /\ leases[id].status \in Live /\ leases[id] \in Lease
      BY <1>2, <1>b DEF Accept, HeldBy, VerifyAssignee
    <2>2. /\ lease \in Lease
          /\ lease.session_id = leases[id].session_id
          /\ lease.generation = leases[id].generation
          /\ lease.status \in Live
      BY <2>1 DEF Lease, LeaseStatus, Live
    <2>3. /\ leases' = [leases EXCEPT ![id] = lease]
          /\ UNCHANGED <<active_by_session, generations, now>>
      BY <1>2 DEF Accept
    <2> HIDE DEF lease, IInv
    <2> QED
      BY <2>1, <2>2, <2>3, UpdateKeepsIInv
  <1>3. ASSUME NEW id \in LeaseId, NEW t \in TentacleId, NEW i \in Incarnation,
               NEW g \in 1..MAX_LEASES, NEW term \in Term, Renew(id, t, i, g, term)
        PROVE  IInv'
    <2> DEFINE lease == [leases[id] EXCEPT !.renewal_deadline = now + term[1],
                                           !.expires_at = now + term[2]]
    <2>1. leases[id] # NoLease /\ leases[id].status \in Live /\ leases[id] \in Lease
      BY <1>3, <1>b DEF Renew, HeldBy, VerifyAssignee
    <2>2. now + term[1] \in Nat /\ now + term[2] \in Nat
      <3>1. term \in Nat \X Nat
        BY LeasesAssumption DEF LeasesAssumption
      <3> QED
        BY <3>1 DEF TypeOK
    <2>3. /\ lease \in Lease
          /\ lease.session_id = leases[id].session_id
          /\ lease.generation = leases[id].generation
          /\ lease.status \in Live
      BY <2>1, <2>2 DEF Lease
    <2>4. /\ leases' = [leases EXCEPT ![id] = lease]
          /\ UNCHANGED <<active_by_session, generations, now>>
      BY <1>3 DEF Renew
    <2> HIDE DEF lease, IInv
    <2> QED
      BY <2>1, <2>3, <2>4, UpdateKeepsIInv
  <1>4. ASSUME NEW id \in LeaseId, NEW status \in {"Released", "Revoked"},
               leases[id] # NoLease, leases[id].status \in Live,
               leases' = [leases EXCEPT ![id].status = status],
               active_by_session' =
                   [active_by_session EXCEPT ![leases[id].session_id] = NoLeaseId],
               UNCHANGED <<generations, now>>
        PROVE  IInv'
    <2>1. leases[id] \in Lease
      BY <1>4, <1>b
    <2>2. [leases[id] EXCEPT !.status = status] \in Lease
      BY <2>1 DEF Lease, LeaseStatus
    <2>3. leases' \in [LeaseId -> Lease \cup {NoLease}]
      BY <1>4, <2>2 DEF TypeOK
    <2>4. \A x \in LeaseId \ {id} : leases'[x] = leases[x]
      BY <1>4 DEF TypeOK
    <2>5. leases'[id] = [leases[id] EXCEPT !.status = status]
      BY <1>4 DEF TypeOK
    <2>6. /\ leases'[id] # NoLease
          /\ leases'[id].session_id = leases[id].session_id
          /\ leases'[id].generation = leases[id].generation
          /\ leases'[id].status \notin Live
      BY <2>5, <2>2, <2>1, <1>a DEF Lease, Live
    <2>7. /\ active_by_session' \in [SessionId -> LeaseId \cup {NoLeaseId}]
          /\ \A s \in SessionId :
                 active_by_session'[s] =
                     IF \E x \in {id} : leases[x].session_id = s
                     THEN NoLeaseId ELSE active_by_session[s]
      BY <1>4 DEF TypeOK
    <2> DEFINE ended == {id}
    <2>8. /\ ended \in SUBSET LeaseId
          /\ \A x \in ended : leases[x] # NoLease /\ leases[x].status \in Live
          /\ \A x \in LeaseId \ ended : leases'[x] = leases[x]
          /\ \A x \in ended : /\ leases'[x] # NoLease
                               /\ leases'[x].session_id = leases[x].session_id
                               /\ leases'[x].generation = leases[x].generation
                               /\ leases'[x].status \notin Live
          /\ \A s \in SessionId :
                 active_by_session'[s] =
                     IF \E x \in ended : leases[x].session_id = s
                     THEN NoLeaseId ELSE active_by_session[s]
      BY <1>4, <2>4, <2>6, <2>7
    <2> HIDE DEF ended, IInv
    <2> QED
      BY <1>4, <2>3, <2>7, <2>8, EndKeepsIInv
  <1>5. ASSUME NEW id \in LeaseId, NEW t \in TentacleId, NEW i \in Incarnation,
               NEW g \in 1..MAX_LEASES, Release(id, t, i, g)
        PROVE  IInv'
    BY <1>4, <1>5 DEF Release, HeldBy, VerifyAssignee
  <1>6. ASSUME NEW id \in LeaseId, Revoke(id)
        PROVE  IInv'
    BY <1>4, <1>6 DEF Revoke
  <1>7. ASSUME Expire
        PROVE  IInv'
    <2> DEFINE ended == Overdue(now)
    <2>1. /\ ended \in SUBSET LeaseId
          /\ \A x \in ended : leases[x] # NoLease /\ leases[x].status \in Live
      BY DEF Overdue, Stored
    <2>2. \A x \in ended : [leases[x] EXCEPT !.status = "Expired"] \in Lease
      BY <2>1, <1>b DEF Lease, LeaseStatus
    <2>3. /\ \A x \in LeaseId \ ended : leases'[x] = leases[x]
          /\ \A x \in ended : leases'[x] = [leases[x] EXCEPT !.status = "Expired"]
          /\ \A s \in SessionId : active_by_session'[s] =
                 IF \E x \in ended : leases[x].session_id = s
                 THEN NoLeaseId ELSE active_by_session[s]
          /\ UNCHANGED <<generations, now>>
      BY <1>7, <2>1 DEF Expire
    <2>4. leases' \in [LeaseId -> Lease \cup {NoLease}]
      BY <1>7, <2>1, <2>2 DEF Expire, TypeOK
    <2>5. active_by_session' \in [SessionId -> LeaseId \cup {NoLeaseId}]
      BY <1>7 DEF Expire, TypeOK
    <2>6. \A x \in ended : /\ leases'[x] # NoLease
                           /\ leases'[x].session_id = leases[x].session_id
                           /\ leases'[x].generation = leases[x].generation
                           /\ leases'[x].status \notin Live
      <3> HIDE DEF ended
      <3> SUFFICES ASSUME NEW x \in ended
                   PROVE  /\ leases'[x] # NoLease
                          /\ leases'[x].session_id = leases[x].session_id
                          /\ leases'[x].generation = leases[x].generation
                          /\ leases'[x].status \notin Live
        OBVIOUS
      <3>1. /\ leases'[x] = [leases[x] EXCEPT !.status = "Expired"]
            /\ leases'[x] \in Lease
            /\ leases[x] \in Lease
        BY <2>1, <2>2, <2>3, <1>b
      <3> QED
        BY <3>1, <1>a DEF Lease, Live
    <2> HIDE DEF ended, IInv
    <2> QED
      BY <2>1, <2>3, <2>4, <2>5, <2>6, EndKeepsIInv
  <1>8. ASSUME NEW old \in LeaseId, NEW id \in LeaseId, NEW t \in TentacleId,
               NEW i \in Incarnation, NEW term \in Term, Failover(old, id, t, i, term)
        PROVE  IInv'
    <2>1. leases[old] \in Lease /\ leases[old] # NoLease /\ leases[old].status \in Live
      BY <1>8, <1>b DEF Failover
    <2> PICK s \in SessionId : s = leases[old].session_id
      BY <2>1 DEF Lease
    <2> DEFINE lease == NewLease(s, t, i, term, leases[old].request_expires_at)
               base == [leases EXCEPT ![old].status = "Revoked"]
    <2>2. s \in SessionId /\ leases[old].request_expires_at \in Nat
      BY <2>1 DEF Lease
    <2>3. lease \in Lease
      BY <2>2, NewLeaseType
    <2>4. /\ leases[id] = NoLease
          /\ lease.session_id = s
          /\ lease.generation = generations[s] + 1
          /\ lease.status = "Granted"
      BY <1>8 DEF Failover, GrantAllowed, NewLease
    <2>5. [leases[old] EXCEPT !.status = "Revoked"] \in Lease
      BY <2>1 DEF Lease, LeaseStatus
    <2>6. base \in [LeaseId -> Lease \cup {NoLease}]
      BY <2>5 DEF TypeOK
    <2>7. /\ \A x \in LeaseId \ {old} : base[x] = leases[x]
          /\ base[old] = [leases[old] EXCEPT !.status = "Revoked"]
          /\ base[old] # NoLease
      BY <2>5, <1>a DEF TypeOK
    <2>8. /\ base[old].session_id = s
          /\ base[old].generation = leases[old].generation
          /\ base[old].status \notin Live
      BY <2>7, <2>1 DEF Lease, Live
    <2>9. \A x \in LeaseId \ {old} :
              /\ leases[x] # NoLease
              /\ leases[x].session_id = s
              => leases[x].status \notin Live
      BY <2>1 DEF LiveIndexed
    <2>10. leases' = [base EXCEPT ![id] = lease]
      BY <1>8, <2>1, <2>4 DEF Failover
    <2>11. /\ active_by_session' = [active_by_session EXCEPT ![s] = id]
           /\ generations' = [generations EXCEPT ![s] = lease.generation]
           /\ now' = now
      BY <1>8 DEF Failover
    <2>12. \A x \in LeaseId : (base[x] = NoLease) <=> (leases[x] = NoLease)
      BY <2>1, <2>7
    <2>13. \A x \in LeaseId : base[x] # NoLease =>
               /\ base[x].session_id = leases[x].session_id
               /\ base[x].generation = leases[x].generation
               /\ base[x].session_id # s => base[x] = leases[x]
               /\ base[x].session_id = s => base[x].status \notin Live
      BY <2>7, <2>8, <2>9
    <2> HIDE DEF lease, base
    <2>14. StoreStep(id, s, lease, base)
      BY <2>4, <2>10, <2>11, <2>12, <2>13 DEF StoreStep
    <2> HIDE DEF IInv
    <2> QED
      BY <2>3, <2>6, <2>14, StoreKeepsIInv
  <1>9. ASSUME NEW t \in 0..MaxTime, SetClock(t)
        PROVE  IInv'
    BY <1>9, LeasesAssumption
       DEF SetClock, TypeOK, IndexPoints, LiveIndexed, GenerationBound,
           GenerationUnique, GenerationPresent, LeasesAssumption
  <1>10. ASSUME UNCHANGED vars
         PROVE  IInv'
    BY <1>10 DEF vars, TypeOK, IndexPoints, LiveIndexed, GenerationBound,
                 GenerationUnique, GenerationPresent
  <1> HIDE DEF IInv
  <1> QED
    BY <1>1, <1>2, <1>3, <1>5, <1>6, <1>7, <1>8, <1>9, <1>10 DEF Next

\* The three maps of the manager stay consistent with one another in every
\* reachable state.
THEOREM ManagerConsistent == Spec => []IInv
  BY InitIInv, NextIInv, PTL DEF Spec

\* The manager's maps keep their types.
THEOREM LeasesTypeCorrect == Spec => []TypeOK
  <1>1. IInv => TypeOK
    BY DEF IInv
  <1> QED
    BY <1>1, ManagerConsistent, PTL

\* authorize_work never lets a superseded assignee serve a session: the
\* generation it accepts is the newest ever granted and belongs to the caller.
THEOREM FencingHolds == Spec => []Fencing
  <1>1. IInv => Fencing
    <2> SUFFICES ASSUME IInv, NEW s \in SessionId, NEW t \in TentacleId,
                        NEW i \in Incarnation, NEW g \in 1..MAX_LEASES,
                        AuthorizeWork(s, t, i, g), NEW id \in LeasesOf(s)
                 PROVE  /\ leases[id].generation <= g
                        /\ leases[id].generation = g =>
                               /\ leases[id].assigned_tentacle = t
                               /\ leases[id].tentacle_incarnation = i
      BY DEF Fencing
    <2> DEFINE holder == active_by_session[s]
    <2>1. /\ holder \in LeaseId
          /\ leases[holder] # NoLease
          /\ leases[holder].session_id = s
          /\ leases[holder].generation = generations[s]
      BY DEF IInv, IndexPoints, AuthorizeWork
    <2>2. /\ leases[holder].generation = g
          /\ leases[holder].assigned_tentacle = t
          /\ leases[holder].tentacle_incarnation = i
      BY DEF AuthorizeWork, HeldBy, VerifyAssignee
    <2>3. id \in LeaseId /\ leases[id] # NoLease /\ leases[id].session_id = s
      BY DEF LeasesOf, Stored
    <2>4. leases[id].generation <= generations[s]
      BY <2>3 DEF IInv, GenerationBound
    <2>5. leases[id].generation = g => id = holder
      BY <2>1, <2>2, <2>3 DEF IInv, GenerationUnique
    <2> QED
      BY <2>1, <2>2, <2>4, <2>5
  <1> QED
    BY <1>1, ManagerConsistent, PTL

\* A session never has two Granted or Active leases.
THEOREM OneLiveLeaseHolds == Spec => []OneLiveLease
  <1>1. IInv => OneLiveLease
    BY DEF IInv, LiveIndexed, OneLiveLease, Stored
  <1> QED
    BY <1>1, ManagerConsistent, PTL

\* The session index always passes the checks of validate_loaded_state.
THEOREM IndexReloadsHolds == Spec => []IndexReloads
  <1>1. IInv => IndexReloads
    <2> SUFFICES ASSUME IInv PROVE IndexReloads
      OBVIOUS
    <2>1. \A id \in Stored :
              (active_by_session[leases[id].session_id] = id) <=> (leases[id].status \in Live)
      <3> SUFFICES ASSUME NEW id \in LeaseId, leases[id] # NoLease
                   PROVE  (active_by_session[leases[id].session_id] = id)
                              <=> (leases[id].status \in Live)
        BY DEF Stored
      <3>1. leases[id].session_id \in SessionId /\ id # NoLeaseId
        BY LeasesAssumption DEF IInv, TypeOK, Lease, LeasesAssumption
      <3> QED
        BY <3>1 DEF IInv, IndexPoints, LiveIndexed
    <2>2. \A s \in SessionId :
              active_by_session[s] # NoLeaseId => active_by_session[s] \in LeasesOf(s)
      BY DEF IInv, IndexPoints, LeasesOf, Stored
    <2> QED
      BY <2>1, <2>2 DEF IndexReloads
  <1> QED
    BY <1>1, ManagerConsistent, PTL

\* The generation history always passes the checks of validate_loaded_state.
THEOREM HistoryReloadsHolds == Spec => []HistoryReloads
  <1>1. IInv => HistoryReloads
    <2> SUFFICES ASSUME IInv PROVE HistoryReloads
      OBVIOUS
    <2>1. ASSUME NEW s \in SessionId
          PROVE  {leases[id].generation : id \in LeasesOf(s)} = 1..generations[s]
      <3>1. \A id \in LeasesOf(s) : leases[id].generation \in 1..generations[s]
        <4> SUFFICES ASSUME NEW id \in LeaseId, leases[id] # NoLease,
                            leases[id].session_id = s
                     PROVE  leases[id].generation \in 1..generations[s]
          BY DEF LeasesOf, Stored
        <4>1. leases[id].generation \in Nat \ {0} /\ generations[s] \in Nat
          BY DEF IInv, TypeOK, Lease
        <4>2. leases[id].generation <= generations[s]
          BY DEF IInv, GenerationBound
        <4> QED
          BY <4>1, <4>2
      <3>2. \A g \in 1..generations[s] : \E id \in LeasesOf(s) : leases[id].generation = g
        BY DEF IInv, GenerationPresent, LeasesOf, Stored
      <3> QED
        BY <3>1, <3>2
    <2>2. \A a, b \in Stored :
              /\ leases[a].session_id = leases[b].session_id
              /\ leases[a].generation = leases[b].generation
              => a = b
      BY DEF IInv, GenerationUnique, Stored
    <2> QED
      BY <2>1, <2>2 DEF HistoryReloads
  <1> QED
    BY <1>1, ManagerConsistent, PTL

\* A restart finds the three maps of the manager in agreement, whatever was
\* granted, renewed, failed over or expired before it.
THEOREM TablesSoundHolds == Spec => []TablesSound
  BY OneLiveLeaseHolds, IndexReloadsHolds, HistoryReloadsHolds, PTL DEF TablesSound

\* An ended lease is never changed again, whatever is called late.
THEOREM EndedForGoodHolds == Spec => EndedForGood
  <1> DEFINE Kept == \A id \in Stored :
                 leases[id].status \notin Live => leases'[id] = leases[id]
  <1>1. IInv /\ [Next]_vars => [Kept]_vars
    <2> SUFFICES ASSUME IInv, Next,
                        NEW x \in LeaseId, leases[x] # NoLease, leases[x].status \notin Live
                 PROVE  leases'[x] = leases[x]
      BY DEF Stored
    <2>0. leases \in [LeaseId -> Lease \cup {NoLease}]
      BY DEF IInv, TypeOK
    <2>1. ASSUME NEW id \in LeaseId, NEW s \in SessionId, NEW t \in TentacleId,
                 NEW i \in Incarnation, NEW term \in Term, NEW r \in RequestExpiry,
                 Grant(id, s, t, i, term, r)
          PROVE  leases'[x] = leases[x]
      BY <2>0, <2>1 DEF Grant, GrantAllowed
    <2>2. ASSUME NEW id \in LeaseId, NEW t \in TentacleId, NEW i \in Incarnation,
                 NEW g \in 1..MAX_LEASES, Accept(id, t, i, g)
          PROVE  leases'[x] = leases[x]
      BY <2>0, <2>2 DEF Accept, HeldBy, VerifyAssignee
    <2>3. ASSUME NEW id \in LeaseId, NEW t \in TentacleId, NEW i \in Incarnation,
                 NEW g \in 1..MAX_LEASES, NEW term \in Term, Renew(id, t, i, g, term)
          PROVE  leases'[x] = leases[x]
      BY <2>0, <2>3 DEF Renew, HeldBy, VerifyAssignee
    <2>4. ASSUME NEW id \in LeaseId, NEW t \in TentacleId, NEW i \in Incarnation,
                 NEW g \in 1..MAX_LEASES, Release(id, t, i, g)
          PROVE  leases'[x] = leases[x]
      BY <2>0, <2>4 DEF Release, HeldBy, VerifyAssignee
    <2>5. ASSUME NEW id \in LeaseId, Revoke(id)
          PROVE  leases'[x] = leases[x]
      BY <2>0, <2>5 DEF Revoke
    <2>6. ASSUME Expire
          PROVE  leases'[x] = leases[x]
      BY <2>0, <2>6 DEF Expire, Overdue
    <2>7. ASSUME NEW old \in LeaseId, NEW id \in LeaseId, NEW t \in TentacleId,
                 NEW i \in Incarnation, NEW term \in Term, Failover(old, id, t, i, term)
          PROVE  leases'[x] = leases[x]
      <3>1. x # id /\ x # old
        BY <2>7 DEF Failover, GrantAllowed
      <3> QED
        BY <2>0, <2>7, <3>1 DEF Failover
    <2>8. ASSUME NEW t \in 0..MaxTime, SetClock(t)
          PROVE  leases'[x] = leases[x]
      BY <2>8 DEF SetClock
    <2> QED
      BY <2>1, <2>2, <2>3, <2>4, <2>5, <2>6, <2>7, <2>8 DEF Next
  <1> QED
    BY <1>1, ManagerConsistent, PTL DEF Spec, EndedForGood

-----------------------------------------------------------------------------
(***************************************************************************)
(* The control plane.  What holds of the manager whatever its callers do   *)
(* holds in the composition because each step of the control plane is a    *)
(* step of the manager, or leaves it alone; likewise of the tracker.  The  *)
(* callers' generations are the manager's own there, and those are bounded *)
(* by the table, since a session's generations are counted by its leases.  *)
(***************************************************************************)

\* The table is never larger than its limit.
TableBounded == IsFiniteSet(Stored) /\ Cardinality(Stored) <= MAX_LEASES

\* The tracker's part and what a lease may claim of it.
CouncilInv ==
    /\ IInv
    /\ TableBounded
    /\ Tracker!TypeOK
    /\ LeaseNotAhead

\* A generation that a lease carries is within the limit of the table: the
\* session has had a lease for each generation up to it.
LEMMA GenerationsFit ==
  ASSUME IInv, TableBounded, NEW id \in Stored
  PROVE  leases[id].generation \in 1..MAX_LEASES
  <1> DEFINE s == leases[id].session_id
             n == generations[s]
             f == [x \in LeasesOf(s) |-> leases[x].generation]
  <1>1. leases[id] \in Lease /\ s \in SessionId /\ n \in Nat
    BY DEF IInv, TypeOK, Stored, Lease
  <1>2. \A x \in LeasesOf(s) : leases[x].generation \in 1..n
    <2> SUFFICES ASSUME NEW x \in LeasesOf(s) PROVE leases[x].generation \in 1..n
      OBVIOUS
    <2>1. x \in LeaseId /\ leases[x] # NoLease /\ leases[x].session_id = s
      BY DEF LeasesOf, Stored
    <2>2. leases[x].generation \in Nat \ {0}
      BY <2>1 DEF IInv, TypeOK, Lease
    <2> QED
      BY <1>1, <2>1, <2>2 DEF IInv, GenerationBound
  <1>3. \A g \in 1..n : \E x \in LeasesOf(s) : leases[x].generation = g
    BY <1>1 DEF IInv, GenerationPresent, LeasesOf, Stored
  <1>4. IsFiniteSet(LeasesOf(s)) /\ Cardinality(LeasesOf(s)) <= Cardinality(Stored)
    <2>1. LeasesOf(s) \subseteq Stored
      BY DEF LeasesOf
    <2> QED
      BY <2>1, FS_Subset DEF TableBounded
  <1>5. f \in Surjection(LeasesOf(s), 1..n)
    BY <1>2, <1>3 DEF Surjection
  <1>6. Cardinality(1..n) = n
    BY <1>1, FS_Interval
  <1>7. n <= Cardinality(LeasesOf(s))
    <2> HIDE DEF f, n, s
    <2> QED
      BY <1>4, <1>5, <1>6, FS_Surjection
  <1>8. Cardinality(Stored) \in Nat /\ Cardinality(LeasesOf(s)) \in Nat
    BY <1>4, FS_CardinalityType DEF TableBounded
  <1>9. n <= MAX_LEASES
    <2> HIDE DEF n, s
    <2> QED
      BY <1>1, <1>4, <1>7, <1>8, LeasesAssumption DEF TableBounded, LeasesAssumption
  <1>10. leases[id].generation \in 1..n
    BY <1>2 DEF LeasesOf
  <1> HIDE DEF n
  <1> QED
    BY <1>1, <1>9, <1>10, LeasesAssumption DEF LeasesAssumption

\* Every lease keeps its assignee, and none is added.
Assigned ==
    \A id \in Stored' :
        /\ id \in Stored
        /\ leases'[id].assigned_tentacle = leases[id].assigned_tentacle
        /\ leases'[id].tentacle_incarnation = leases[id].tentacle_incarnation

\* What an operation on some leases of the table leaves of the others and of
\* their assignees.
LEMMA RewrittenLeases ==
  ASSUME NEW U, U \subseteq Stored, NoLease \notin Lease,
         \A id \in LeaseId \ U : leases'[id] = leases[id],
         \A id \in U : /\ leases'[id] \in Lease
                       /\ leases'[id].assigned_tentacle = leases[id].assigned_tentacle
                       /\ leases'[id].tentacle_incarnation = leases[id].tentacle_incarnation
  PROVE  Assigned /\ Stored' = Stored
  <1>1. \A id \in U : leases'[id] # NoLease
    OBVIOUS
  <1>2. Stored' = Stored
    BY <1>1 DEF Stored
  <1> QED
    BY <1>2 DEF Assigned, Stored

\* Ending a lease changes neither its type nor its assignee.
LEMMA EndedLease ==
  ASSUME NEW l \in Lease, NEW status \in LeaseStatus
  PROVE  /\ [l EXCEPT !.status = status] \in Lease
         /\ [l EXCEPT !.status = status].assigned_tentacle = l.assigned_tentacle
         /\ [l EXCEPT !.status = status].tentacle_incarnation = l.tentacle_incarnation
  BY DEF Lease

\* Every call but a grant and a failover.
ChoosesNobody ==
    \/ \E id \in LeaseId, t \in TentacleId, i \in Incarnation, g \in 1..MAX_LEASES :
          \/ Accept(id, t, i, g)
          \/ Release(id, t, i, g)
          \/ \E term \in Term : Renew(id, t, i, g, term)
    \/ \E id \in LeaseId : Revoke(id)
    \/ Expire
    \/ UNCHANGED leases

\* Only a grant and a failover choose an assignee.
LEMMA OthersKeepAssignees ==
  ASSUME IInv, ChoosesNobody
  PROVE  Assigned /\ Stored' = Stored
  <1>0. leases \in [LeaseId -> Lease \cup {NoLease}] /\ NoLease \notin Lease /\ now \in Nat
    BY LeasesAssumption DEF LeasesAssumption, IInv, TypeOK
  <1>1. ASSUME NEW id \in Stored, NEW status \in LeaseStatus,
               leases' = [leases EXCEPT ![id].status = status]
        PROVE  Assigned /\ Stored' = Stored
    <2>1. leases[id] \in Lease /\ id \in LeaseId
      BY <1>0 DEF Stored
    <2>2. leases'[id] = [leases[id] EXCEPT !.status = status]
      BY <1>0, <1>1, <2>1
    <2>3. \A x \in LeaseId \ {id} : leases'[x] = leases[x]
      BY <1>0, <1>1
    <2>4. /\ leases'[id] \in Lease
          /\ leases'[id].assigned_tentacle = leases[id].assigned_tentacle
          /\ leases'[id].tentacle_incarnation = leases[id].tentacle_incarnation
      BY <2>1, <2>2, EndedLease
    <2> DEFINE U == {id}
    <2>5. U \subseteq Stored /\ (\A x \in LeaseId \ U : leases'[x] = leases[x])
      BY <2>3
    <2>6. \A x \in U : /\ leases'[x] \in Lease
                       /\ leases'[x].assigned_tentacle = leases[x].assigned_tentacle
                       /\ leases'[x].tentacle_incarnation = leases[x].tentacle_incarnation
      BY <2>4
    <2> HIDE DEF U
    <2> QED
      BY <1>0, <2>5, <2>6, RewrittenLeases
  <1>2. ASSUME NEW id \in LeaseId, NEW t, NEW i, NEW g, NEW term \in Term, Renew(id, t, i, g, term)
        PROVE  Assigned /\ Stored' = Stored
    <2>1. leases[id] \in Lease /\ id \in Stored
      BY <1>0, <1>2 DEF Stored, Renew, HeldBy
    <2> DEFINE renewal == now + term[1]
               expiry == now + term[2]
    <2>2. renewal \in Nat /\ expiry \in Nat
      BY <1>0, LeasesAssumption DEF LeasesAssumption
    <2>3. leases'[id] = [leases[id] EXCEPT !.renewal_deadline = renewal, !.expires_at = expiry]
      BY <1>0, <1>2, <2>1 DEF Renew
    <2>4. \A x \in LeaseId \ {id} : leases'[x] = leases[x]
      BY <1>0, <1>2 DEF Renew
    <2>5. /\ leases'[id] \in Lease
          /\ leases'[id].assigned_tentacle = leases[id].assigned_tentacle
          /\ leases'[id].tentacle_incarnation = leases[id].tentacle_incarnation
      <3> HIDE DEF renewal, expiry
      <3> QED
        BY <2>1, <2>2, <2>3 DEF Lease
    <2> DEFINE U == {id}
    <2>6. U \subseteq Stored /\ (\A x \in LeaseId \ U : leases'[x] = leases[x])
      BY <2>1, <2>4
    <2>7. \A x \in U : /\ leases'[x] \in Lease
                       /\ leases'[x].assigned_tentacle = leases[x].assigned_tentacle
                       /\ leases'[x].tentacle_incarnation = leases[x].tentacle_incarnation
      BY <2>5
    <2> HIDE DEF U
    <2> QED
      BY <1>0, <2>6, <2>7, RewrittenLeases
  <1>3. ASSUME Expire
        PROVE  Assigned /\ Stored' = Stored
    <2> DEFINE U == Overdue(now)
    <2>1. U \subseteq Stored /\ Stored \subseteq LeaseId
      BY DEF Overdue, Stored
    <2>2. \A x \in LeaseId \ U : leases'[x] = leases[x]
      BY <1>3 DEF Expire
    <2>3. ASSUME NEW x \in U
          PROVE  /\ leases'[x] \in Lease
                 /\ leases'[x].assigned_tentacle = leases[x].assigned_tentacle
                 /\ leases'[x].tentacle_incarnation = leases[x].tentacle_incarnation
      <3>1. leases[x] \in Lease /\ x \in LeaseId
        BY <1>0, <2>1 DEF Stored
      <3>2. leases'[x] = [leases[x] EXCEPT !.status = "Expired"]
        BY <1>3, <3>1 DEF Expire
      <3> QED
        BY <3>1, <3>2, EndedLease DEF LeaseStatus
    <2> HIDE DEF U
    <2> QED
      BY <1>0, <2>1, <2>2, <2>3, RewrittenLeases
  <1>4. ASSUME UNCHANGED leases
        PROVE  Assigned /\ Stored' = Stored
    BY <1>4 DEF Assigned, Stored
  <1>5. ASSUME NEW id \in LeaseId, NEW t, NEW i, NEW g,
               Accept(id, t, i, g) \/ Release(id, t, i, g)
        PROVE  Assigned /\ Stored' = Stored
    <2>1. id \in Stored
      BY <1>5 DEF Accept, Release, HeldBy, Stored
    <2>2. \E status \in LeaseStatus : leases' = [leases EXCEPT ![id].status = status]
      BY <1>5 DEF Accept, Release, LeaseStatus
    <2> QED
      BY <1>1, <2>1, <2>2
  <1>6. ASSUME NEW id \in LeaseId, Revoke(id)
        PROVE  Assigned /\ Stored' = Stored
    <2>1. id \in Stored /\ leases' = [leases EXCEPT ![id].status = "Revoked"]
      BY <1>6 DEF Revoke, Stored
    <2> QED
      BY <1>1, <2>1 DEF LeaseStatus
  <1> QED
    BY <1>2, <1>3, <1>4, <1>5, <1>6 DEF ChoosesNobody

\* The table grows by one lease at a time, and only below its limit.
LEMMA TableStaysBounded ==
  ASSUME IInv, TableBounded, [Next]_vars
  PROVE  TableBounded'
  <1>0. leases \in [LeaseId -> Lease \cup {NoLease}] /\ NoLease \notin Lease
    BY LeasesAssumption DEF LeasesAssumption, IInv, TypeOK
  <1>1. ASSUME NEW id, Stored' \subseteq Stored \cup {id}, Cardinality(Stored) < MAX_LEASES
        PROVE  TableBounded'
    <2>1. /\ IsFiniteSet(Stored \cup {id})
          /\ Cardinality(Stored \cup {id}) <= Cardinality(Stored) + 1
      <3>1. CASE id \in Stored
        <4>1. Stored \cup {id} = Stored
          BY <3>1
        <4>2. IsFiniteSet(Stored) /\ Cardinality(Stored) \in Nat
          BY FS_CardinalityType DEF TableBounded
        <4>3. Cardinality(Stored) <= Cardinality(Stored) + 1
          BY <4>2
        <4> QED
          BY <4>1, <4>2, <4>3
      <3>2. CASE id \notin Stored
        <4>1. IsFiniteSet(Stored) /\ Cardinality(Stored) \in Nat
          BY FS_CardinalityType DEF TableBounded
        <4>2. /\ IsFiniteSet(Stored \cup {id})
              /\ Cardinality(Stored \cup {id}) = Cardinality(Stored) + 1
          BY <3>2, <4>1, FS_AddElement
        <4> QED
          BY <4>1, <4>2
      <3> QED
        BY <3>1, <3>2
    <2>2. IsFiniteSet(Stored') /\ Cardinality(Stored') <= Cardinality(Stored \cup {id})
      BY <1>1, <2>1, FS_Subset
    <2>3. /\ Cardinality(Stored) \in Nat /\ Cardinality(Stored \cup {id}) \in Nat
          /\ Cardinality(Stored') \in Nat /\ MAX_LEASES \in Nat
      BY <2>1, <2>2, FS_CardinalityType, LeasesAssumption DEF TableBounded, LeasesAssumption
    <2> QED
      BY <1>1, <2>1, <2>2, <2>3 DEF TableBounded
  <1>2. ASSUME Stored' = Stored
        PROVE  TableBounded'
    BY <1>2 DEF TableBounded
  <1>3. ASSUME NEW id \in LeaseId, NEW s \in SessionId, NEW t \in TentacleId,
               NEW i \in Incarnation, NEW term \in Term, NEW r \in RequestExpiry,
               Grant(id, s, t, i, term, r)
        PROVE  TableBounded'
    <2>1. Stored' \subseteq Stored \cup {id}
      <3>1. \A x \in LeaseId : x # id => leases'[x] = leases[x]
        BY <1>0, <1>3 DEF Grant
      <3> QED
        BY <3>1 DEF Stored
    <2>2. Cardinality(Stored) < MAX_LEASES
      BY <1>3 DEF Grant, GrantAllowed
    <2> QED
      BY <1>1, <2>1, <2>2
  <1>4. ASSUME NEW old \in LeaseId, NEW id \in LeaseId, NEW t \in TentacleId,
               NEW i \in Incarnation, NEW term \in Term, Failover(old, id, t, i, term)
        PROVE  TableBounded'
    <2>1. Stored' \subseteq Stored \cup {id}
      <3>1. \A x \in LeaseId : x \notin {id, old} => leases'[x] = leases[x]
        BY <1>0, <1>4 DEF Failover
      <3>2. leases[old] # NoLease
        BY <1>4 DEF Failover
      <3> QED
        BY <3>1, <3>2 DEF Stored
    <2>2. Cardinality(Stored) < MAX_LEASES
      BY <1>4 DEF Failover, GrantAllowed
    <2> QED
      BY <1>1, <2>1, <2>2
  <1>5. ASSUME ChoosesNobody
        PROVE  TableBounded'
    BY <1>2, <1>5, OthersKeepAssignees
  <1>6. ASSUME UNCHANGED leases
        PROVE  TableBounded'
    BY <1>2, <1>6 DEF Stored
  <1> QED
    BY <1>3, <1>4, <1>5, <1>6 DEF Next, ChoosesNobody, SetClock, vars

\* A holder's call is one that the manager alone would allow.
LEMMA HolderCalls ==
  ASSUME IInv, TableBounded, NEW id \in LeaseId, HolderStep(id)
  PROVE  ChoosesNobody /\ Next
  <1> DEFINE t == leases[id].assigned_tentacle
             i == leases[id].tentacle_incarnation
             g == leases[id].generation
  <1>1. id \in Stored
    BY DEF HolderStep, Stored
  <1>2. leases[id] \in Lease
    BY <1>1 DEF Stored, IInv, TypeOK
  <1>3. t \in TentacleId /\ i \in Incarnation
    BY <1>2 DEF Lease
  <1>4. g \in 1..MAX_LEASES
    BY <1>1, GenerationsFit
  <1>5. \/ Accept(id, t, i, g)
        \/ Release(id, t, i, g)
        \/ \E term \in Term : Renew(id, t, i, g, term)
    BY DEF HolderStep
  <1> HIDE DEF t, i, g
  <1> QED
    BY <1>3, <1>4, <1>5 DEF Next, ChoosesNobody

\* Each step of the control plane is a call of the manager that the manager
\* alone would allow, or leaves it alone: what a holder claims is in the lease it
\* was given, and a request names the incarnation of a record.
LEMMA PlaneCallsManager ==
  ASSUME CouncilInv, [CouncilNext]_councilVars
  PROVE  [Next]_vars
  <1>0. leases \in [LeaseId -> Lease \cup {NoLease}] /\ IInv /\ TableBounded
    BY DEF CouncilInv, IInv, TypeOK
  <1>1. \A t \in TentacleId : Eligible(t) => tentacles[t].incarnation \in Incarnation
    BY DEF CouncilInv, Tracker!TypeOK, Tracker!Tentacle, Eligible
  <1>2. ASSUME NEW id \in LeaseId, NEW s \in SessionId, NEW t \in TentacleId,
               NEW term \in Term, NEW r \in RequestExpiry, Request(id, s, t, term, r)
        PROVE  Next
    <2>1. Grant(id, s, t, tentacles[t].incarnation, term, r)
      BY <1>2 DEF Request
    <2>2. tentacles[t].incarnation \in Incarnation
      BY <1>1, <1>2 DEF Request
    <2> QED
      BY <2>1, <2>2 DEF Next
  <1>3. ASSUME NEW old \in LeaseId, NEW id \in LeaseId, NEW t \in TentacleId,
               NEW term \in Term, FailoverTo(old, id, t, term)
        PROVE  Next
    <2>1. Failover(old, id, t, tentacles[t].incarnation, term)
      BY <1>3 DEF FailoverTo
    <2>2. tentacles[t].incarnation \in Incarnation
      BY <1>1, <1>3 DEF FailoverTo
    <2> QED
      BY <2>1, <2>2 DEF Next
  <1>4. ASSUME NEW id \in LeaseId, HolderStep(id)
        PROVE  Next
    BY <1>0, <1>4, HolderCalls
  <1>5. ASSUME ManagerStep
        PROVE  Next
    BY <1>5 DEF ManagerStep, Next
  <1>6. ASSUME TrackerStep
        PROVE  UNCHANGED vars
    BY <1>6 DEF TrackerStep, vars, Tracker!Announce, Tracker!Heartbeat, Tracker!Assess
  <1>7. ASSUME NEW t \in 0..MaxTime, ClockStep(t)
        PROVE  Next
    BY <1>7 DEF ClockStep, Next
  <1>8. ASSUME UNCHANGED councilVars
        PROVE  UNCHANGED vars
    BY <1>8 DEF councilVars, vars
  <1> QED
    BY <1>2, <1>3, <1>4, <1>5, <1>6, <1>7, <1>8 DEF CouncilNext

\* Each step of the control plane is a step of the tracker or leaves it alone.
LEMMA PlaneMovesTracker ==
  ASSUME [CouncilNext]_councilVars
  PROVE  [Tracker!Next]_(Tracker!vars)
  <1>1. ASSUME TrackerStep
        PROVE  Tracker!Next
    BY <1>1 DEF TrackerStep, Tracker!Next
  <1>2. ASSUME NEW t \in 0..MaxTime, ClockStep(t)
        PROVE  Tracker!Next
    BY <1>2 DEF ClockStep, SetClock, Tracker!SetClock, Tracker!Next
  <1>3. ASSUME NEW id \in LeaseId, HolderStep(id)
        PROVE  UNCHANGED <<tentacles, now>>
    BY <1>3 DEF HolderStep, Accept, Release, Renew
  <1>4. ASSUME ManagerStep
        PROVE  UNCHANGED <<tentacles, now>>
    BY <1>4 DEF ManagerStep, Expire, Revoke
  <1>5. ASSUME NEW id \in LeaseId, NEW s \in SessionId, NEW t \in TentacleId,
               NEW term \in Term, NEW r \in RequestExpiry, Request(id, s, t, term, r)
        PROVE  UNCHANGED <<tentacles, now>>
    BY <1>5 DEF Request, Grant
  <1>6. ASSUME NEW old \in LeaseId, NEW id \in LeaseId, NEW t \in TentacleId,
               NEW term \in Term, FailoverTo(old, id, t, term)
        PROVE  UNCHANGED <<tentacles, now>>
    BY <1>6 DEF FailoverTo, Failover
  <1>7. ASSUME UNCHANGED councilVars
        PROVE  UNCHANGED <<tentacles, now>>
    BY <1>7 DEF councilVars
  <1> QED
    BY <1>1, <1>2, <1>3, <1>4, <1>5, <1>6, <1>7 DEF CouncilNext, Tracker!vars

\* An update that passes the checks, and a sweep, move a record forward only.
MovesOn(t, u) ==
    /\ u \in Tracker!Tentacle
    /\ u.incarnation.generation >= t.incarnation.generation
    /\ u.incarnation.generation = t.incarnation.generation => u.incarnation = t.incarnation
    /\ u.last_heartbeat >= t.last_heartbeat
    /\ t.lifecycle = "Stopped" =>
           \/ u.lifecycle = "Stopped"
           \/ /\ u.lifecycle = "Starting"
              /\ u.incarnation.generation > t.incarnation.generation

\* What an update carries is a record the tracker may hold.
LEMMA UpdateTypes ==
  ASSUME CouncilParameters, NEW u \in Tracker!Update
  PROVE  u \in Tracker!Tentacle
  <1>1. MaxTime + MAX_FUTURE_HEARTBEAT_SKEW_SECONDS + 1 \in Nat
    BY DEF CouncilParameters, Tracker!LivenessParameters
  <1>2. u.last_heartbeat \in Nat
    BY <1>1 DEF Tracker!Update
  <1> QED
    BY <1>2 DEF CouncilParameters, Tracker!LivenessParameters, Tracker!Update, Tracker!Tentacle

\* The staleness rule and the lifecycle diagram let a record move on only.
LEMMA UpdateMovesOn ==
  ASSUME CouncilParameters, NEW t \in Tracker!Tentacle, NEW u \in Tracker!Update,
         Tracker!ApplyUpdate(t, u)
  PROVE  MovesOn(t, u)
  <1>1. u \in Tracker!Tentacle
    BY UpdateTypes
  <1>2. t.incarnation \in Incarnation /\ u.incarnation \in Incarnation
    BY <1>1 DEF Tracker!Tentacle
  <1>3. t.incarnation.generation \in Nat /\ u.incarnation.generation \in Nat
    BY <1>2 DEF CouncilParameters, Tracker!LivenessParameters
  <1>4. u.incarnation.generation = t.incarnation.generation => u.incarnation = t.incarnation
    BY <1>2 DEF Tracker!ApplyUpdate, Tracker!NotStale, CouncilParameters, Tracker!LivenessParameters
  <1>5. u.incarnation.generation >= t.incarnation.generation /\ u.last_heartbeat >= t.last_heartbeat
    BY DEF Tracker!ApplyUpdate, Tracker!NotStale
  <1>6. ASSUME t.lifecycle = "Stopped"
        PROVE  \/ u.lifecycle = "Stopped"
               \/ /\ u.lifecycle = "Starting"
                  /\ u.incarnation.generation > t.incarnation.generation
    BY <1>6 DEF Tracker!ApplyUpdate, Tracker!LifecycleOK, Tracker!CanTransitionTo
  <1> QED
    BY <1>1, <1>4, <1>5, <1>6 DEF MovesOn

\* A sweep changes health and lifecycle, and ends no stop.
LEMMA SweepMovesOn ==
  ASSUME CouncilParameters, NEW t \in Tracker!Tentacle
  PROVE  MovesOn(t, Tracker!Assessed(t))
  <1> DEFINE u == Tracker!Assessed(t)
  <1>1. u \in Tracker!Tentacle
    BY DEF Tracker!Assessed, Tracker!Tentacle, Tracker!TentacleLifecycle, Tracker!HealthStatus
  <1>2. u.incarnation = t.incarnation /\ u.last_heartbeat = t.last_heartbeat
    <2> DEFINE lifecycle == IF Tracker!CanTransitionTo(t.lifecycle, "Unavailable")
                            THEN "Unavailable" ELSE t.lifecycle
    <2>1. \/ u = t
          \/ u = [t EXCEPT !.health = "Unavailable"]
          \/ u = [t EXCEPT !.health = "Unavailable", !.lifecycle = lifecycle]
          \/ u = [t EXCEPT !.health = "Suspect"]
      BY DEF Tracker!Assessed
    <2> HIDE DEF u, lifecycle
    <2> QED
      BY <2>1 DEF Tracker!Tentacle
  <1>3. t.lifecycle = "Stopped" => u.lifecycle = "Stopped"
    BY DEF Tracker!Assessed, Tracker!Tentacle
  <1>4. t.incarnation.generation \in Nat /\ t.last_heartbeat \in Nat
    BY DEF Tracker!Tentacle, CouncilParameters, Tracker!LivenessParameters
  <1>5. MovesOn(t, u)
    <2> HIDE DEF u
    <2> QED
      BY <1>1, <1>2, <1>3, <1>4 DEF MovesOn
  <1> QED
    BY <1>5

\* What a step of the tracker, or of the clock, does to the records.
LEMMA RecordsMoveOn ==
  ASSUME CouncilParameters, Tracker!TypeOK, [Tracker!Next]_(Tracker!vars)
  PROVE  /\ Tracker!TypeOK'
         /\ \A id \in Tracker!Known : MovesOn(tentacles[id], tentacles'[id])
         /\ Tracker!Known \subseteq Tracker!Known'
  <1>0. /\ tentacles \in [TentacleId -> Tracker!Tentacle \cup {NoTentacle}]
        /\ now \in Nat /\ NoTentacle \notin Tracker!Tentacle
    BY DEF Tracker!TypeOK, CouncilParameters, Tracker!LivenessParameters
  <1>a. \A id \in Tracker!Known : tentacles[id] \in Tracker!Tentacle /\ id \in TentacleId
    BY <1>0 DEF Tracker!Known
  <1>b. \A t \in Tracker!Tentacle : MovesOn(t, t)
    BY DEF MovesOn, Tracker!Tentacle, CouncilParameters, Tracker!LivenessParameters
  <1>1. ASSUME NEW id \in TentacleId, NEW u \in Tracker!Update,
               Tracker!Announce(id, u) \/ Tracker!Heartbeat(id, u)
        PROVE  /\ Tracker!TypeOK'
               /\ \A x \in Tracker!Known : MovesOn(tentacles[x], tentacles'[x])
               /\ Tracker!Known \subseteq Tracker!Known'
    <2>1. u \in Tracker!Tentacle
      BY UpdateTypes
    <2>2. tentacles' = [tentacles EXCEPT ![id] = u] /\ now' = now
      BY <1>1 DEF Tracker!Announce, Tracker!Heartbeat
    <2>3. tentacles[id] # NoTentacle => Tracker!ApplyUpdate(tentacles[id], u)
      BY <1>1 DEF Tracker!Announce, Tracker!Heartbeat
    <2>4. Tracker!TypeOK'
      BY <1>0, <2>1, <2>2 DEF Tracker!TypeOK
    <2>5. ASSUME NEW x \in Tracker!Known
          PROVE  MovesOn(tentacles[x], tentacles'[x]) /\ x \in Tracker!Known'
      <3>1. tentacles[x] \in Tracker!Tentacle /\ x \in TentacleId /\ tentacles[x] # NoTentacle
        BY <1>a DEF Tracker!Known
      <3>2. CASE x = id
        <4>1. tentacles'[x] = u
          BY <1>0, <2>2, <3>2
        <4>2. MovesOn(tentacles[x], u)
          BY <2>3, <3>1, <3>2, UpdateMovesOn
        <4> QED
          BY <1>0, <2>1, <3>1, <4>1, <4>2 DEF Tracker!Known
      <3>3. CASE x # id
        <4>1. tentacles'[x] = tentacles[x]
          BY <1>0, <2>2, <3>3
        <4> QED
          BY <1>b, <3>1, <4>1 DEF Tracker!Known
      <3> QED
        BY <3>2, <3>3
    <2> QED
      BY <2>4, <2>5
  <1>2. ASSUME Tracker!Assess
        PROVE  /\ Tracker!TypeOK'
               /\ \A x \in Tracker!Known : MovesOn(tentacles[x], tentacles'[x])
               /\ Tracker!Known \subseteq Tracker!Known'
    <2>1. \A x \in Tracker!Known : tentacles'[x] = Tracker!Assessed(tentacles[x])
      BY <1>a, <1>2 DEF Tracker!Assess
    <2>2. \A x \in TentacleId : x \notin Tracker!Known => tentacles'[x] = tentacles[x]
      BY <1>2 DEF Tracker!Assess
    <2>3. \A x \in Tracker!Known : MovesOn(tentacles[x], tentacles'[x])
      BY <1>a, <2>1, SweepMovesOn
    <2>4. \A x \in Tracker!Known : tentacles'[x] \in Tracker!Tentacle
      BY <2>3 DEF MovesOn
    <2>5. tentacles' = [id \in TentacleId |-> tentacles'[id]] /\ now' = now
      BY <1>2 DEF Tracker!Assess
    <2>6. \A x \in TentacleId : tentacles'[x] \in Tracker!Tentacle \cup {NoTentacle}
      BY <1>0, <2>2, <2>4
    <2>7. Tracker!TypeOK'
      BY <1>0, <2>5, <2>6 DEF Tracker!TypeOK
    <2>8. Tracker!Known \subseteq Tracker!Known'
      BY <1>0, <1>a, <2>4 DEF Tracker!Known
    <2> QED
      BY <2>3, <2>7, <2>8
  <1>3. ASSUME NEW t \in 0..MaxTime, Tracker!SetClock(t)
        PROVE  UNCHANGED tentacles /\ now' \in Nat
    BY <1>3 DEF Tracker!SetClock, CouncilParameters, Tracker!LivenessParameters
  <1>4. ASSUME UNCHANGED tentacles, now' \in Nat
        PROVE  /\ Tracker!TypeOK'
               /\ \A x \in Tracker!Known : MovesOn(tentacles[x], tentacles'[x])
               /\ Tracker!Known \subseteq Tracker!Known'
    BY <1>0, <1>4, <1>a, <1>b DEF Tracker!TypeOK, Tracker!Known
  <1>5. ASSUME UNCHANGED Tracker!vars
        PROVE  UNCHANGED tentacles /\ now' \in Nat
    BY <1>0, <1>5 DEF Tracker!vars
  <1> QED
    BY <1>1, <1>2, <1>3, <1>4, <1>5 DEF Tracker!Next

\* The lease a grant or a failover stores names the assignee it was called for.
LEMMA NewLeaseAssigned ==
  ASSUME IInv, NEW id \in LeaseId, NEW t \in TentacleId, NEW i \in Incarnation,
         \/ \E s \in SessionId, term \in Term, r \in RequestExpiry : Grant(id, s, t, i, term, r)
         \/ \E old \in LeaseId, term \in Term : Failover(old, id, t, i, term)
  PROVE  /\ leases'[id].assigned_tentacle = t
         /\ leases'[id].tentacle_incarnation = i
         /\ \A x \in Stored' : x # id =>
                /\ x \in Stored
                /\ leases'[x].assigned_tentacle = leases[x].assigned_tentacle
                /\ leases'[x].tentacle_incarnation = leases[x].tentacle_incarnation
  <1>0. leases \in [LeaseId -> Lease \cup {NoLease}]
    BY DEF IInv, TypeOK
  <1>1. ASSUME NEW s \in SessionId, NEW term \in Term, NEW r \in RequestExpiry,
               Grant(id, s, t, i, term, r)
        PROVE  /\ leases'[id] = NewLease(s, t, i, term, r)
               /\ \A x \in LeaseId : x # id => leases'[x] = leases[x]
    BY <1>0, <1>1 DEF Grant
  <1>2. ASSUME NEW old \in LeaseId, NEW term \in Term, Failover(old, id, t, i, term)
        PROVE  /\ \E s, r : leases'[id] = NewLease(s, t, i, term, r)
               /\ \A x \in LeaseId : x \notin {id, old} => leases'[x] = leases[x]
               /\ old \in Stored /\ old # id
               /\ leases'[old] = [leases[old] EXCEPT !.status = "Revoked"]
    BY <1>0, <1>2 DEF Failover, GrantAllowed, Stored
  <1>3. \A s, term, r : /\ NewLease(s, t, i, term, r).assigned_tentacle = t
                        /\ NewLease(s, t, i, term, r).tentacle_incarnation = i
    BY DEF NewLease
  <1>4. CASE \E s \in SessionId, term \in Term, r \in RequestExpiry : Grant(id, s, t, i, term, r)
    <2>1. PICK s \in SessionId, term \in Term, r \in RequestExpiry : Grant(id, s, t, i, term, r)
      BY <1>4
    <2>2. /\ leases'[id] = NewLease(s, t, i, term, r)
          /\ \A x \in LeaseId : x # id => leases'[x] = leases[x]
      BY <1>1, <2>1
    <2> QED
      BY <1>3, <2>2 DEF Stored
  <1>5. CASE \E old \in LeaseId, term \in Term : Failover(old, id, t, i, term)
    <2>1. PICK old \in LeaseId, term \in Term : Failover(old, id, t, i, term)
      BY <1>5
    <2>2. /\ \E s, r : leases'[id] = NewLease(s, t, i, term, r)
          /\ \A x \in LeaseId : x \notin {id, old} => leases'[x] = leases[x]
          /\ old \in Stored /\ old # id
          /\ leases'[old] = [leases[old] EXCEPT !.status = "Revoked"]
      BY <1>2, <2>1
    <2>3. leases[old] \in Lease
      BY <1>0, <2>2 DEF Stored
    <2>4. /\ leases'[old].assigned_tentacle = leases[old].assigned_tentacle
          /\ leases'[old].tentacle_incarnation = leases[old].tentacle_incarnation
      BY <2>2, <2>3, EndedLease DEF LeaseStatus
    <2>5. ASSUME NEW x \in Stored', x # id
          PROVE  /\ x \in Stored
                 /\ leases'[x].assigned_tentacle = leases[x].assigned_tentacle
                 /\ leases'[x].tentacle_incarnation = leases[x].tentacle_incarnation
      <3>1. CASE x = old
        BY <2>2, <2>4, <3>1
      <3>2. CASE x # old
        BY <2>2, <2>5, <3>2 DEF Stored
      <3> QED
        BY <3>1, <3>2
    <2>6. leases'[id].assigned_tentacle = t /\ leases'[id].tentacle_incarnation = i
      BY <1>3, <2>2
    <2> QED
      BY <2>5, <2>6
  <1> QED
    BY <1>4, <1>5

\* What LeaseNotAhead says of one lease's assignee.
Seen(t, i) ==
    /\ tentacles[t] # NoTentacle
    /\ i.generation <= tentacles[t].incarnation.generation
    /\ i.generation = tentacles[t].incarnation.generation => i = tentacles[t].incarnation

\* An assignee the tracker has seen stays seen, since its record only moves on.
LEMMA SeenStays ==
  ASSUME CouncilParameters, Tracker!TypeOK, [Tracker!Next]_(Tracker!vars),
         NEW t \in TentacleId, NEW i \in Incarnation, Seen(t, i)
  PROVE  Seen(t, i)'
  <1>1. t \in Tracker!Known /\ t \in Tracker!Known'
    BY RecordsMoveOn DEF Seen, Tracker!Known
  <1>2. MovesOn(tentacles[t], tentacles'[t])
    BY <1>1, RecordsMoveOn
  <1>3. tentacles[t] \in Tracker!Tentacle /\ tentacles'[t] \in Tracker!Tentacle
    BY <1>1, <1>2 DEF MovesOn, Tracker!TypeOK, Tracker!Known
  <1>4. /\ i.generation \in Nat
        /\ tentacles[t].incarnation.generation \in Nat
        /\ tentacles'[t].incarnation.generation \in Nat
    BY <1>3 DEF Tracker!Tentacle, CouncilParameters, Tracker!LivenessParameters
  <1> QED
    BY <1>1, <1>2, <1>4 DEF Seen, MovesOn, Tracker!Known

\* An empty manager and an empty tracker.
LEMMA InitCouncil ==
  ASSUME CouncilParameters, CouncilInit
  PROVE  CouncilInv
  <1>1. IInv
    BY InitIInv DEF CouncilInit
  <1>2. Stored = {}
    BY DEF CouncilInit, Init, Stored
  <1>3. TableBounded
    BY <1>2, FS_EmptySet, LeasesAssumption DEF TableBounded, LeasesAssumption
  <1>4. Tracker!TypeOK
    BY DEF CouncilInit, Tracker!Init, Tracker!TypeOK
  <1>5. LeaseNotAhead
    BY <1>2 DEF LeaseNotAhead
  <1> QED
    BY <1>1, <1>3, <1>4, <1>5 DEF CouncilInv

\* A new lease names the record of its assignee, and every other lease one that
\* the record only moves on from.
LEMMA NextCouncil ==
  ASSUME CouncilParameters, CouncilInv, [CouncilNext]_councilVars
  PROVE  CouncilInv'
  <1>1. [Next]_vars
    BY PlaneCallsManager
  <1>2. [Tracker!Next]_(Tracker!vars)
    BY PlaneMovesTracker
  <1>3. IInv /\ TableBounded /\ Tracker!TypeOK
    BY DEF CouncilInv
  <1>4. IInv'
    BY <1>1, <1>3, NextIInv
  <1>5. TableBounded'
    BY <1>1, <1>3, TableStaysBounded
  <1>6. Tracker!TypeOK'
    BY <1>2, <1>3, RecordsMoveOn
  <1>7. \A id \in Stored : /\ leases[id].assigned_tentacle \in TentacleId
                           /\ leases[id].tentacle_incarnation \in Incarnation
                           /\ Seen(leases[id].assigned_tentacle, leases[id].tentacle_incarnation)
    BY DEF CouncilInv, LeaseNotAhead, Seen, IInv, TypeOK, Stored, Lease
  <1>8. \A id \in Stored :
            Seen(leases[id].assigned_tentacle, leases[id].tentacle_incarnation)'
            \/ leases'[id].assigned_tentacle # leases[id].assigned_tentacle
            \/ leases'[id].tentacle_incarnation # leases[id].tentacle_incarnation
    <2> SUFFICES ASSUME NEW id \in Stored,
                        leases'[id].assigned_tentacle = leases[id].assigned_tentacle,
                        leases'[id].tentacle_incarnation = leases[id].tentacle_incarnation
                 PROVE  Seen(leases[id].assigned_tentacle, leases[id].tentacle_incarnation)'
      OBVIOUS
    <2> DEFINE t == leases[id].assigned_tentacle
               i == leases[id].tentacle_incarnation
    <2>1. PICK tt \in TentacleId, ii \in Incarnation : tt = t /\ ii = i
      BY <1>7
    <2>2. Seen(tt, ii)
      BY <1>7, <2>1
    <2>3. Seen(tt, ii)'
      BY <1>2, <1>3, <2>2, SeenStays
    <2> QED
      BY <2>1, <2>3 DEF Seen
  <1>9. ASSUME Assigned
        PROVE  LeaseNotAhead'
    BY <1>8, <1>9 DEF Assigned, LeaseNotAhead, Seen
  <1>10. ASSUME NEW id \in LeaseId, NEW t \in TentacleId, Eligible(t), UNCHANGED tentacles,
                \/ \E s \in SessionId, term \in Term, r \in RequestExpiry :
                     Grant(id, s, t, tentacles[t].incarnation, term, r)
                \/ \E old \in LeaseId, term \in Term :
                     Failover(old, id, t, tentacles[t].incarnation, term)
         PROVE  LeaseNotAhead'
    <2>1. tentacles[t] \in Tracker!Tentacle
      BY <1>3, <1>10 DEF Eligible, Tracker!TypeOK
    <2>2. PICK i \in Incarnation : i = tentacles[t].incarnation
      BY <2>1 DEF Tracker!Tentacle
    <2>3. i.generation \in Nat
      BY DEF CouncilParameters, Tracker!LivenessParameters
    <2>4. Seen(t, i)'
      BY <1>10, <2>2, <2>3 DEF Seen, Eligible
    <2>5. /\ leases'[id].assigned_tentacle = t
          /\ leases'[id].tentacle_incarnation = i
          /\ \A x \in Stored' : x # id =>
                 /\ x \in Stored
                 /\ leases'[x].assigned_tentacle = leases[x].assigned_tentacle
                 /\ leases'[x].tentacle_incarnation = leases[x].tentacle_incarnation
      BY <1>3, <1>10, <2>2, NewLeaseAssigned
    <2>6. ASSUME NEW x \in Stored'
          PROVE  Seen(leases[x].assigned_tentacle, leases[x].tentacle_incarnation)'
      <3>1. CASE x = id
        BY <2>4, <2>5, <3>1 DEF Seen
      <3>2. CASE x # id
        BY <1>8, <2>5, <3>2
      <3> QED
        BY <3>1, <3>2
    <2> QED
      BY <2>6 DEF LeaseNotAhead, Seen
  <1>11. LeaseNotAhead'
    <2>1. ASSUME NEW id \in LeaseId, NEW s \in SessionId, NEW t \in TentacleId,
                 NEW term \in Term, NEW r \in RequestExpiry, Request(id, s, t, term, r)
          PROVE  LeaseNotAhead'
      BY <1>10, <2>1 DEF Request
    <2>2. ASSUME NEW old \in LeaseId, NEW id \in LeaseId, NEW t \in TentacleId,
                 NEW term \in Term, FailoverTo(old, id, t, term)
          PROVE  LeaseNotAhead'
      BY <1>10, <2>2 DEF FailoverTo
    <2>3. ASSUME NEW id \in LeaseId, HolderStep(id)
          PROVE  Assigned
      BY <1>3, <2>3, HolderCalls, OthersKeepAssignees
    <2>4. ASSUME ManagerStep
          PROVE  Assigned
      BY <1>3, <2>4, OthersKeepAssignees DEF ManagerStep, ChoosesNobody
    <2>5. ASSUME TrackerStep \/ (\E t \in 0..MaxTime : ClockStep(t)) \/ UNCHANGED councilVars
          PROVE  Assigned
      BY <2>5 DEF TrackerStep, ClockStep, SetClock, councilVars, Assigned, Stored
    <2> QED
      BY <1>9, <2>1, <2>2, <2>3, <2>4, <2>5 DEF CouncilNext
  <1> QED
    BY <1>4, <1>5, <1>6, <1>11 DEF CouncilInv

\* The invariant of the control plane, for every set of Tentacles, incarnations
\* and updates that LivenessTracker::new accepts.
THEOREM CouncilSound == CouncilParameters => (CouncilSpec => []CouncilInv)
  <1> SUFFICES ASSUME CouncilParameters PROVE CouncilSpec => []CouncilInv
    OBVIOUS
  <1>1. CouncilInit => CouncilInv
    BY InitCouncil
  <1>2. CouncilInv /\ [CouncilNext]_councilVars => CouncilInv'
    BY NextCouncil
  <1> QED
    BY <1>1, <1>2, PTL DEF CouncilSpec

\* The control plane implements the lease manager: whatever is proved of the
\* manager under every caller holds of it behind rendezvous and failover.
THEOREM PlaneIsManager == CouncilParameters => (CouncilSpec => Spec)
  <1> SUFFICES ASSUME CouncilParameters PROVE CouncilSpec => Spec
    OBVIOUS
  <1>1. CouncilInit => Init
    BY DEF CouncilInit
  <1>2. CouncilInv /\ [CouncilNext]_councilVars => [Next]_vars
    BY PlaneCallsManager
  <1>3. CouncilSpec => []CouncilInv
    BY CouncilSound
  <1> QED
    BY <1>1, <1>2, <1>3, PTL DEF CouncilSpec, Spec

\* The same of the tracker, which shares the manager's clock and no other state.
THEOREM PlaneIsTracker == CouncilSpec => Tracker!Spec
  <1>1. CouncilInit => Tracker!Init
    BY DEF CouncilInit
  <1>2. [CouncilNext]_councilVars => [Tracker!Next]_(Tracker!vars)
    BY PlaneMovesTracker
  <1> QED
    BY <1>1, <1>2, PTL DEF CouncilSpec, Tracker!Spec

\* Through rendezvous and failover too, nobody but the newest assignee of a
\* session may work, the manager's maps reload, and an ended lease stays so.
THEOREM PlaneFences ==
  CouncilParameters => (CouncilSpec => []Fencing /\ []TablesSound /\ EndedForGood)
  BY PlaneIsManager, FencingHolds, TablesSoundHolds, EndedForGoodHolds

\* No lease is ever ahead of what the tracker knows of its Tentacle.
THEOREM LeaseNotAheadHolds == CouncilParameters => (CouncilSpec => []LeaseNotAhead)
  <1>1. CouncilInv => LeaseNotAhead
    BY DEF CouncilInv
  <1> QED
    BY <1>1, CouncilSound, PTL

\* No late announcement, heartbeat or sweep moves a record back behind a later
\* incarnation or heartbeat.
THEOREM RecordsMoveForwardHolds == CouncilParameters => (CouncilSpec => RecordsMoveForward)
  <1> SUFFICES ASSUME CouncilParameters PROVE CouncilSpec => RecordsMoveForward
    OBVIOUS
  <1>1. CouncilInv /\ [CouncilNext]_councilVars
        => Tracker!IncarnationKept /\ Tracker!HeartbeatKept
    <2> SUFFICES ASSUME CouncilInv, [CouncilNext]_councilVars
                 PROVE  Tracker!IncarnationKept /\ Tracker!HeartbeatKept
      OBVIOUS
    <2>1. \A id \in Tracker!Known : MovesOn(tentacles[id], tentacles'[id])
      BY PlaneMovesTracker, RecordsMoveOn DEF CouncilInv
    <2> QED
      BY <2>1 DEF MovesOn, Tracker!IncarnationKept, Tracker!HeartbeatKept
  <1> QED
    BY <1>1, CouncilSound, PTL DEF CouncilSpec, RecordsMoveForward

\* A stopped incarnation is never revived, so nothing is routed to it again.
THEOREM StoppedForGoodHolds == CouncilParameters => (CouncilSpec => StoppedForGood)
  <1> SUFFICES ASSUME CouncilParameters PROVE CouncilSpec => StoppedForGood
    OBVIOUS
  <1>1. CouncilInv /\ [CouncilNext]_councilVars => Tracker!StoppedKept
    <2> SUFFICES ASSUME CouncilInv, [CouncilNext]_councilVars
                 PROVE  Tracker!StoppedKept
      OBVIOUS
    <2>1. \A id \in Tracker!Known : MovesOn(tentacles[id], tentacles'[id])
      BY PlaneMovesTracker, RecordsMoveOn DEF CouncilInv
    <2> QED
      BY <2>1 DEF MovesOn, Tracker!StoppedKept
  <1> QED
    BY <1>1, CouncilSound, PTL DEF CouncilSpec, StoppedForGood
=============================================================================
