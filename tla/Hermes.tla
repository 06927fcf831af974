---- MODULE Hermes ----
(* Hermes gossip (hermes.rs): every node keeps the best revision of each      *)
(* piece of knowledge, a queue of what each peer still needs, and its view of *)
(* what each peer holds. Envelopes, acknowledgements and summaries travel     *)
(* over a transport that loses, repeats and reorders them; a node may crash   *)
(* back to its last save.                                                     *)
(*                                                                            *)
(* A revision is a record of its knowledge id, the authority of its author's  *)
(* key, its time and its digest; digests are distinct numbers. Signatures,    *)
(* key pinning and text validation hold for everything the nodes exchange.    *)
EXTENDS Integers, Sequences, FiniteSets

CONSTANTS
    Node,
    Links,                  \* the sets of two nodes that may become peers
    Revision,               \* the revisions that may be published
    MAX_KNOWLEDGE_ITEMS, MAX_PENDING_OUTBOUND, MAX_PATH_HOPS, MAX_OUTBOUND_BATCH,
    MaxWire,                \* messages in flight
    MaxFaults,              \* repeated deliveries and crashes
    Banned                  \* the nodes that may fall under the memory-sharing ban

\* What the constants of the code guarantee; the module that instantiates this one
\* assumes it.
HermesParameters ==
    /\ Node = 1 .. Cardinality(Node)
    /\ {r.id : r \in Revision} = 1 .. Cardinality({r.id : r \in Revision})
    /\ \A r \in Revision : r.rank \in Nat /\ r.at \in Nat /\ r.digest \in Nat \ {0}
    /\ \A r, s \in Revision : r.digest = s.digest => r = s

VARIABLES
    node,       \* each node's peers, views of them, knowledge, queue and ban
    saved,      \* what its state file holds
    wire,       \* envelopes, acknowledgements and summaries in flight
    faults

vars == <<node, saved, wire, faults>>

Id == {r.id : r \in Revision}
Nothing == [digest |-> 0]
Holds(s, id) == s.knowledge[id].digest # 0
Hops(path) == {path[i] : i \in DOMAIN path}
Known(s) == {id \in Id : Holds(s, id)}

(* ---- one node: operations on its state s ---- *)

(* compare_records: authority, then time, then digest *)
Better(r, s) ==
    \/ r.rank > s.rank
    \/ r.rank = s.rank /\ r.at > s.at
    \/ r.rank = s.rank /\ r.at = s.at /\ r.digest > s.digest

ShorterPath(p, q) ==
    \/ Len(p) < Len(q)
    \/ Len(p) = Len(q) /\ \E i \in 1 .. Len(p) : p[i] < q[i] /\ \A j \in 1 .. i - 1 : p[j] = q[j]

Pairs == [k \in 1 .. Cardinality(Node) * Cardinality(Id) |->
            <<((k - 1) \div Cardinality(Id)) + 1, ((k - 1) % Cardinality(Id)) + 1>>]

(* a peer that has the digest needs nothing, a queued entry is brought up to  *)
(* date, and what does not fit in the queue is dropped                        *)
ScheduleAll(s, ps, ids) ==
    LET Wanted(p, id) == p \in ps /\ id \in ids /\ s.known[p][id] # s.knowledge[id].digest
        Queued(p, id) == \E i \in DOMAIN s.pending : s.pending[i].peer = p /\ s.pending[i].id = id
        Entry(p, id) == [peer |-> p, id |-> id, digest |-> s.knowledge[id].digest]
        renewed == [i \in DOMAIN s.pending |->
                      LET e == s.pending[i] IN IF Wanted(e.peer, e.id) THEN Entry(e.peer, e.id) ELSE e]
        added == SelectSeq(Pairs, LAMBDA e : Wanted(e[1], e[2]) /\ ~Queued(e[1], e[2]))
        all == renewed \o [k \in DOMAIN added |-> Entry(added[k][1], added[k][2])]
    IN  IF s.banned THEN s
        ELSE [s EXCEPT !.pending = IF Len(all) <= MAX_PENDING_OUTBOUND THEN all ELSE SubSeq(all, 1, MAX_PENDING_OUTBOUND)]

Schedule(s, p, id) == ScheduleAll(s, {p}, {id})

(* seeded fault: entries for the replaced revision stay in the queue *)
RequeueKeepsStale(s, id, source) ==
    ScheduleAll(s, {p \in s.peers : p # source /\ p \notin Hops(s.knowledge[id].path)}, {id})

(* a new selection leaves the queue and is offered to every peer that did not *)
(* relay it                                                                   *)
Requeue(s, id, source) ==
    LET cleared == [s EXCEPT !.pending = SelectSeq(@, LAMBDA e : e.id # id)]
    IN  ScheduleAll(cleared, {p \in s.peers : p # source /\ p \notin Hops(s.knowledge[id].path)}, {id})

MergeRecord(s, r, path, source) ==
    LET id == r.id
        stored == [digest |-> r.digest, item |-> r, path |-> path]
        Selected(t) == IF t.banned THEN t ELSE Requeue(t, id, source)
    IN  CASE ~Holds(s, id) /\ Cardinality(Known(s)) >= MAX_KNOWLEDGE_ITEMS -> s
          [] ~Holds(s, id) /\ Cardinality(Known(s)) < MAX_KNOWLEDGE_ITEMS ->
                Selected([s EXCEPT !.knowledge[id] = stored])
          [] Holds(s, id) /\ Better(r, s.knowledge[id].item) ->
                Selected([s EXCEPT !.knowledge[id] = stored])
          [] OTHER ->
                IF s.knowledge[id].digest = r.digest /\ ShorterPath(path, s.knowledge[id].path)
                THEN [s EXCEPT !.knowledge[id].path = path] ELSE s

ConnectPeer(s, p) == ScheduleAll([s EXCEPT !.peers = @ \cup {p}], {p}, Known(s))

(* the path is restarted when the recipient is on it *)
RelayPath(s, self, p, id) ==
    LET path == IF p \in Hops(s.knowledge[id].path) THEN <<self>> ELSE s.knowledge[id].path
    IN  IF path[Len(path)] = self THEN path ELSE Append(path, self)

(* seeded fault: only what is queued is ever offered *)
BatchIdsQueued(s, p) ==
    LET queued == SelectSeq(s.pending, LAMBDA e : e.peer = p /\ e.digest = s.knowledge[e.id].digest)
    IN  [i \in DOMAIN queued |-> queued[i].id]

(* the queue first, then a scan of everything the peer is not known to have *)
BatchIds(s, p) ==
    LET queued == BatchIdsQueued(s, p)
        rest == {id \in Known(s) : s.known[p][id] # s.knowledge[id].digest} \ Hops(queued)
    IN  queued \o SelectSeq([id \in 1 .. Cardinality(Id) |-> id], LAMBDA id : id \in rest)

(* one record whose path is full fails the whole batch *)
OutboundBatch(s, self, p) ==
    LET ids == BatchIds(s, p)
        batch == {ids[i] : i \in 1 .. (IF Len(ids) < MAX_OUTBOUND_BATCH THEN Len(ids) ELSE MAX_OUTBOUND_BATCH)}
    IN  IF s.banned \/ p \notin s.peers \/ \E id \in batch : Len(RelayPath(s, self, p, id)) > MAX_PATH_HOPS
        THEN {}
        ELSE {[kind |-> "envelope", from |-> self, to |-> p, item |-> s.knowledge[id].item,
               path |-> RelayPath(s, self, p, id)] : id \in batch}

(* the peer's digest is noted before the merge; a revision that lost sends the *)
(* selected one back                                                          *)
Receive(s, self, m) ==
    IF m.from \notin s.peers \/ self \in Hops(m.path) THEN s
    ELSE LET noted == [s EXCEPT !.known[m.from][m.item.id] = m.item.digest]
             merged == MergeRecord(noted, m.item, m.path, m.from)
             differ == {id \in Known(merged) : merged.known[m.from][id] \notin {0, merged.knowledge[id].digest}}
         IN  IF ~Holds(merged, m.item.id) \/ differ = {} THEN merged
             ELSE Schedule(merged, m.from, CHOOSE id \in differ : \A o \in differ : id <= o)

Acknowledge(s, m) ==
    IF m.from \notin s.peers \/ s.knowledge[m.id].digest # m.digest THEN s
    ELSE [s EXCEPT !.known[m.from][m.id] = m.digest,
                   !.pending = SelectSeq(@, LAMBDA e : ~(e.peer = m.from /\ e.id = m.id /\ e.digest = m.digest))]

Ack(m) == [kind |-> "ack", from |-> m.to, to |-> m.from, id |-> m.item.id, digest |-> m.item.digest]

(* what receive answers without an error *)
Accepted(s, self, m) ==
    /\ m.from \in s.peers /\ self \notin Hops(m.path)
    /\ Holds(s, m.item.id) \/ Cardinality(Known(s)) < MAX_KNOWLEDGE_ITEMS

Summary(s, self, p) == [kind |-> "summary", from |-> self, to |-> p, digests |-> [id \in Id |-> s.knowledge[id].digest]]

ApplySummary(s, m) ==
    IF m.from \notin s.peers THEN s
    ELSE ScheduleAll([s EXCEPT !.known[m.from] = m.digests], {m.from}, Known(s))

SetSacredBan(s, ban) ==
    IF ban THEN [s EXCEPT !.banned = TRUE, !.pending = <<>>]
    ELSE LET t == [s EXCEPT !.banned = FALSE] IN ScheduleAll(t, t.peers, Known(t))

(* validate_state, which every save and every load apply *)
ValidateState(s) ==
    /\ Cardinality(Known(s)) <= MAX_KNOWLEDGE_ITEMS
    /\ Len(s.pending) <= MAX_PENDING_OUTBOUND
    /\ \A p \in s.peers : Cardinality({id \in Id : s.known[p][id] # 0}) <= MAX_KNOWLEDGE_ITEMS
    /\ \A id \in Known(s) : LET path == s.knowledge[id].path IN
         path # <<>> /\ Len(path) <= MAX_PATH_HOPS /\ \A i, j \in DOMAIN path : path[i] = path[j] => i = j
    /\ \A i \in DOMAIN s.pending : LET e == s.pending[i] IN
         /\ e.peer \in s.peers /\ Holds(s, e.id) /\ e.digest = s.knowledge[e.id].digest
         /\ \A j \in DOMAIN s.pending : s.pending[j].peer = e.peer /\ s.pending[j].id = e.id => i = j

(* ---- the network ---- *)

Become(n, s) == node' = [node EXCEPT ![n] = s]
Send(m) == wire' = wire \cup {m} /\ Cardinality(wire') <= MaxWire

HermesInit ==
    /\ node = [n \in Node |-> [peers |-> {}, known |-> [p \in Node |-> [id \in Id |-> 0]],
                              knowledge |-> [id \in Id |-> Nothing], pending |-> <<>>, banned |-> FALSE]]
    /\ saved = node /\ wire = {} /\ faults = 0

Connect(n, p) ==
    /\ {n, p} \in Links /\ n # p /\ p \notin node[n].peers
    /\ Become(n, ConnectPeer(node[n], p)) /\ UNCHANGED <<saved, wire, faults>>

Publish(n, r) ==
    /\ r.author = n /\ node[n].knowledge[r.id].digest # r.digest
    /\ Become(n, MergeRecord(node[n], r, <<n>>, 0)) /\ UNCHANGED <<saved, wire, faults>>

Offer(n, p) ==
    /\ \E m \in OutboundBatch(node[n], n, p) : m \notin wire /\ Send(m)
    /\ UNCHANGED <<node, saved, faults>>

Summarize(n, p) ==
    /\ p \in node[n].peers /\ ~node[n].banned
    /\ Summary(node[n], n, p) \notin wire /\ Send(Summary(node[n], n, p))
    /\ UNCHANGED <<node, saved, faults>>

(* an envelope that is received is acknowledged, also when it changed nothing *)
DeliverEnvelope(m) ==
    /\ Become(m.to, Receive(node[m.to], m.to, m))
    /\ wire' = (wire \ {m}) \cup {Ack(e) : e \in {e \in {m} : Accepted(node[m.to], m.to, e)}}

Deliver(m) ==
    /\ CASE m.kind = "envelope" -> DeliverEnvelope(m)
         [] m.kind = "ack"      -> Become(m.to, Acknowledge(node[m.to], m)) /\ wire' = wire \ {m}
         [] m.kind = "summary"  -> Become(m.to, ApplySummary(node[m.to], m)) /\ wire' = wire \ {m}
    /\ UNCHANGED <<saved, faults>>

(* a copy stays on the wire, or the message is lost *)
Duplicate(m) ==
    /\ faults < MaxFaults /\ faults' = faults + 1
    /\ Become(m.to, CASE m.kind = "envelope" -> Receive(node[m.to], m.to, m)
                      [] m.kind = "ack"      -> Acknowledge(node[m.to], m)
                      [] m.kind = "summary"  -> ApplySummary(node[m.to], m))
    /\ UNCHANGED <<saved, wire>>

Lose(m) == wire' = wire \ {m} /\ UNCHANGED <<node, saved, faults>>

Ban(n) ==
    /\ n \in Banned
    /\ Become(n, SetSacredBan(node[n], ~node[n].banned)) /\ UNCHANGED <<saved, wire, faults>>

(* save refuses a state that would not load; it matters only before a crash *)
Save(n) ==
    /\ faults < MaxFaults /\ ValidateState(node[n]) /\ saved[n] # node[n]
    /\ saved' = [saved EXCEPT ![n] = node[n]] /\ UNCHANGED <<node, wire, faults>>

(* the ban is part of the Nature; from_state clears the queue of a banned node *)
Crash(n) ==
    /\ faults < MaxFaults
    /\ LET banned == node[n].banned
       IN  Become(n, [saved[n] EXCEPT !.banned = banned, !.pending = IF banned THEN <<>> ELSE @])
    /\ faults' = faults + 1 /\ UNCHANGED <<saved, wire>>

(* one opportunity without loss: an envelope is received and acknowledged *)
Exchange(n, p) ==
    /\ {n, p} \in Links
    /\ \E m \in OutboundBatch(node[n], n, p) :
         node' = [node EXCEPT ![p] = Receive(@, p, m),
                              ![n] = IF Accepted(node[p], p, m) THEN Acknowledge(@, Ack(m)) ELSE @]
    /\ UNCHANGED <<saved, wire, faults>>

HermesNext ==
    \/ \E n, p \in Node : Connect(n, p) \/ Offer(n, p) \/ Summarize(n, p) \/ Exchange(n, p)
    \/ \E n \in Node, r \in Revision : Publish(n, r)
    \/ \E m \in wire : Deliver(m) \/ Duplicate(m) \/ Lose(m)
    \/ \E n \in Node : Ban(n) \/ Save(n) \/ Crash(n)

HermesSpec == HermesInit /\ [][HermesNext]_vars

(* linked nodes connect and keep meeting, whatever else the transport loses *)
Fairness ==
    \A n, p \in Node :
        {n, p} \in Links =>
            WF_vars(Connect(n, p)) /\ SF_vars(Exchange(n, p))

FairHermes == HermesSpec /\ Fairness

(* ---- properties ---- *)

(* Whatever is published, lost, repeated, reordered or rolled back, the state *)
(* of every node passes validate_state, so that it can be saved and loaded:   *)
(* in particular no queue entry outlives the revision it was made for.        *)
Savable == \A n \in Node : ValidateState(node[n])

(* Anti-entropy converges although the queue drops what does not fit: in the  *)
(* end every peer of a node that may send holds a revision at least as good,  *)
(* receive-only peers included (outbound_batch: "queue pressure cannot        *)
(* permanently strand knowledge").                                            *)
Converges ==
    <>[](\A n, p \in Node : {n, p} \in Links /\ n # p /\ n \notin Banned => \A id \in Known(node[n]) :
            Holds(node[p], id) /\ ~Better(node[n].knowledge[id].item, node[p].knowledge[id].item))

====
