------------------------------ MODULE Transport ------------------------------
(***************************************************************************)
(* The in-memory Council transport (transport.rs) and the replay guard it  *)
(* consults (cthuwu-protocol/envelope.rs).                                 *)
(*                                                                         *)
(* `publish' takes &self and is called from several threads.  It reads the *)
(* clock and validates the envelope first, and only then takes the lock:   *)
(* the two halves are separate steps here, with the time read in the first *)
(* one carried into the second.                                            *)
(***************************************************************************)
EXTENDS Integers, Sequences, SequencesExt, FiniteSets

CONSTANTS
    Publisher,          \* threads calling publish
    Subscriber,         \* consumers polling subscribe
    CouncilId,
    Follows,            \* Subscriber -> the council it subscribes to
    Sender,             \* authenticated (Cthulhu, Tentacle) pairs
    Envelope,           \* records [id, council, sender, sequence, sent_at, expires_at]
    max_retained, max_senders,
    SENDER_RATE_WINDOW_SECONDS, MAX_MESSAGES_PER_SENDER_PER_WINDOW,
    MAX_FUTURE_CLOCK_SKEW_SECONDS, MAX_ENVELOPE_LIFETIME_SECONDS,
    MAX_SUBSCRIPTION_BATCH,
    MaxTime,            \* bound of the injected clock
    NotPublishing, NoRate

\* The limits are positive (new_local, ReplayGuard::new, the constants of both
\* files), and every field of an envelope has its type.
ASSUME TransportAssumption ==
    /\ Follows \in [Subscriber -> CouncilId]
    /\ max_retained \in Nat \ {0}
    /\ max_senders \in Nat \ {0}
    /\ SENDER_RATE_WINDOW_SECONDS \in Nat \ {0}
    /\ MAX_MESSAGES_PER_SENDER_PER_WINDOW \in Nat \ {0}
    /\ MAX_FUTURE_CLOCK_SKEW_SECONDS \in Nat
    /\ MAX_ENVELOPE_LIFETIME_SECONDS \in Nat
    /\ MAX_SUBSCRIPTION_BATCH \in Nat \ {0}
    /\ MaxTime \in Nat
    /\ NoRate \notin [started_at: Nat, messages: Nat]
    /\ \A e \in Envelope : /\ e.council \in CouncilId
                           /\ e.sender \in Sender
                           /\ e.sequence \in Nat
                           /\ e.sent_at \in Nat
                           /\ e.expires_at \in Nat

VARIABLES
    now,
    publishing,         \* Publisher -> NotPublishing, or the envelope and the time read
    seen_message_ids,   \* ReplayGuard
    highest_sequence,   \* ReplayGuard: CouncilId \X Sender -> sequence, 0: no entry
    retained,           \* sequence of [envelope, at]; the order is the position
    sender_rates,       \* Sender -> NoRate or [started_at, messages]
    cursor,             \* Subscriber -> order of the last message it was given
    received            \* Subscriber -> what subscribe has returned so far

transportVars == <<now, publishing, seen_message_ids, highest_sequence, retained,
                   sender_rates, cursor, received>>

guardVars == <<seen_message_ids, highest_sequence>>

-----------------------------------------------------------------------------
\* CouncilEnvelope::validate_at, without the payload.
ValidAt(e, t) ==
    /\ e.sequence # 0
    /\ e.sent_at < e.expires_at
    /\ e.expires_at - e.sent_at <= MAX_ENVELOPE_LIFETIME_SECONDS
    /\ t < e.expires_at
    /\ e.sent_at <= t + MAX_FUTURE_CLOCK_SKEW_SECONDS

\* Seeded fault: only the sequence protects against replays.
GuardIgnoresIds(e, t) ==
    /\ ValidAt(e, t)
    /\ e.sequence > highest_sequence[<<e.council, e.sender>>]
    /\ Cardinality(seen_message_ids) # max_retained

\* The checks of ReplayGuard::check_and_record.
GuardAllows(e, t) ==
    /\ ValidAt(e, t)
    /\ e.id \notin seen_message_ids
    /\ e.sequence > highest_sequence[<<e.council, e.sender>>]
    /\ Cardinality(seen_message_ids) # max_retained
    /\ \/ highest_sequence[<<e.council, e.sender>>] # 0
       \/ Cardinality({k \in CouncilId \X Sender : highest_sequence[k] # 0}) # max_senders

\* publish refuses with ClockMovedBackwards.
ClockAlarm(s, t) == sender_rates[s] # NoRate /\ t < sender_rates[s].started_at

WindowOver(s, t) == t - sender_rates[s].started_at >= SENDER_RATE_WINDOW_SECONDS

\* Seeded fault: the limit is off by one.
RateAllowsOneMore(s, t) ==
    sender_rates[s] # NoRate =>
        /\ ~ClockAlarm(s, t)
        /\ \/ WindowOver(s, t)
           \/ sender_rates[s].messages <= MAX_MESSAGES_PER_SENDER_PER_WINDOW

\* The rate check under the lock.
RateAllows(s, t) ==
    sender_rates[s] # NoRate =>
        /\ ~ClockAlarm(s, t)
        /\ \/ WindowOver(s, t)
           \/ sender_rates[s].messages < MAX_MESSAGES_PER_SENDER_PER_WINDOW

\* The sender's window after one more message.
NextRate(s, t) ==
    IF sender_rates[s] = NoRate \/ WindowOver(s, t)
    THEN [started_at |-> t, messages |-> 1]
    ELSE [sender_rates[s] EXCEPT !.messages = @ + 1]

-----------------------------------------------------------------------------
TransportInit ==
    /\ now = 0
    /\ publishing = [p \in Publisher |-> NotPublishing]
    /\ seen_message_ids = {}
    /\ highest_sequence = [k \in CouncilId \X Sender |-> 0]
    /\ retained = <<>>
    /\ sender_rates = [s \in Sender |-> NoRate]
    /\ cursor = [c \in Subscriber |-> 0]
    /\ received = [c \in Subscriber |-> <<>>]

\* publish, before the lock: the claimed sender is the authenticated one (the
\* only kind of envelope enumerated), and the envelope is valid now.
BeginPublish(p, e) ==
    /\ publishing[p] = NotPublishing
    /\ ValidAt(e, now)
    /\ publishing' = [publishing EXCEPT ![p] = [envelope |-> e, at |-> now]]
    /\ UNCHANGED <<now, guardVars, retained, sender_rates, cursor, received>>

Allowed(call) ==
    /\ Len(retained) < max_retained
    /\ RateAllows(call.envelope.sender, call.at)
    /\ GuardAllows(call.envelope, call.at)

\* publish, under the lock: record the message with the next order.
Publish(p) ==
    LET call == publishing[p]
        e == call.envelope
    IN  /\ call # NotPublishing
        /\ Allowed(call)
        /\ seen_message_ids' = seen_message_ids \cup {e.id}
        /\ highest_sequence' = [highest_sequence EXCEPT ![<<e.council, e.sender>>] = e.sequence]
        /\ sender_rates' = [sender_rates EXCEPT ![e.sender] = NextRate(e.sender, call.at)]
        /\ retained' = Append(retained, [envelope |-> e, at |-> call.at])
        /\ publishing' = [publishing EXCEPT ![p] = NotPublishing]
        /\ UNCHANGED <<now, cursor, received>>

\* publish, under the lock: one of the errors; nothing is recorded.
Refuse(p) ==
    /\ publishing[p] # NotPublishing
    /\ ~Allowed(publishing[p])
    /\ publishing' = [publishing EXCEPT ![p] = NotPublishing]
    /\ UNCHANGED <<now, guardVars, retained, sender_rates, cursor, received>>

\* Seeded fault: the cursor's own message is returned again.
AfterCursorInclusive(council, after) ==
    {k \in DOMAIN retained : k >= after /\ retained[k].envelope.council = council}

\* The orders subscribe filters: after the cursor, of one council.
AfterCursor(council, after) ==
    {k \in DOMAIN retained : k > after /\ retained[k].envelope.council = council}

\* take(limit): the batch holds the first orders of the matching ones, in order.
FirstInOrder(batch, matching, limit) ==
    /\ Len(batch) <= limit
    /\ \A i, j \in DOMAIN batch : i < j => batch[i] < batch[j]
    /\ \A k \in matching :
          \/ \E i \in DOMAIN batch : batch[i] = k
          \/ Len(batch) = limit /\ \A i \in DOMAIN batch : batch[i] < k

\* subscribe with the cursor of the last message of the previous batch.
Subscribe(c, council, limit) ==
    LET matching == AfterCursor(council, cursor[c])
    IN  /\ limit \in 1..MAX_SUBSCRIPTION_BATCH
        /\ \E n \in 1..limit : \E batch \in [1..n -> matching] :
             /\ FirstInOrder(batch, matching, limit)
             /\ received' = [received EXCEPT ![c] = @ \o batch]
             /\ cursor' = [cursor EXCEPT ![c] = Last(batch)]
        /\ UNCHANGED <<now, publishing, guardVars, retained, sender_rates>>

SetClock(t) ==
    /\ t # now
    /\ now' = t
    /\ UNCHANGED <<publishing, guardVars, retained, sender_rates, cursor, received>>

TransportNext ==
    \/ \E p \in Publisher, e \in Envelope : BeginPublish(p, e)
    \/ \E p \in Publisher : Publish(p)
    \/ \E p \in Publisher : Refuse(p)
    \/ \E c \in Subscriber, limit \in 0..MAX_SUBSCRIPTION_BATCH :
          Subscribe(c, Follows[c], limit)
    \/ \E t \in 0..MaxTime : SetClock(t)

TransportSpec == TransportInit /\ [][TransportNext]_transportVars

-----------------------------------------------------------------------------
(* Properties *)

Retained(k) == retained[k].envelope

\* Replay suppression.  No message id is retained twice, and one sender's
\* messages in one council are retained with strictly increasing sequences, in
\* whatever order threads and duplicated envelopes reach the lock.
NoReplay ==
    \A j, k \in DOMAIN retained : j < k =>
        /\ Retained(j).id # Retained(k).id
        /\ /\ Retained(j).sender = Retained(k).sender
           /\ Retained(j).council = Retained(k).council
           => Retained(j).sequence < Retained(k).sequence

\* The publish rate.  Windows are not aligned, so that a burst may straddle two
\* of them, but no sender gets more than two windows' worth of messages into
\* any one window's length of time.
RateBounded ==
    \A s \in Sender, t \in 0..MaxTime :
        Cardinality({k \in DOMAIN retained :
            /\ Retained(k).sender = s
            /\ retained[k].at \in t..(t + SENDER_RATE_WINDOW_SECONDS - 1)})
        <= 2 * MAX_MESSAGES_PER_SENDER_PER_WINDOW

\* Polling with the last cursor loses nothing, repeats nothing and keeps the
\* order: a subscriber has received exactly its council's messages up to its
\* cursor, whatever batch limits it used and whatever was published meanwhile.
ExactlyOnceInOrder ==
    \A c \in Subscriber :
        /\ \A i, j \in DOMAIN received[c] : i < j => received[c][i] < received[c][j]
        /\ Range(received[c]) =
             {k \in 1..cursor[c] : Retained(k).council = Follows[c]}

\* Every message goes through once.  No id is retained twice and a sender's
\* sequences only rise, whatever threads and duplicates reach the lock; no window
\* of time holds more than two windows' worth of one sender; and a subscriber
\* polling with its last cursor has received exactly its council's messages.
DeliveredOnce == NoReplay /\ RateBounded /\ ExactlyOnceInOrder
=============================================================================
