---- MODULE Memory ----
(* The living memory (mind.rs, conversation_history.rs, and the session and   *)
(* recall part of operator.rs): the transcript log, the notes a background    *)
(* reflection derives from it, the operator's session, and the confirmed      *)
(* "forget me" that must reach all of them.                                   *)
(*                                                                            *)
(* Every private store has its own lock: one action is what runs under one    *)
(* hold of it, and a model call lies between two actions. A note and a        *)
(* session carry, as ghosts, the inboxes and scopes whose words the model was *)
(* shown when it wrote them. The reply of an entry is left out: recording it  *)
(* changes an entry that is still there and never adds one.                   *)
EXTENDS Integers, Sequences, FiniteSets

CONSTANTS
    Acolyte, Operator, Group,
    MAX_ENTRIES,            \* entries the transcript log keeps
    MaxMessages, MaxForgets, MaxReflections,
    None

Scope == {<<"acolyte", a>> : a \in Acolyte} \cup {<<"group", g>> : g \in Group}
            \cup {<<"operator", o>> : o \in Operator}
Revision == 0 .. MaxForgets

VARIABLES
    log,            \* the transcript: who wrote, in which scope, oldest first
    notes,          \* for each scope the note derived from it, or None
    epoch,          \* the forgetting revision in memory
    memory_revision,\* the one rhythm.json holds
    reflection,     \* the reflection in progress, or None
    turn,           \* the operator turn in progress, or None
    sessions,       \* for each revision what the operator's session was told
    forgotten,      \* who was told "forgotten" and has not written since
    messages, reflections

vars == <<log, notes, epoch, memory_revision, reflection, turn, sessions, forgotten,
          messages, reflections>>

Init ==
    /\ log = <<>> /\ notes = [s \in Scope |-> None]
    /\ epoch = 0 /\ memory_revision = 0
    /\ reflection = None /\ turn = None
    /\ sessions = [r \in Revision |-> {}]
    /\ forgotten = {} /\ messages = 0 /\ reflections = 0

Entries == {log[i] : i \in DOMAIN log}
In(s) == {e \in Entries : e.scope = s}
Noted == {s \in Scope : notes[s] # None}
AllEvidence == Entries \cup UNION {notes[s].sources : s \in Noted}
Everyone == {e.inbox : e \in Entries} \cup UNION {notes[s].participants : s \in Noted}

(* ---- the transcript ---- *)

(* write: the oldest entries make room *)
Kept(entries) ==
    IF Len(entries) > MAX_ENTRIES
        THEN SubSeq(entries, Len(entries) - MAX_ENTRIES + 1, Len(entries)) ELSE entries

Record(inbox, s) ==
    /\ messages < MaxMessages /\ messages' = messages + 1
    /\ log' = Kept(Append(log, [inbox |-> inbox, scope |-> s]))
    /\ forgotten' = forgotten \ {inbox}

(* a direct message, or one of a group the Tentacle listens to *)
Listen ==
    /\ \E a \in Acolyte : \E s \in {<<"acolyte", a>>} \cup {<<"group", g>> : g \in Group} :
            Record(a, s)
    /\ UNCHANGED <<notes, epoch, memory_revision, reflection, turn, sessions, reflections>>

(* read and write drop what is older than the retention period *)
Expire ==
    /\ log # <<>> /\ log' = Tail(log)
    /\ UNCHANGED <<notes, epoch, memory_revision, reflection, turn, sessions, forgotten,
                   messages, reflections>>

(* ---- reflection: a snapshot under the lock, a model call, a commit under it ---- *)

CrossesGroups(s) == s[1] # "acolyte"
Crosses(s) == s[1] = "operator"

BeginReflection(s) ==
    /\ reflection = None /\ In(s) # {} /\ reflections < MaxReflections
    /\ reflection' = [scope |-> s, epoch |-> epoch, crossing |-> Crosses(s),
                      sources |-> In(s) \cup IF s \in Noted THEN notes[s].sources ELSE {},
                      participants |-> {e.inbox : e \in In(s)}]
    /\ reflections' = reflections + 1
    /\ UNCHANGED <<log, notes, epoch, memory_revision, turn, sessions, forgotten, messages>>

(* an operator's reflection also recalls everything, with everyone it names *)
CrossRecall ==
    /\ reflection # None /\ reflection.crossing
    /\ reflection' = [reflection EXCEPT !.crossing = FALSE,
            !.sources = @ \cup AllEvidence, !.participants = @ \cup Everyone]
    /\ UNCHANGED <<log, notes, epoch, memory_revision, turn, sessions, forgotten,
                   messages, reflections>>

NeverStale(work) == FALSE
Stale(work) == work.epoch # epoch

(* a forgetting since the snapshot, or a failed inference, leaves the notes alone *)
CommitReflection ==
    /\ reflection # None /\ ~reflection.crossing
    /\ reflection' = None
    /\ \/ /\ ~Stale(reflection)
          /\ notes' = [notes EXCEPT ![reflection.scope] =
                [sources |-> reflection.sources, participants |-> reflection.participants]]
       \/ UNCHANGED notes
    /\ UNCHANGED <<log, epoch, memory_revision, turn, sessions, forgotten, messages, reflections>>

(* ---- the operator's turn ---- *)

Ask(o) ==
    /\ turn = None /\ Record(o, <<"operator", o>>)
    /\ turn' = [stage |-> "asked", epoch |-> 0, told |-> {}]
    /\ UNCHANGED <<notes, epoch, memory_revision, reflection, sessions, reflections>>

(* context: recall, under the mind's lock *)
Recall ==
    /\ turn # None /\ turn.stage = "asked"
    /\ turn' = [turn EXCEPT !.stage = "recalled", !.told = AllEvidence]
    /\ UNCHANGED <<log, notes, epoch, memory_revision, reflection, sessions, forgotten,
                   messages, reflections>>

(* the session is added and the memory scope pinned *)
Pin ==
    /\ turn # None /\ turn.stage = "recalled"
    /\ turn' = [stage |-> "thinking", epoch |-> epoch, told |-> turn.told \cup sessions[epoch]]
    /\ UNCHANGED <<log, notes, epoch, memory_revision, reflection, sessions, forgotten,
                   messages, reflections>>

(* checkpoint, unless the memory changed under the model call *)
Answer ==
    /\ turn # None /\ turn.stage = "thinking"
    /\ turn' = None
    /\ sessions' = IF Stale(turn) THEN sessions ELSE [sessions EXCEPT ![epoch] = turn.told]
    /\ UNCHANGED <<log, notes, epoch, memory_revision, reflection, forgotten, messages, reflections>>

(* the turn fails or meets its deadline *)
Drop ==
    /\ turn # None /\ turn' = None
    /\ UNCHANGED <<log, notes, epoch, memory_revision, reflection, sessions, forgotten,
                   messages, reflections>>

(* ---- forgetting and restarting ---- *)

Spared(a) == [s \in Scope |-> IF notes[s] # None /\ a \in notes[s].participants
                                THEN None ELSE notes[s]]
Others(a) == SelectSeq(log, LAMBDA e : e.inbox # a /\ e.scope[1] # "operator")

(* the revision, the transcript, the sessions and the notes, in this order *)
Forget(a) ==
    /\ epoch < MaxForgets
    /\ epoch' = epoch + 1 /\ memory_revision' = epoch + 1
    /\ log' = Others(a) /\ notes' = Spared(a)
    /\ sessions' = [r \in Revision |-> {}]
    /\ forgotten' = forgotten \cup {a}
    /\ UNCHANGED <<reflection, turn, messages, reflections>>

(* a crash after some of the steps: nothing was confirmed to the acolyte *)
ForgetInterrupted(a) ==
    /\ epoch < MaxForgets
    /\ epoch' = epoch + 1 /\ memory_revision' = epoch + 1
    /\ \/ UNCHANGED <<log, sessions, notes>>
       \/ log' = Others(a) /\ UNCHANGED <<sessions, notes>>
       \/ log' = Others(a) /\ sessions' = [r \in Revision |-> {}] /\ UNCHANGED notes
    /\ reflection' = None /\ turn' = None
    /\ UNCHANGED <<forgotten, messages, reflections>>

Restart ==
    /\ reflection # None \/ turn # None
    /\ epoch' = memory_revision /\ reflection' = None /\ turn' = None
    /\ UNCHANGED <<log, notes, memory_revision, sessions, forgotten, messages, reflections>>

Next ==
    \/ Listen \/ Expire \/ CrossRecall \/ CommitReflection
    \/ Recall \/ Pin \/ Answer \/ Drop \/ Restart
    \/ \E s \in Scope : BeginReflection(s)
    \/ \E o \in Operator : Ask(o)
    \/ \E a \in Acolyte : Forget(a) \/ ForgetInterrupted(a)

Spec == Init /\ [][Next]_vars

(* Once "forget me" was confirmed, and until its author writes again, no      *)
(* transcript entry of the author and no note that names the author exists:   *)
(* a reflection or recall begun before cannot bring one back, nor can a       *)
(* restart. What a note without the author's name still draws on is           *)
(* DerivedForgotten.                                                          *)
Forgetting ==
    \A a \in forgotten :
        /\ \A e \in Entries : e.inbox # a
        /\ \A s \in Noted : a \notin notes[s].participants /\ s # <<"acolyte", a>>

(* What is told in one conversation reaches the note of no other one: only    *)
(* the operator's own notes cross conversations.                              *)
Scoped ==
    \A s \in Noted : s[1] # "operator" => \A e \in notes[s].sources : e.scope = s

(* docs/agent-workspace.md: a confirmed forgetting removes all derived notes  *)
(* that referenced the person, including affected group summaries.            *)
DerivedForgotten ==
    \A a \in forgotten, s \in Noted : \A e \in notes[s].sources : e.inbox # a

(* docs/agent-workspace.md: in-flight recall cannot reintroduce deleted data into *)
(* an operator's session. Refuted: an operator's turn pins the revision of the   *)
(* memory only after it recalled from it, so a forgetting in between is not seen *)
(* when the answer is added to the session (operator.rs, respond_tracked).       *)
SessionsForgotten ==
    \A a \in forgotten, r \in Revision : \A e \in sessions[r] : e.inbox # a
=============================================================================
