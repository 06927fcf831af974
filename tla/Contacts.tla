---- MODULE Contacts ----
(* The public turn and the contact note it keeps (contact.rs, matching.rs,    *)
(* and the public path of bot.rs): optional onboarding, one question at a     *)
(* time, consent to private match suggestions, the local privacy controls,    *)
(* and forgetting. The public lane works on one message; a turn awaits the    *)
(* model with its own copy of the note and saves it at the end. What a person *)
(* wrote is a kind of text: what the text matchers of bot.rs make of it.      *)
EXTENDS Integers, FiniteSets, TLAPS

CONSTANTS
    Inbox,
    Stored,     \* notes an earlier run may have left
    MaxMessages, MaxFaults,     \* failed saves, passed deadlines and crashes
    None

VARIABLES
    notes,      \* for each inbox its note on disk, or None
    turn,       \* the public turn waiting for the model: its note, or None
    recorded,   \* the inboxes whose onboarding the growth store has recorded
    word,       \* ghost: what each inbox last said of sharing: yes when said,
                \* no when acknowledged
    messages, faults

vars == <<notes, turn, recorded, word, messages, faults>>

Field == <<"name", "hopes", "resources", "needs">>
Fields == {Field[n] : n \in 1 .. 4}
Complete == 6
Consent == 5        \* stages 1 to 4 ask for a field

Stage == 1 .. Complete

Note ==
    [stage: Stage, known: SUBSET Fields, sharing: BOOLEAN, paused: BOOLEAN,
     awaiting: BOOLEAN, since: Nat]

ContactsParameters == Stored \subseteq Note /\ None \notin Note

NewNote ==
    [stage |-> 1, known |-> {}, sharing |-> FALSE, paused |-> FALSE,
     awaiting |-> FALSE, since |-> 0]

Init ==
    /\ notes \in [Inbox -> {None} \cup Stored]
    /\ turn = None /\ recorded = {}
    /\ word = [i \in Inbox |-> IF notes[i] \in Stored /\ notes[i].sharing THEN "yes" ELSE None]
    /\ messages = 0 /\ faults = 0

(* ---- Contact ---- *)

Settled(c, n) == [c EXCEPT !.stage = n, !.awaiting = FALSE, !.since = 0]

(* advance_over_known_fields: never ask for what is known *)
Advanced(c) ==
    LET ahead == {n \in c.stage .. Complete : n >= Consent \/ Field[n] \notin c.known}
    IN  Settled(c, CHOOSE n \in ahead : \A k \in ahead : n <= k)

Asked(c) == Field[c.stage]

(* record_answer and skip fill the field asked for; skipping refuses consent *)
Answered(c, share) ==
    CASE c.stage = Complete -> c
      [] c.stage = Consent -> Settled([c EXCEPT !.sharing = share], Complete)
      [] OTHER -> Advanced([c EXCEPT !.known = @ \cup {Asked(c)}, !.stage = @ + 1])

WithField(c, f) == Advanced([c EXCEPT !.known = @ \cup {f}])

WithConsent(c, share) ==
    Settled([c EXCEPT !.sharing = share], IF c.stage = Consent THEN Complete ELSE c.stage)

SkippedAll(c) ==
    IF c.stage = Complete THEN WithConsent(c, FALSE)
    ELSE Settled([c EXCEPT !.known = @ \cup {Field[n] : n \in c.stage .. 4},
                           !.sharing = FALSE], Complete)

Deferred(c) == Settled(c, c.stage)

(* maybe_append_onboarding_prompt: from the second turn on, unless the reply  *)
(* asks something itself                                                      *)
Prompted(c, created, asks) ==
    IF c.stage = Complete \/ c.awaiting THEN c
    ELSE IF created \/ c.since + 1 < 2 \/ asks
         THEN [c EXCEPT !.since = IF @ < 2 THEN @ + 1 ELSE @]
         ELSE [c EXCEPT !.awaiting = TRUE, !.since = 0]

Loaded(i) == IF notes[i] = None THEN NewNote ELSE notes[i]

(* ---- what a message is taken for ---- *)

Says(i, share) == word' = [word EXCEPT ![i] = share]
Fault == faults < MaxFaults /\ faults' = faults + 1
Message(i) == turn = None /\ messages < MaxMessages /\ messages' = messages + 1

Saved(i, c) == notes' = [notes EXCEPT ![i] = c]

(* finish_onboarding_if_needed *)
Finished(i, c) == recorded' = IF c.stage = Complete THEN recorded \cup {i} ELSE recorded

(* A control that is stored and acknowledged at once: the local controls come *)
(* before the turn is reserved, the other ones before the model is asked      *)
Control(i) ==
    /\ Message(i)
    /\ LET c == Loaded(i) IN
       \/ \E share \in BOOLEAN :
            /\ Saved(i, WithConsent(c, share))
            /\ Says(i, IF share THEN "yes" ELSE "no")
            /\ Finished(i, WithConsent(c, share)) \/ UNCHANGED recorded
       \/ /\ Saved(i, SkippedAll(c))
          /\ Says(i, "no")
          /\ Finished(i, SkippedAll(c))
       \/ \E paused \in BOOLEAN :
            /\ Saved(i, [c EXCEPT !.paused = paused])
            /\ UNCHANGED <<word, recorded>>
       \/ \E f \in Fields :
            /\ Saved(i, WithField(c, f))
            /\ UNCHANGED word
            /\ Finished(i, WithField(c, f))
       \/ /\ c.stage # Complete
          /\ Saved(i, Answered(c, FALSE))
          /\ Says(i, IF c.stage = Consent THEN "no" ELSE word[i])
          /\ Finished(i, Answered(c, FALSE))
    /\ UNCHANGED <<turn, faults>>

(* Goal, memory and history are erased first: an error leaves the note *)
Forget(i) ==
    /\ Message(i)
    /\ Saved(i, None)
    /\ Says(i, "no")
    /\ UNCHANGED <<turn, recorded, faults>>

(* An answer counts only while a question waits; a question of the person's   *)
(* own or another topic puts it off                                           *)
Heard(c, text) ==
    IF text \in Fields THEN WithField(c, text)
    ELSE IF c.stage = Complete \/ ~c.awaiting THEN c
    ELSE
    CASE text = "words" /\ c.stage = 1 -> Answered(c, FALSE)
      [] text \in {"yes", "no"} /\ c.stage \in {1, Consent} -> Answered(c, text = "yes")
      [] OTHER -> Deferred(c)

Begin(i, text) ==
    /\ Message(i)
    /\ turn' = [inbox |-> i, note |-> Heard(Loaded(i), text), created |-> notes[i] = None,
                refuses |-> text = "no" /\ Loaded(i).awaiting /\ Loaded(i).stage = Consent]
    /\ \/ Saved(i, Loaded(i))
       \/ text \in Fields /\ Saved(i, WithField(Loaded(i), text))
    /\ IF text = "yes" /\ Loaded(i).awaiting /\ Loaded(i).stage = Consent
       THEN Says(i, "yes") ELSE UNCHANGED word
    /\ UNCHANGED <<recorded, faults>>

(* A casual pass skips the question and replies at once *)
Pass(i) ==
    /\ Message(i)
    /\ Loaded(i).awaiting
    /\ Saved(i, Answered(Loaded(i), FALSE))
    /\ IF Loaded(i).stage = Consent THEN Says(i, "no") ELSE UNCHANGED word
    /\ Finished(i, Answered(Loaded(i), FALSE))
    /\ UNCHANGED <<turn, faults>>

Refusal == IF turn.refuses THEN Says(turn.inbox, "no") ELSE UNCHANGED word

(* The reply goes out after the note is saved: contact_save? *)
EndSaved(asks) ==
    LET c == Prompted(turn.note, turn.created, asks) IN
    /\ Saved(turn.inbox, c)
    /\ Finished(turn.inbox, c)
    /\ Refusal
    /\ UNCHANGED faults

EndUnsavedReplies == Fault /\ Refusal /\ UNCHANGED <<notes, recorded>>
EndUnsaved == Fault /\ UNCHANGED <<notes, recorded, word>>

End ==
    /\ turn # None
    /\ (\E asks \in BOOLEAN : EndSaved(asks)) \/ EndUnsaved
    /\ turn' = None
    /\ UNCHANGED messages

(* A deadline passes or the process dies while the model is asked *)
Drop ==
    /\ turn # None
    /\ Fault
    /\ turn' = None
    /\ UNCHANGED <<notes, recorded, word, messages>>

Text == Fields \cup {"words", "yes", "no", "other"}

Next ==
    \/ \E i \in Inbox :
        \/ Control(i) \/ Forget(i) \/ Pass(i)
        \/ \E text \in Text : Begin(i, text)
    \/ End \/ Drop

Spec == Init /\ [][Next]_vars

(* suggest_matches: both sides enabled and not paused *)
Suggestible(i, j) ==
    /\ i # j
    /\ \A k \in {i, j} : notes[k] # None /\ notes[k].sharing /\ ~notes[k].paused

(* Nobody is suggested to anybody without a standing yes: after a no, a pass   *)
(* on the consent question, "just chat", "stop sharing" or a forgetting that   *)
(* was acknowledged, no later turn, failed save, passed deadline or restart    *)
(* brings the sharing back (set_sharing_consent, skip, record_answer, save).   *)
ConsentRespected ==
    \A i, j \in Inbox : Suggestible(i, j) => word[i] = "yes" /\ word[j] = "yes"

(* ---- proof ---- *)

Turn == [inbox: Inbox, note: Note, created: BOOLEAN, refuses: BOOLEAN]

ContactTypes ==
    /\ notes \in [Inbox -> Note \cup {None}] /\ turn \in Turn \cup {None}
    /\ word \in [Inbox -> {"yes", "no", None}]

(* What is on disk, and what the turn at work will save, shares only with a   *)
(* yes; and what a turn that hears a refusal will save does not share.        *)
WordKept ==
    /\ \A i \in Inbox : notes[i] # None /\ notes[i].sharing => word[i] = "yes"
    /\ turn # None => /\ turn.note.sharing => word[turn.inbox] = "yes"
                      /\ turn.refuses => ~turn.note.sharing

ContactsInv == ContactTypes /\ WordKept

(* A question settled, or only put off: the stage moves, sharing does not. *)
LEMMA SettledNote ==
    ASSUME NEW c \in Note, NEW n \in Stage
    PROVE  Settled(c, n) \in Note /\ Settled(c, n).sharing = c.sharing /\ Settled(c, n).stage = n
  <1> DEFINE a == [c EXCEPT !.stage = n]
             b == [a EXCEPT !.awaiting = FALSE]
             d == [b EXCEPT !.since = 0]
  <1>1. a \in Note /\ a.sharing = c.sharing /\ a.stage = n
    BY DEF Note
  <1> HIDE DEF a
  <1>2. b \in Note /\ b.sharing = a.sharing /\ b.stage = a.stage
    BY <1>1 DEF Note
  <1> HIDE DEF b
  <1>3. d \in Note /\ d.sharing = b.sharing /\ d.stage = b.stage
    BY <1>2 DEF Note
  <1>4. d = Settled(c, n)
    BY DEF a, b, Settled
  <1> HIDE DEF d
  <1> QED
    BY <1>1, <1>2, <1>3, <1>4

(* The next stage is one of the stages, and sharing stays as it is. *)
LEMMA AdvancedNote ==
    ASSUME NEW c \in Note
    PROVE  Advanced(c) \in Note /\ Advanced(c).sharing = c.sharing
  <1> DEFINE ahead == {n \in c.stage .. Complete : n >= Consent \/ Field[n] \notin c.known}
  <1>1. c.stage \in 1 .. 6
    BY DEF Note, Stage, Complete
  <1>2. ahead \subseteq c.stage .. 6 /\ 6 \in ahead
    BY <1>1 DEF Complete, Consent
  <1> HIDE DEF ahead
  <1>3. \E n \in ahead : \A k \in ahead : n <= k
    BY <1>1, <1>2
  <1>4. PICK n \in ahead : n = CHOOSE m \in ahead : \A k \in ahead : m <= k
    BY <1>3
  <1>5. Advanced(c) = Settled(c, n)
    BY <1>4 DEF Advanced, ahead
  <1>6. n \in Stage
    BY <1>1, <1>2 DEF Stage, Complete
  <1> QED
    BY <1>5, <1>6, SettledNote

LEMMA SharingNote ==
    ASSUME NEW c \in Note, NEW share \in BOOLEAN
    PROVE  [c EXCEPT !.sharing = share] \in Note /\ [c EXCEPT !.sharing = share].sharing = share
  BY DEF Note

(* A field filled in. *)
LEMMA FilledNote ==
    ASSUME NEW c \in Note, NEW f \in Fields
    PROVE  WithField(c, f) \in Note /\ WithField(c, f).sharing = c.sharing
  <1>1. /\ [c EXCEPT !.known = @ \cup {f}] \in Note
        /\ [c EXCEPT !.known = @ \cup {f}].sharing = c.sharing
    BY DEF Note
  <1> QED
    BY <1>1, AdvancedNote DEF WithField

(* An answer changes sharing at the question for consent only. *)
LEMMA AnsweredNote ==
    ASSUME NEW c \in Note, NEW share \in BOOLEAN
    PROVE  /\ Answered(c, share) \in Note
           /\ Answered(c, share).sharing = IF c.stage = Consent THEN share ELSE c.sharing
  <1>1. CASE c.stage = Complete
    BY <1>1 DEF Answered, Complete, Consent
  <1>2. CASE c.stage = Consent
    <2>1. Answered(c, share) = Settled([c EXCEPT !.sharing = share], Complete)
      BY <1>2 DEF Answered, Complete, Consent
    <2>2. Complete \in Stage
      BY DEF Stage, Complete
    <2> DEFINE d == [c EXCEPT !.sharing = share]
    <2>3. d \in Note /\ d.sharing = share
      BY SharingNote
    <2>4. Answered(c, share) = Settled(d, Complete)
      BY <2>1
    <2> HIDE DEF d
    <2> QED
      BY <1>2, <2>2, <2>3, <2>4, SettledNote
  <1>3. CASE c.stage \in 1 .. 4
    <2> DEFINE d == [c EXCEPT !.known = @ \cup {Asked(c)}, !.stage = @ + 1]
    <2>1. Asked(c) \in Fields
      BY <1>3 DEF Asked, Fields
    <2>2. d \in Note /\ d.sharing = c.sharing
      <3>1. c.stage + 1 \in Stage
        BY <1>3 DEF Stage, Complete
      <3>2. c.known \cup {Asked(c)} \in SUBSET Fields
        BY <2>1 DEF Note
      <3> QED
        BY <3>1, <3>2 DEF Note
    <2>3. Answered(c, share) = Advanced(d)
      BY <1>3 DEF Answered, Complete, Consent
    <2> HIDE DEF d
    <2> QED
      BY <1>3, <2>2, <2>3, AdvancedNote DEF Consent
  <1> QED
    BY <1>1, <1>2, <1>3 DEF Note, Stage, Complete, Consent

(* Consent given or taken back, everything skipped, a prompt, a pause. *)
LEMMA ChangedNote ==
    ASSUME NEW c \in Note, NEW b \in BOOLEAN
    PROVE  /\ WithConsent(c, b) \in Note /\ WithConsent(c, b).sharing = b
           /\ SkippedAll(c) \in Note /\ SkippedAll(c).sharing = FALSE
           /\ [c EXCEPT !.paused = b] \in Note /\ [c EXCEPT !.paused = b].sharing = c.sharing
           /\ Deferred(c) \in Note /\ Deferred(c).sharing = c.sharing
  <1>1. \A share \in BOOLEAN : WithConsent(c, share) \in Note
                                /\ WithConsent(c, share).sharing = share
    <2> SUFFICES ASSUME NEW share \in BOOLEAN
                 PROVE  WithConsent(c, share) \in Note /\ WithConsent(c, share).sharing = share
      OBVIOUS
    <2> DEFINE s == IF c.stage = Consent THEN Complete ELSE c.stage
    <2>1. s \in Stage
      BY DEF Note, Stage, Complete
    <2>2. WithConsent(c, share) =
            Settled([c EXCEPT !.sharing = share], s)
      BY DEF WithConsent
    <2> DEFINE d == [c EXCEPT !.sharing = share]
    <2>3. d \in Note /\ d.sharing = share
      BY SharingNote
    <2>4. WithConsent(c, share) = Settled(d, s)
      BY <2>2
    <2> HIDE DEF s, d
    <2> QED
      BY <2>1, <2>3, <2>4, SettledNote
  <1>2. SkippedAll(c) \in Note /\ SkippedAll(c).sharing = FALSE
    <2>1. CASE c.stage = Complete
      BY <1>1, <2>1 DEF SkippedAll
    <2>2. CASE c.stage # Complete
      <3>1. {Field[n] : n \in c.stage .. 4} \subseteq Fields
        BY DEF Fields, Note, Stage, Complete
      <3>2. c.known \cup {Field[n] : n \in c.stage .. 4} \in SUBSET Fields
        BY <3>1 DEF Note
      <3>3. Complete \in Stage
        BY DEF Stage, Complete
      <3> DEFINE d == [c EXCEPT !.known = @ \cup {Field[n] : n \in c.stage .. 4},
                                !.sharing = FALSE]
      <3>4. d \in Note /\ d.sharing = FALSE
        BY <3>2 DEF Note
      <3>5. SkippedAll(c) = Settled(d, Complete)
        BY <2>2 DEF SkippedAll
      <3> HIDE DEF d
      <3> QED
        BY <3>3, <3>4, <3>5, SettledNote
    <2> QED
      BY <2>1, <2>2
  <1>3. Deferred(c) \in Note /\ Deferred(c).sharing = c.sharing
    BY SettledNote DEF Deferred, Note
  <1> QED
    BY <1>1, <1>2, <1>3 DEF Note

LEMMA PromptedNote ==
    ASSUME NEW c \in Note, NEW created \in BOOLEAN, NEW asks \in BOOLEAN
    PROVE  Prompted(c, created, asks) \in Note /\ Prompted(c, created, asks).sharing = c.sharing
  <1>1. CASE c.stage = Complete \/ c.awaiting
    BY <1>1 DEF Prompted
  <1>2. CASE ~(c.stage = Complete \/ c.awaiting) /\ (created \/ c.since + 1 < 2 \/ asks)
    <2> DEFINE m == IF c.since < 2 THEN c.since + 1 ELSE c.since
    <2>1. m \in Nat
      BY DEF Note
    <2>2. Prompted(c, created, asks) = [c EXCEPT !.since = m]
      BY <1>2 DEF Prompted
    <2> HIDE DEF m
    <2> QED
      BY <2>1, <2>2 DEF Note
  <1>3. CASE ~(c.stage = Complete \/ c.awaiting) /\ ~(created \/ c.since + 1 < 2 \/ asks)
    <2> DEFINE a == [c EXCEPT !.awaiting = TRUE]
               b == [a EXCEPT !.since = 0]
    <2>1. a \in Note /\ a.sharing = c.sharing
      BY DEF Note
    <2>2. Prompted(c, created, asks) = b
      BY <1>3 DEF Prompted
    <2> HIDE DEF a
    <2>3. b \in Note /\ b.sharing = a.sharing
      BY <2>1 DEF Note
    <2> HIDE DEF b
    <2> QED
      BY <2>1, <2>2, <2>3
  <1> QED
    BY <1>1, <1>2, <1>3

LEMMA LoadedNote ==
    ASSUME ContactsInv, NEW i \in Inbox
    PROVE  Loaded(i) \in Note /\ (Loaded(i).sharing => word[i] = "yes")
  <1>1. NewNote \in Note /\ NewNote.sharing = FALSE
    BY DEF NewNote, Note, Stage, Complete, Fields
  <1> QED
    BY <1>1 DEF Loaded, ContactsInv, ContactTypes, WordKept

(* What is heard: sharing is turned on by a yes to the question only, and a    *)
(* no to it turns it off.                                                      *)
Asking(c) == c.awaiting /\ c.stage = Consent

LEMMA HeardNote ==
    ASSUME NEW c \in Note, NEW text \in Text
    PROVE  /\ Heard(c, text) \in Note
           /\ Heard(c, text).sharing => c.sharing \/ (text = "yes" /\ Asking(c))
           /\ text = "no" /\ Asking(c) => ~Heard(c, text).sharing
  <1>1. CASE text \in Fields
    <2>1. text # "no"
      BY <1>1 DEF Fields, Field
    <2> QED
      BY <1>1, <2>1, FilledNote DEF Heard
  <1>2. CASE text \notin Fields /\ (c.stage = Complete \/ ~c.awaiting)
    <2>1. Heard(c, text) = c
      BY <1>2 DEF Heard
    <2>2. ~Asking(c)
      BY <1>2 DEF Asking, Complete, Consent
    <2> QED
      BY <2>1, <2>2
  <1>3. CASE text \notin Fields /\ ~(c.stage = Complete \/ ~c.awaiting)
    <2>1. CASE text = "words" /\ c.stage = 1
      <3>1. Heard(c, text) = Answered(c, FALSE)
        BY <1>3, <2>1 DEF Heard
      <3> QED
        BY <2>1, <3>1, AnsweredNote DEF Consent
    <2>2. CASE text \in {"yes", "no"} /\ c.stage \in {1, Consent}
      <3>1. Heard(c, text) = Answered(c, text = "yes")
        BY <1>3, <2>2 DEF Heard
      <3>2. CASE text = "yes"
        <4>1. Heard(c, text) = Answered(c, TRUE)
          BY <3>1, <3>2
        <4> QED
          BY <1>3, <2>2, <3>2, <4>1, AnsweredNote DEF Asking
      <3>3. CASE text = "no"
        <4>1. Heard(c, text) = Answered(c, FALSE)
          BY <3>1, <3>3
        <4> QED
          BY <1>3, <2>2, <3>3, <4>1, AnsweredNote DEF Asking
      <3> QED
        BY <2>2, <3>2, <3>3
    <2>3. CASE ~(text = "words" /\ c.stage = 1)
               /\ ~(text \in {"yes", "no"} /\ c.stage \in {1, Consent})
      <3>1. Heard(c, text) = Deferred(c)
        BY <1>3, <2>3 DEF Heard
      <3> QED
        BY <2>3, <3>1, ChangedNote DEF Asking
    <2> QED
      BY <2>1, <2>2, <2>3
  <1> QED
    BY <1>1, <1>2, <1>3

(* A note saved with no turn left at work. *)
LEMMA SavedKeeps ==
    ASSUME ContactsInv, None \notin Note, NEW i \in Inbox, NEW c \in Note \cup {None},
           NEW said \in {"yes", "no", None},
           Saved(i, c), word' = [word EXCEPT ![i] = said], turn' = None,
           c # None /\ c.sharing => said = "yes"
    PROVE  ContactsInv'
  <1>1. /\ notes' \in [Inbox -> Note \cup {None}] /\ word' \in [Inbox -> {"yes", "no", None}]
        /\ notes'[i] = c /\ word'[i] = said
        /\ \A j \in Inbox : j # i => notes'[j] = notes[j] /\ word'[j] = word[j]
    BY DEF ContactsInv, ContactTypes, Saved
  <1>2. ContactTypes'
    BY <1>1 DEF ContactTypes
  <1>3. WordKept'
    BY <1>1 DEF ContactsInv, WordKept
  <1> QED
    BY <1>2, <1>3 DEF ContactsInv

LEMMA ControlKeeps ==
    ASSUME ContactsInv, None \notin Note, NEW i \in Inbox, Control(i)
    PROVE  ContactsInv'
  <1> DEFINE c == Loaded(i)
  <1>1. c \in Note /\ (c.sharing => word[i] = "yes") /\ turn' = None
    BY LoadedNote DEF Control, Message
  <1>2. word[i] \in {"yes", "no", None} /\ word = [word EXCEPT ![i] = word[i]]
    BY DEF ContactsInv, ContactTypes
  <1>3. \/ \E share \in BOOLEAN : Saved(i, WithConsent(c, share))
                                  /\ Says(i, IF share THEN "yes" ELSE "no")
        \/ Saved(i, SkippedAll(c)) /\ Says(i, "no")
        \/ \E paused \in BOOLEAN : Saved(i, [c EXCEPT !.paused = paused]) /\ UNCHANGED word
        \/ \E f \in Fields : Saved(i, WithField(c, f)) /\ UNCHANGED word
        \/ Saved(i, Answered(c, FALSE)) /\ Says(i, IF c.stage = Consent THEN "no" ELSE word[i])
    BY DEF Control
  <1> HIDE DEF c
  <1>4. CASE \E share \in BOOLEAN : Saved(i, WithConsent(c, share))
                                    /\ Says(i, IF share THEN "yes" ELSE "no")
    <2> PICK share \in BOOLEAN : Saved(i, WithConsent(c, share))
                                 /\ Says(i, IF share THEN "yes" ELSE "no")
      BY <1>4
    <2>1. WithConsent(c, share) \in Note /\ WithConsent(c, share).sharing = share
      BY <1>1, ChangedNote
    <2> QED
      BY <1>1, <2>1, SavedKeeps DEF Says
  <1>5. CASE Saved(i, SkippedAll(c)) /\ Says(i, "no")
    <2>1. SkippedAll(c) \in Note /\ SkippedAll(c).sharing = FALSE
      BY <1>1, ChangedNote
    <2> QED
      BY <1>1, <1>5, <2>1, SavedKeeps DEF Says
  <1>6. CASE \E paused \in BOOLEAN : Saved(i, [c EXCEPT !.paused = paused]) /\ UNCHANGED word
    <2> PICK paused \in BOOLEAN : Saved(i, [c EXCEPT !.paused = paused]) /\ UNCHANGED word
      BY <1>6
    <2> DEFINE d == [c EXCEPT !.paused = paused]
    <2>1. d \in Note /\ d.sharing = c.sharing /\ Saved(i, d)
      BY <1>1, ChangedNote
    <2> HIDE DEF d
    <2> QED
      BY <1>1, <1>2, <2>1, SavedKeeps
  <1>7. CASE \E f \in Fields : Saved(i, WithField(c, f)) /\ UNCHANGED word
    <2> PICK f \in Fields : Saved(i, WithField(c, f)) /\ UNCHANGED word
      BY <1>7
    <2>1. WithField(c, f) \in Note /\ WithField(c, f).sharing = c.sharing
      BY <1>1, FilledNote
    <2> QED
      BY <1>1, <1>2, <2>1, SavedKeeps
  <1>8. CASE Saved(i, Answered(c, FALSE)) /\ Says(i, IF c.stage = Consent THEN "no" ELSE word[i])
    <2>1. /\ Answered(c, FALSE) \in Note
          /\ Answered(c, FALSE).sharing = IF c.stage = Consent THEN FALSE ELSE c.sharing
      BY <1>1, AnsweredNote
    <2> QED
      BY <1>1, <1>2, <1>8, <2>1, SavedKeeps DEF Says
  <1> QED
    BY <1>3, <1>4, <1>5, <1>6, <1>7, <1>8

LEMMA PassKeeps ==
    ASSUME ContactsInv, None \notin Note, NEW i \in Inbox, Pass(i)
    PROVE  ContactsInv'
  <1> DEFINE c == Loaded(i)
             said == IF c.stage = Consent THEN "no" ELSE word[i]
  <1>1. c \in Note /\ (c.sharing => word[i] = "yes") /\ turn' = None
    BY LoadedNote DEF Pass, Message
  <1>2. word[i] \in {"yes", "no", None} /\ word = [word EXCEPT ![i] = word[i]]
    BY DEF ContactsInv, ContactTypes
  <1>3. Saved(i, Answered(c, FALSE)) /\ word' = [word EXCEPT ![i] = said]
    BY <1>2 DEF Pass, Says
  <1> HIDE DEF c
  <1>4. /\ Answered(c, FALSE) \in Note
        /\ Answered(c, FALSE).sharing = IF c.stage = Consent THEN FALSE ELSE c.sharing
    BY <1>1, AnsweredNote
  <1>5. said \in {"yes", "no", None} /\ (Answered(c, FALSE).sharing => said = "yes")
    BY <1>1, <1>2, <1>4
  <1> HIDE DEF said
  <1> QED
    BY <1>1, <1>3, <1>4, <1>5, SavedKeeps

LEMMA BeginKeeps ==
    ASSUME ContactsInv, None \notin Note, NEW i \in Inbox, NEW text \in Text, Begin(i, text)
    PROVE  ContactsInv'
  <1> DEFINE c == Loaded(i)
             said == IF text = "yes" /\ Asking(c) THEN "yes" ELSE word[i]
             h == Heard(c, text)
             created == notes[i] = None
             refuses == text = "no" /\ Asking(c)
  <1>1. c \in Note /\ (c.sharing => word[i] = "yes")
    BY LoadedNote
  <1>2. word \in [Inbox -> {"yes", "no", None}]
    BY DEF ContactsInv, ContactTypes
  <1>3. /\ h \in Note /\ (h.sharing => said = "yes") /\ (refuses => ~h.sharing)
        /\ (c.sharing => said = "yes")
    BY <1>1, HeardNote
  <1>4. /\ turn' = [inbox |-> i, note |-> h, created |-> created, refuses |-> refuses]
        /\ word' = [word EXCEPT ![i] = said]
    BY <1>2 DEF Begin, Says, Asking
  <1>5. PICK d \in Note : Saved(i, d) /\ (d.sharing => said = "yes")
    <2>1. CASE Saved(i, Loaded(i))
      BY <1>1, <1>3, <2>1
    <2>2. CASE text \in Fields /\ Saved(i, WithField(Loaded(i), text))
      <3>1. WithField(c, text) \in Note /\ WithField(c, text).sharing = c.sharing
        BY <1>1, <2>2, FilledNote
      <3> QED
        BY <1>3, <2>2, <3>1
    <2> QED
      BY <2>1, <2>2 DEF Begin
  <1>6. created \in BOOLEAN /\ refuses \in BOOLEAN
    BY <1>1 DEF Asking, Note
  <1>7. said \in {"yes", "no", None}
    BY <1>2
  <1> HIDE DEF c, said, h, created, refuses
  <1>8. turn' \in Turn /\ turn'.inbox = i /\ turn'.note = h /\ turn'.refuses = refuses
    BY <1>3, <1>4, <1>6 DEF Turn
  <1>9. ContactTypes'
    BY <1>2, <1>4, <1>5, <1>7, <1>8 DEF ContactsInv, ContactTypes, Saved
  <1>10. word'[i] = said /\ \A k \in Inbox : k # i => word'[k] = word[k] /\ notes'[k] = notes[k]
    BY <1>2, <1>4, <1>5 DEF ContactsInv, ContactTypes, Saved
  <1>11. notes'[i] = d
    BY <1>5 DEF ContactsInv, ContactTypes, Saved
  <1>12. WordKept'
    BY <1>3, <1>5, <1>8, <1>10, <1>11 DEF ContactsInv, WordKept
  <1> QED
    BY <1>9, <1>12 DEF ContactsInv

LEMMA EndKeeps ==
    ASSUME ContactsInv, None \notin Note, End
    PROVE  ContactsInv'
  <1> DEFINE i == turn.inbox
             said == IF turn.refuses THEN "no" ELSE word[i]
  <1>1. turn \in Turn /\ turn' = None
    BY DEF End, ContactsInv, ContactTypes
  <1>2. /\ i \in Inbox /\ turn.note \in Note /\ turn.created \in BOOLEAN
        /\ word[i] \in {"yes", "no", None} /\ word = [word EXCEPT ![i] = word[i]]
    BY <1>1 DEF Turn, ContactsInv, ContactTypes
  <1>3. CASE \E asks \in BOOLEAN : EndSaved(asks)
    <2> PICK asks \in BOOLEAN : EndSaved(asks)
      BY <1>3
    <2> DEFINE c == Prompted(turn.note, turn.created, asks)
    <2>1. c \in Note /\ c.sharing = turn.note.sharing
      BY <1>2, PromptedNote
    <2>2. Saved(i, c) /\ word' = [word EXCEPT ![i] = said]
      BY <1>2 DEF EndSaved, Refusal, Says
    <2>3. said \in {"yes", "no", None} /\ (c.sharing => said = "yes")
      BY <1>2, <2>1 DEF End, ContactsInv, WordKept
    <2> HIDE DEF c, said, i
    <2> QED
      BY <1>1, <1>2, <2>1, <2>2, <2>3, SavedKeeps
  <1>4. CASE EndUnsaved
    BY <1>1, <1>4 DEF EndUnsaved, ContactsInv, ContactTypes, WordKept
  <1> QED
    BY <1>3, <1>4 DEF End

(* For every set of inboxes, whatever notes an earlier run has left: nobody   *)
(* is suggested to anybody without a standing yes, whatever turns, refusals,  *)
(* failed saves, deadlines and crashes come in between.                       *)
THEOREM ConsentRespectedHolds ==
    ASSUME ContactsParameters
    PROVE  Spec => []ConsentRespected
  <1> USE DEF ContactsParameters
  <1>1. Init => ContactsInv
    BY DEF Init, ContactsInv, ContactTypes, WordKept
  <1>2. ContactsInv /\ [Next]_vars => ContactsInv'
    <2> SUFFICES ASSUME ContactsInv, [Next]_vars PROVE ContactsInv'
      OBVIOUS
    <2>1. ASSUME NEW i \in Inbox, Control(i) PROVE ContactsInv'
      BY <2>1, ControlKeeps
    <2>2. ASSUME NEW i \in Inbox, Forget(i) PROVE ContactsInv'
      <3>1. turn' = None /\ Saved(i, None) /\ word' = [word EXCEPT ![i] = "no"]
        BY <2>2 DEF Forget, Message, Says
      <3> QED
        BY <3>1, SavedKeeps
    <2>3. ASSUME NEW i \in Inbox, Pass(i) PROVE ContactsInv'
      BY <2>3, PassKeeps
    <2>4. ASSUME NEW i \in Inbox, NEW text \in Text, Begin(i, text) PROVE ContactsInv'
      BY <2>4, BeginKeeps
    <2>5. CASE End
      BY <2>5, EndKeeps
    <2>6. CASE Drop
      BY <2>6 DEF Drop, ContactsInv, ContactTypes, WordKept
    <2>7. CASE UNCHANGED vars
      BY <2>7 DEF vars, ContactsInv, ContactTypes, WordKept
    <2> QED
      BY <2>1, <2>2, <2>3, <2>4, <2>5, <2>6, <2>7 DEF Next
  <1>3. ContactsInv => ConsentRespected
    BY DEF ContactsInv, WordKept, ConsentRespected, Suggestible
  <1> QED
    BY <1>1, <1>2, <1>3, PTL DEF Spec
====
