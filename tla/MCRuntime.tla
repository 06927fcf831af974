------------------------------ MODULE MCRuntime ------------------------------
(***************************************************************************)
(* Finite instances of what runs in one Tentacle's process: the            *)
(* supervisors (twice: a binding Death, and the notices to the operators), *)
(* repository maintenance, the memory of conversations, the operators'     *)
(* authority and tasks, inference, Hermes, the onboarding of contacts and  *)
(* coaching.  A behaviour exercises one of them, named by part, and leaves *)
(* the others in an initial state.                                         *)
(* Authority moves between two operators while one of them has a task      *)
(* started; a replay finds the places for messages taken.                  *)
(***************************************************************************)
EXTENDS Supervisor, Authority, Maintenance

VARIABLES
    part,
    log, notes, epoch, memory_revision, reflection, memory_turn, sessions, forgotten,
    messages, reflections,
    selected, setting, route_generation, unhealthy, slots, legacy, request, commands,
    node, saved, wire, faults,
    contact_notes, contact_turn, recorded, word, contact_messages, contact_faults,
    today, goal, prefs, damaged, recipients, claims, goal_commands, goal_faults

-----------------------------------------------------------------------------
\* Two changes, each to a path of its own.
OwnPath == [c \in {"a", "b"} |-> IF c = "a" THEN "p" ELSE "q"]

\* A binding Death; nobody is told anything.
Dying == INSTANCE Supervisor WITH Kind <- {}, Inbox <- {}, MaxTransfers <- 0

\* Two notices of one kind to two operators, a transport that may hand one over;
\* nothing else goes on in the process.
Notices ==
    INSTANCE Supervisor WITH
        Deadlines <- {}, Proposals <- {}, HasRelative <- FALSE, HasExecutor <- FALSE

\* Three people and a group; a message evicts the first of a full transcript.
Memory ==
    INSTANCE Memory WITH
        Acolyte <- {"a", "b"}, Operator <- {"o"}, Group <- {"g"}, MAX_ENTRIES <- 2,
        MaxMessages <- 3, MaxForgets <- 1, MaxReflections <- 2, turn <- memory_turn

\* Time is in units of the reserve; the remote service is slower than the local one.
Inference ==
    INSTANCE Inference WITH
        Remote <- {"venice"}, Slot <- {"primary", "backup"}, Key <- {"k"},
        Rejected <- {"k"}, PUBLIC_WORK_BUDGET <- 6, OPERATOR_WORK_BUDGET <- 9,
        PUBLIC_REMOTE_ATTEMPT_LIMIT <- 3, LOCAL_MODEL_PHASE_LIMIT <- 2,
        OPERATOR_MODEL_TOOL_PHASE_LIMIT <- 1, DETERMINISTIC_FALLBACK_RESERVE <- 1,
        MIN_PROVIDER_ATTEMPT <- 1, RemoteTimeout <- 4, OllamaTimeout <- 3,
        MaxSteps <- 2, MaxRequests <- 1, MaxCommands <- 1, generation <- route_generation

\* One item in two revisions between two nodes, one of which may be banned.
Hermes ==
    INSTANCE Hermes WITH
        Node <- 1..2, Links <- {{1, 2}},
        Revision <- {[id |-> 1, rank |-> 0, at |-> 2, digest |-> 1, author |-> 1],
                     [id |-> 1, rank |-> 1, at |-> 1, digest |-> 3, author |-> 2]},
        MAX_KNOWLEDGE_ITEMS <- 2, MAX_PENDING_OUTBOUND <- 1, MAX_PATH_HOPS <- 3,
        MAX_OUTBOUND_BATCH <- 1, MaxWire <- 1, MaxFaults <- 1, Banned <- {2}

\* Nothing known, or everything up to the question for consent.
Contacts ==
    INSTANCE Contacts WITH
        Inbox <- {"a", "b"}, MaxMessages <- 4, MaxFaults <- 1,
        Stored <- {[stage |-> 4, known |-> {"name", "hopes", "resources"}, sharing |-> TRUE,
                    paused |-> FALSE, awaiting |-> FALSE, since |-> 1]},
        notes <- contact_notes, turn <- contact_turn, messages <- contact_messages,
        faults <- contact_faults

Coaching ==
    INSTANCE Coaching WITH
        Acolyte <- {"a", "b"}, Interval <- {1, 2}, MaxDay <- 4, MaxCommands <- 4,
        MaxFaults <- 1, commands <- goal_commands, faults <- goal_faults

ASSUME RuntimeAssumption ==
    /\ MaintenanceParameters
    /\ Hermes!HermesParameters
    /\ Coaching!CoachingParameters /\ Contacts!ContactsParameters
    /\ Inference!InferenceParameters

-----------------------------------------------------------------------------
memoryVars == <<log, notes, epoch, memory_revision, reflection, memory_turn, sessions,
                forgotten, messages, reflections>>
inferenceVars == <<selected, setting, route_generation, unhealthy, slots, legacy, request,
                   commands>>
hermesVars == <<node, saved, wire, faults>>
contactVars == <<contact_notes, contact_turn, recorded, word, contact_messages, contact_faults>>
coachingVars == <<today, goal, prefs, damaged, recipients, claims, goal_commands, goal_faults>>

runtimeVars == <<vars, maintenanceVars, memoryVars, authorityVars, inferenceVars, hermesVars,
                 contactVars, coachingVars, part>>

\* Only the exercised component's initial states are varied.
RuntimeInit ==
    /\ part \in {"death", "notices", "maintenance", "memory", "authority", "inference",
                 "hermes", "contacts", "coaching"}
    /\ IF part = "notices" THEN Notices!Init ELSE Dying!Init
    /\ MaintenanceInit
    /\ part = "maintenance" \/ repo.remotes = [origin |-> "canonical", upstream |-> "none"]
    /\ Memory!Init /\ AuthorityInit /\ Hermes!HermesInit /\ Coaching!CoachingInit
    /\ Inference!Init
    /\ \/ part = "inference"
       \/ selected = "venice" /\ slots["venice"] = None /\ legacy["venice"] = None
    /\ Contacts!Init /\ (part = "contacts" \/ \A i \in {"a", "b"} : contact_notes[i] = None)

\* The rest of the parts stays as it is.
Only(p, others) == part = p /\ UNCHANGED part /\ UNCHANGED others

RuntimeNext ==
    \/ Only("death", <<maintenanceVars, memoryVars, authorityVars, inferenceVars, hermesVars,
                       contactVars, coachingVars>>) /\ Dying!Next
    \/ Only("notices", <<maintenanceVars, memoryVars, authorityVars, inferenceVars, hermesVars,
                         contactVars, coachingVars>>) /\ Notices!Next
    \/ Only("maintenance", <<vars, memoryVars, authorityVars, inferenceVars, hermesVars,
                             contactVars, coachingVars>>) /\ MaintenanceNext
    \/ Only("memory", <<vars, maintenanceVars, authorityVars, inferenceVars, hermesVars,
                        contactVars, coachingVars>>) /\ Memory!Next
    \/ Only("authority", <<vars, maintenanceVars, memoryVars, inferenceVars, hermesVars,
                           contactVars, coachingVars>>) /\ AuthorityNext
    \/ Only("inference", <<vars, maintenanceVars, memoryVars, authorityVars, hermesVars,
                           contactVars, coachingVars>>) /\ Inference!Next
    \/ Only("hermes", <<vars, maintenanceVars, memoryVars, authorityVars, inferenceVars,
                        contactVars, coachingVars>>) /\ Hermes!HermesNext
    \/ Only("contacts", <<vars, maintenanceVars, memoryVars, authorityVars, inferenceVars,
                          hermesVars, coachingVars>>) /\ Contacts!Next
    \/ Only("coaching", <<vars, maintenanceVars, memoryVars, authorityVars, inferenceVars,
                          hermesVars, contactVars>>) /\ Coaching!CoachingNext

RuntimeSpec == RuntimeInit /\ [][RuntimeNext]_runtimeVars

-----------------------------------------------------------------------------
(* Bounds of the parts that are too large otherwise. *)

\* The notices need no economics beside them, and the two operators are alike.
NoticesBound ==
    part = "notices" =>
        /\ step = "tick" /\ ~turn
        /\ generation = 1 => operators \subseteq {"i"}

RuntimeBound ==
    /\ NoticesBound
    /\ upstream \subseteq {"a"}                             \* one change reaches upstream
    /\ reflections > 1 => messages <= 2
    /\ restarts > 0 => Len(sent) <= 3
    /\ commands > 0 => request["operator"] = None

-----------------------------------------------------------------------------
(* Properties, as stated in their modules. *)

\* People are treated as they agreed: sharing only after a "yes" that was not taken
\* back, no note of an Acolyte after it asked to be forgotten but what a reflection
\* that had begun before puts back as derived text, nothing of one scope in the
\* context of another, and check-ins no more often than they asked for.
PrivacyKept ==
    /\ part = "contacts" => Contacts!ConsentRespected
    /\ part = "memory" => Memory!Forgetting /\ Memory!Scoped
    /\ part = "coaching" => Coaching!ClaimsSpaced

\* A node can always save its knowledge: no order of messages makes a state its
\* own validation refuses.
Savable == part = "hermes" => Hermes!Savable

\* Whatever providers time out or are refused, the deterministic answer still has
\* the time that is reserved for it.
LocalFallbackKept == part = "inference" => Inference!LocalFallbackKept
=============================================================================
