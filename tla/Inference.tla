---- MODULE Inference ----
(* The inference router (inference.rs, environment.rs, deadline.rs, the       *)
(* phases of model.rs and the tool budget of operator.rs): which providers a  *)
(* request tries in which order, how its deadline is divided between them,    *)
(* and how the operator's changes of route and credentials meet requests that *)
(* are under way.                                                             *)
(*                                                                            *)
(* A request counts down the time it has left. One step is one attempt at a   *)
(* provider, catalog and attestation included: an attempt spends any part of  *)
(* its budget and succeeds, fails or times out. Cooldowns end at any time.    *)
EXTENDS Integers, Sequences, FiniteSets

CONSTANTS
    Remote,             \* the providers that need a credential
    Slot, Key,          \* names and values of credential slots
    Rejected,           \* the keys the service may answer with 401 or 403
    PUBLIC_WORK_BUDGET, OPERATOR_WORK_BUDGET,
    PUBLIC_REMOTE_ATTEMPT_LIMIT, LOCAL_MODEL_PHASE_LIMIT, OPERATOR_MODEL_TOOL_PHASE_LIMIT,
    DETERMINISTIC_FALLBACK_RESERVE, MIN_PROVIDER_ATTEMPT,
    RemoteTimeout, OllamaTimeout,
    MaxSteps,           \* completions of one operator turn
    MaxRequests,        \* completions under way at once
    MaxCommands, None

InferenceParameters ==
    /\ Rejected \subseteq Key
    /\ {PUBLIC_WORK_BUDGET, OPERATOR_WORK_BUDGET, PUBLIC_REMOTE_ATTEMPT_LIMIT,
        LOCAL_MODEL_PHASE_LIMIT, OPERATOR_MODEL_TOOL_PHASE_LIMIT,
        DETERMINISTIC_FALLBACK_RESERVE, MIN_PROVIDER_ATTEMPT, RemoteTimeout,
        OllamaTimeout} \subseteq Nat \ {0}

Local == {"ollama", "deterministic"}
Provider == Remote \cup Local
Lane == {"public", "operator"}

VARIABLES
    selected, setting,  \* the selected provider; the model and privacy chosen for it
    generation,         \* of the route: every change of it fences older completions
    unhealthy,          \* the providers cooling down, for each lane
    slots,              \* for each remote provider its credential slots, or None
    legacy,             \* the key of the older store, or None
    request,            \* for each lane the completion under way, or None
    commands            \* bound

route == <<selected, setting, generation>>
vars == <<selected, setting, generation, unhealthy, slots, legacy, request, commands>>

Entry(name, key) ==
    [name |-> name, key |-> key, enabled |-> TRUE, cooling |-> FALSE, refused |-> FALSE]

(* any route and up to two credentials of an earlier run *)
Stored(keys) == [i \in DOMAIN keys |-> Entry(IF i = 1 THEN "primary" ELSE "backup", keys[i])]
Init ==
    /\ selected \in Provider /\ setting = 0 /\ generation = 0 /\ unhealthy = {}
    /\ slots \in [Remote -> {None} \cup {Stored(ks) : ks \in UNION {[1 .. n -> Key] : n \in 0 .. 2}}]
    /\ legacy \in [Remote -> Key \cup {None}]
    /\ request = [l \in Lane |-> None] /\ commands = 0

Least(a, b) == IF a < b THEN a ELSE b
Minus(a, b) == IF a > b THEN a - b ELSE 0
Budget(l) == IF l = "public" THEN PUBLIC_WORK_BUDGET ELSE OPERATOR_WORK_BUDGET

(* ---- candidates: the selected provider, then only local ones ---- *)

Order ==
    (IF selected \in Remote THEN <<selected>> ELSE <<>>)
        \o (IF selected = "deterministic" THEN <<>> ELSE <<"ollama">>) \o <<"deterministic">>

Usable(p) == SelectSeq(slots[p], LAMBDA s : s.enabled /\ ~s.cooling)

(* an override of slots, even an empty one, hides the key of the older store *)
OfProvider(p) ==
    LET one(slot, key) == [provider |-> p, generation |-> generation, slot |-> slot, key |-> key]
    IN  IF p \in Local THEN <<one(None, None)>>
        ELSE IF slots[p] # None
             THEN LET u == Usable(p) IN
                  [i \in 1 .. Least(3, Len(u)) |-> one(u[i].name, u[i].key)]
             ELSE IF legacy[p] # None THEN <<one(None, legacy[p])>> ELSE <<>>

Candidates(l) ==
    LET ps == SelectSeq(Order, LAMBDA p : p = "deterministic" \/ <<p, l>> \notin unhealthy)
        from[i \in 1 .. Len(ps) + 1] ==
            IF i > Len(ps) THEN <<>> ELSE OfProvider(ps[i]) \o from[i + 1]
    IN  from[1]

(* ---- the division of the deadline ---- *)

LocalPhase == Least(OllamaTimeout, LOCAL_MODEL_PHASE_LIMIT)
Rest(r) == SubSeq(r.candidates, 2, Len(r.candidates))
Among(p, cs) == \E i \in DOMAIN cs : cs[i].provider = p

(* fallback_reserve: what the local candidates still to come need *)
FallbackReserveWithoutLocal(l, cs) ==
    IF Among("deterministic", cs) THEN DETERMINISTIC_FALLBACK_RESERVE ELSE 0
FallbackReserve(l, cs) ==
    (IF Among("deterministic", cs) THEN DETERMINISTIC_FALLBACK_RESERVE ELSE 0)
    + (IF ~Among("ollama", cs) THEN 0
       ELSE IF l = "public" THEN LocalPhase
       ELSE 2 * LocalPhase + OPERATOR_MODEL_TOOL_PHASE_LIMIT)

ProviderLimit(p, l) ==
    IF p = "ollama" THEN LocalPhase
    ELSE IF l = "public" THEN Least(RemoteTimeout, PUBLIC_REMOTE_ATTEMPT_LIMIT) ELSE RemoteTimeout

Backups(r) ==
    Cardinality({i \in 2 .. Len(r.candidates) : /\ r.candidates[i].slot # None
                     /\ r.candidates[i].provider = Head(r.candidates).provider})

(* attempt_deadline: 0 skips the candidate to keep the reserve *)
AttemptBudget(l, r) ==
    LET available == Minus(r.remaining, FallbackReserve(l, Rest(r)))
    IN  IF available < MIN_PROVIDER_ATTEMPT THEN 0
        ELSE Least(available \div (Backups(r) + 1), ProviderLimit(Head(r.candidates).provider, l))

(* ---- a completion ---- *)

Fresh(l, remaining, steps) ==
    [stage |-> "attempt", candidates |-> Candidates(l), remaining |-> remaining,
     tried |-> FALSE, enough |-> remaining >= LocalPhase + DETERMINISTIC_FALLBACK_RESERVE,
     scope |-> <<selected, setting>>, steps |-> steps]

Begin(l) ==
    /\ request[l] = None /\ Cardinality({k \in Lane : request[k] # None}) < MaxRequests
    /\ request' = [request EXCEPT ![l] = Fresh(l, Budget(l), 1)]
    /\ UNCHANGED <<route, unhealthy, slots, legacy, commands>>

Trying(l) == request[l] # None /\ request[l].stage = "attempt"
Next1(r, spent) == [r EXCEPT !.candidates = Rest(r), !.remaining = @ - spent, !.tried = TRUE]

Skip(l) ==
    /\ Trying(l)
    /\ Head(request[l].candidates).provider # "deterministic" /\ AttemptBudget(l, request[l]) = 0
    /\ request' = [request EXCEPT ![l].candidates = Rest(request[l])]
    /\ UNCHANGED <<route, unhealthy, slots, legacy, commands>>

(* record_success: unless the route changed, the provider is healthy in this lane. The *)
(* operator's model may ask for a tool; the built-in voice only answers                *)
Succeed(l) ==
    /\ Trying(l)
    /\ LET r == request[l]
           c == Head(r.candidates)
       IN  /\ c.provider # "deterministic" => AttemptBudget(l, r) > 0
           /\ unhealthy' = IF c.generation = generation THEN unhealthy \ {<<c.provider, l>>}
                           ELSE unhealthy
           /\ \/ request' = [request EXCEPT ![l] = None]
              \/ /\ l = "operator" /\ c.provider # "deterministic"
                 /\ \E spent \in 0 .. AttemptBudget(l, r) :
                        request' = [request EXCEPT ![l].stage = "tool",
                                                   ![l].remaining = r.remaining - spent]
    /\ UNCHANGED <<route, slots, legacy, commands>>

(* Environment::failed knows the slot by its name *)
SlotFailed(p, name, rejected) ==
    IF name = None \/ slots[p] = None THEN slots
    ELSE [slots EXCEPT ![p] = [i \in DOMAIN slots[p] |->
            IF slots[p][i].name # name THEN slots[p][i]
            ELSE [slots[p][i] EXCEPT !.cooling = TRUE, !.refused = rejected,
                                     !.enabled = @ /\ ~rejected]]]

(* record_failure: unless the route changed, the provider cools down in this lane *)
Fail(l) ==
    /\ Trying(l)
    /\ LET r == request[l]
           c == Head(r.candidates)
       IN  /\ c.provider # "deterministic" /\ AttemptBudget(l, r) > 0
           /\ \E rejected \in BOOLEAN :
                /\ rejected => c.key \in Rejected
                /\ slots' = IF c.provider \in Remote THEN SlotFailed(c.provider, c.slot, rejected)
                            ELSE slots
           /\ unhealthy' = IF c.generation = generation THEN unhealthy \cup {<<c.provider, l>>}
                           ELSE unhealthy
           /\ \E spent \in 0 .. AttemptBudget(l, r) :
                request' = [request EXCEPT ![l] = Next1(r, spent)]
    /\ UNCHANGED <<route, legacy, commands>>

(* the tool between two completions of an operator's turn keeps the continuation's time; *)
(* a changed route ends the turn before anything is sent to it                           *)
ToolBudgetWithoutReserve(r) == r.remaining
ToolBudget(r) == Minus(r.remaining, LocalPhase + DETERMINISTIC_FALLBACK_RESERVE)

Tool ==
    LET r == request["operator"] IN
    /\ r # None /\ r.stage = "tool"
    /\ IF r.scope # <<selected, setting>> \/ r.steps = MaxSteps
       THEN request' = [request EXCEPT !["operator"] = None]
       ELSE \E spent \in 0 .. ToolBudget(r) :
            request' = [request EXCEPT !["operator"] =
                [Fresh("operator", r.remaining - spent, r.steps + 1) EXCEPT
                    !.enough = ToolBudget(r) > 0, !.scope = r.scope]]
    /\ UNCHANGED <<route, unhealthy, slots, legacy, commands>>

(* the caller's own deadline, or its abandoned connection *)
Abandon(l) ==
    /\ request[l] # None /\ request' = [request EXCEPT ![l] = None]
    /\ UNCHANGED <<route, unhealthy, slots, legacy, commands>>

CooldownOver ==
    /\ \/ \E u \in unhealthy : unhealthy' = unhealthy \ {u} /\ UNCHANGED slots
       \/ /\ \E p \in Remote : slots[p] # None /\ \E i \in DOMAIN slots[p] :
                slots[p][i].cooling /\ slots' = [slots EXCEPT ![p][i].cooling = FALSE]
          /\ UNCHANGED unhealthy
    /\ UNCHANGED <<route, legacy, request, commands>>

(* ---- the operator's commands; each is saved and then applied under the lock ---- *)

Command == commands < MaxCommands /\ commands' = commands + 1 /\ UNCHANGED request
Healthy(p) == {u \in unhealthy : u[1] # p}

(* /provider: selecting it again retries it *)
SwitchProvider ==
    /\ Command
    /\ \E p \in Provider : selected' = p /\ unhealthy' = Healthy(p)
    /\ generation' = generation + 1 /\ UNCHANGED <<setting, slots, legacy>>

(* /model, and the privacy setting, which forgets every cooldown *)
SwitchSetting ==
    /\ Command /\ selected # "deterministic" /\ setting' = 1 - setting
    /\ unhealthy' \in {Healthy(selected), {}}
    /\ generation' = generation + 1 /\ UNCHANGED <<selected, slots, legacy>>

Without(p, name) == SelectSeq(slots[p], LAMBDA s : s.name # name)
Migrated(p) ==
    IF slots[p] # None THEN slots[p]
    ELSE IF legacy[p] # None THEN <<Entry("primary", legacy[p])>> ELSE <<>>

(* /env set replaces the primary slot; a validated backup is added behind the others, *)
(* the key of the older store before it                                               *)
SetKey ==
    /\ Command /\ unhealthy' = {}
    /\ \E p \in Remote, k \in Key :
        \/ slots' = [slots EXCEPT ![p] = <<Entry("primary", k)>>
                        \o (IF slots[p] = None THEN <<>> ELSE Without(p, "primary"))]
        \/ \E name \in Slot \ {"primary"} :
            /\ \A i \in DOMAIN Migrated(p) : Migrated(p)[i].name # name
            /\ slots' = [slots EXCEPT ![p] = Append(Migrated(p), Entry(name, k))]
    /\ UNCHANGED <<route, legacy>>

(* /env unset, and remove, enable or disable of one slot *)
ChangeSlots ==
    /\ Command /\ unhealthy' = {}
    /\ \E p \in Remote :
        \/ /\ slots' = [slots EXCEPT ![p] = <<>>] /\ legacy' = [legacy EXCEPT ![p] = None]
           /\ generation' = generation + 1
        \/ /\ slots[p] # None /\ UNCHANGED <<generation, legacy>>
           /\ \E i \in DOMAIN slots[p] :
                \/ slots' = [slots EXCEPT ![p] = Without(p, slots[p][i].name)]
                \/ \E on \in BOOLEAN : slots' = [slots EXCEPT ![p][i] =
                        [@ EXCEPT !.enabled = on, !.cooling = FALSE, !.refused = FALSE]]
    /\ UNCHANGED <<selected, setting>>

(* /venice-key: the key is stored and its provider selected *)
ProvisionKey ==
    /\ Command
    /\ \E p \in Remote, k \in Key :
        /\ slots' = IF slots[p] = None THEN slots
                    ELSE [slots EXCEPT ![p] = <<Entry("primary", k)>> \o Without(p, "primary")]
        /\ legacy' = [legacy EXCEPT ![p] = k] /\ selected' = p /\ unhealthy' = Healthy(p)
    /\ generation' = generation + 1 /\ UNCHANGED setting

(* a doctor's repair: the probe passed and neither route nor credential changed since *)
Repair ==
    /\ Command
    /\ \E p \in Remote \cup {"ollama"} :
        /\ unhealthy' = Healthy(p)
        /\ slots' \in {slots} \cup
                IF p \notin Remote THEN {} ELSE IF slots[p] = None THEN {}
                ELSE {[slots EXCEPT ![p][i] = [@ EXCEPT !.cooling = FALSE, !.refused = FALSE]] :
                        i \in {j \in DOMAIN slots[p] : slots[p][j].enabled}}
    /\ UNCHANGED <<route, legacy>>

Restart ==
    /\ unhealthy' = {} /\ request' = [l \in Lane |-> None]
    /\ UNCHANGED <<route, slots, legacy, commands>>

Next ==
    \/ \E l \in Lane : Begin(l) \/ Skip(l) \/ Succeed(l) \/ Fail(l) \/ Abandon(l)
    \/ Tool \/ CooldownOver
    \/ SwitchProvider \/ SwitchSetting \/ SetKey \/ ChangeSlots \/ ProvisionKey \/ Repair
    \/ Restart

Spec == Init /\ [][Next]_vars

(* Whatever was attempted before, with however many keys, and however long a tool  *)
(* took, the local model gets its whole phase and the built-in voice the time to   *)
(* answer: no completion that had that time loses it to a remote provider          *)
(* (attempt_deadline, fallback_reserve; the tool budget of respond_tracked).       *)
LocalFallbackKept ==
    \A l \in Lane : request[l] # None =>
        LET r == request[l] IN r.stage = "attempt" =>
            /\ r.enough /\ Among("ollama", r.candidates) =>
                    r.remaining >= LocalPhase + DETERMINISTIC_FALLBACK_RESERVE
            /\ r.candidates # <<>> /\ r.remaining >= DETERMINISTIC_FALLBACK_RESERVE

(* A slot is disabled as rejected only if the key it holds is one the service *)
(* refuses (Environment::failed, "HTTP 401/403 disables the rejected slot").  *)
RejectedSlotsOnly ==
    \A p \in Remote : slots[p] # None =>
        \A i \in DOMAIN slots[p] : slots[p][i].refused => slots[p][i].key \in Rejected
====
