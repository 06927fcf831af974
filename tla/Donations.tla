---- MODULE Donations ----
(* Credentials given over XMTP (base_rpc.rs, and the provisioning commands of *)
(* bot.rs, operator.rs and inference.rs). The public lane and the operator's  *)
(* lane each work on one message; both may be in the middle of provisioning.  *)
(* A validation awaits the network, and the file and the running endpoint are *)
(* two writes.  The endpoint in use is the one TokenEye's reads go to.        *)
EXTENDS TokenEye

CONSTANTS
    Endpoint, Key,  \* what may be donated
    Sound,          \* the endpoints and keys their services accept
    Fallback,       \* the public endpoint
    MaxCommands, MaxRestarts

VARIABLES
    file, handle,   \* state/base-rpc.endpoint, and the endpoint in use
    key,            \* the Venice key, on disk and in memory
    lane,           \* what each lane is in the middle of, or None
    rewarded,       \* the keys whose donors were promised a reward
    chosen,         \* ghost: the operator's last endpoint, or None
    commands, restarts

donationVars == <<file, handle, key, lane, rewarded, chosen, commands, restarts>>

Lanes == {"public", "operator"}
InUse(stored) == IF stored = None THEN Fallback ELSE stored

DonationInit ==
    /\ file \in {None} \cup (Sound \cap Endpoint) /\ handle = InUse(file)
    /\ key = None /\ lane = [l \in Lanes |-> None]
    /\ rewarded = {} /\ chosen = None
    /\ commands = 0 /\ restarts = 0

Starts(l) == lane[l] = None /\ commands < MaxCommands /\ commands' = commands + 1
Waits(l, step, value) == lane' = [lane EXCEPT ![l] = [step |-> step, value |-> value]]
At(l, step) == lane[l] # None /\ lane[l].step = step
Done(l) == lane' = [lane EXCEPT ![l] = None]
Decides(l, e) == chosen' = IF l = "operator" THEN e ELSE chosen

(* ---- the Base RPC endpoint ---- *)

(* BaseRpcStore::provision: whether one is loaded is asked before validating *)
MayProvision(l) == l = "operator" \/ file = None

Provision(l, e) ==
    /\ Starts(l)
    /\ MayProvision(l)
    /\ Waits(l, "validating", e)
    /\ UNCHANGED <<file, handle, key, rewarded, chosen, restarts>>

(* validate_chain; without it only the form of the URL is known *)
ValidatesForm(l) == lane[l].value \in Endpoint
Validates(l) == lane[l].value \in Sound

Persist(l) ==
    /\ At(l, "validating")
    /\ IF Validates(l)
       THEN /\ file' = lane[l].value
            /\ Waits(l, "stored", file')
            /\ Decides(l, file')
       ELSE Done(l) /\ UNCHANGED <<file, chosen>>
    /\ UNCHANGED <<handle, key, rewarded, commands, restarts>>

Activate(l) ==
    /\ At(l, "stored")
    /\ handle' = lane[l].value
    /\ Done(l)
    /\ UNCHANGED <<file, key, rewarded, chosen, commands, restarts>>

(* /env unset CTHUWU_RPC_ENDPOINT writes the fallback: one stays "loaded" *)
ClearEndpoint ==
    /\ Starts("operator")
    /\ file' = Fallback
    /\ Waits("operator", "stored", Fallback)
    /\ Decides("operator", None)
    /\ UNCHANGED <<handle, key, rewarded, restarts>>

(* ---- the first Venice key ---- *)

(* venice_key_command holds the router's lock; only a donated key is probed *)
VeniceKey(l, k) ==
    /\ Starts(l)
    /\ l = "operator" \/ key = None
    /\ key' = k
    /\ IF l = "public" THEN Waits(l, "probing", k) ELSE UNCHANGED lane
    /\ UNCHANGED <<file, handle, rewarded, chosen, restarts>>

(* The probe reads the key loaded by then; if it fails, that one is removed *)
Probe ==
    /\ At("public", "probing")
    /\ \/ key \in Sound /\ rewarded' = rewarded \cup {lane["public"].value} /\ UNCHANGED key
       \/ key' = None /\ UNCHANGED rewarded
    /\ Done("public")
    /\ UNCHANGED <<file, handle, chosen, commands, restarts>>

Restart ==
    /\ restarts < MaxRestarts
    /\ restarts' = restarts + 1
    /\ handle' = InUse(file)
    /\ lane' = [l \in Lanes |-> None]
    /\ UNCHANGED <<file, key, rewarded, chosen, commands>>

DonationNext ==
    \/ \E l \in Lanes :
        \/ \E e \in Endpoint : Provision(l, e)
        \/ \E k \in Key : VeniceKey(l, k)
        \/ Persist(l) \/ Activate(l)
    \/ ClearEndpoint \/ Probe \/ Restart

DonationSpec == DonationInit /\ [][DonationNext]_donationVars

(* "only the active operator may replace it": the endpoint that the operator  *)
(* provisioned is stored until the operator provisions or removes it          *)
(* (provision, called for the operator and for the public /base-rpc-key).     *)
OperatorsEndpointStands == chosen # None => file = chosen

(* Nothing the service has not accepted reaches the file or the running       *)
(* endpoint, however the two lanes' provisioning, a removal and a restart     *)
(* interleave (BaseRpcStore::provision, save, open).                          *)
EndpointVouched == {InUse(file), handle} \subseteq Sound \cup {Fallback}

(* What economic decisions and requests rest on is true: a balance that may   *)
(* carry one was really held at its date and is no older than the interval,   *)
(* and no endpoint is stored or used that its service has not accepted.       *)
ChainIsVouched == OperationalIsTrue /\ EndpointVouched

====
