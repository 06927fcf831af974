----------------------------- MODULE MCServices -----------------------------
(***************************************************************************)
(* Finite instances of eight components that share no state: the state     *)
(* store, the routing engine, the Council transport, the endpoint registry,*)
(* the branding traits, the workspace journal, the token observer and the  *)
(* provisioning of donated endpoints and keys.  A behaviour exercises one  *)
(* of them, named by part, and leaves the others in an initial state.      *)
(***************************************************************************)
EXTENDS StateStore, Registry, Transport, BrandingTraits, Donations, Workspace

CONSTANT NoTentacle

VARIABLES
  part,
  request, offers

-----------------------------------------------------------------------------
(* Routing: offers at the extremes of what the weights add up. *)

Advert(t, capacity, reputation) ==
    [owner |-> IF t = 3 THEN 2 ELSE 1, tentacle |-> t, health |-> "Healthy",
     lifecycle |-> "Ready", capabilities |-> {"chat"}, protocols |-> {1},
     capacity |-> capacity, available |-> capacity - 1, load_per_mille |-> 0,
     allowlisted |-> TRUE, registry |-> TRUE, reputation |-> reputation]

\* Small and large, well and badly reputed, and one each that some hard
\* requirement refuses.
MCAdvertisement ==
    {Advert(t, c, r) : t \in 1..3, c \in {20, 20000}, r \in {-1000, 1000}}
    \cup {[Advert(2, 20, 0) EXCEPT !.lifecycle = "Draining"],
          [Advert(2, 20, 0) EXCEPT !.load_per_mille = 950],
          [Advert(3, 20, 0) EXCEPT !.capabilities = {}],
          [Advert(3, 20, 0) EXCEPT !.allowlisted = FALSE]}

BaseRequest ==
    [required |-> {"chat"}, protocols |-> {1}, require_allowlisted |-> TRUE,
     require_registry |-> FALSE, minimum_reputation |-> -1000,
     explicit_tentacle |-> NoTentacle, explicit_cthulhu |-> NoTentacle,
     affinity_tentacle |-> NoTentacle, home_tentacle |-> NoTentacle, owned |-> {},
     maximum_load_percent |-> 90]

MCRequest ==
    {BaseRequest,
     [BaseRequest EXCEPT !.explicit_tentacle = 1, !.affinity_tentacle = 2,
                         !.home_tentacle = 2, !.owned = {2, 3}],
     [BaseRequest EXCEPT !.explicit_cthulhu = 2, !.affinity_tentacle = 1],
     [BaseRequest EXCEPT !.affinity_tentacle = 1, !.home_tentacle = 3, !.owned = {3}],
     [BaseRequest EXCEPT !.owned = {1}]}

Routing ==
    INSTANCE Routing WITH
        Advertisement <- MCAdvertisement, Request <- MCRequest,
        MAX_CANDIDATES <- 3, MaxOffers <- 3

-----------------------------------------------------------------------------
(* Transport. *)

E(id, council, sender, sequence) ==
    [id |-> id, council |-> council, sender |-> sender, sequence |-> sequence,
     sent_at |-> 0, expires_at |-> 3]

\* One sender's three messages to one council and one to another, and two messages
\* of another sender, one with a used id.
MCEnvelope ==
    {E("m1", "x", "a", 1), E("m2", "x", "a", 2), E("m3", "x", "a", 3),
     E("m4", "y", "a", 1), E("m1", "x", "b", 1), E("m5", "y", "b", 1)}

MCFollows == [c \in Subscriber |-> "x"]

-----------------------------------------------------------------------------
(* Registry. *)

Listed(t, inbox, active) ==
  [tentacle_id |-> t, xmtp_inbox |-> inbox, active |-> active]

\* Every Tentacle submits records without an endpoint, with one on either
\* inbox, switched on or off, and with both.
EndpointSets(t) ==
  {{}, {Listed(t, "i1", TRUE)}, {Listed(t, "i2", FALSE)},
   {Listed(t, "i1", TRUE), Listed(t, "i2", TRUE)}}

Records ==
  UNION {[id: {t}, endpoints: EndpointSets(t), active: {TRUE},
          metadata_version: 0..2] : t \in {"t1", "t2", "t3"}}
  \cup {[id |-> "t1", endpoints |-> {Listed("t2", "i1", TRUE)},
         active |-> TRUE, metadata_version |-> 1]}

Profile(c, endpoints) ==
  [id |-> c, endpoints |-> endpoints, active |-> TRUE, metadata_version |-> 1]

\* Version-1 documents: empty, one profile, two, and the four that migration
\* must refuse: two Tentacles in a profile, none, one Tentacle in two
\* profiles, one inbox in two profiles.
Documents ==
  {{},
   {Profile("c1", {Listed("t1", "i1", TRUE)})},
   {Profile("c1", {Listed("t1", "i1", TRUE)}),
    Profile("c2", {Listed("t2", "i2", TRUE)})},
   {Profile("c1", {Listed("t1", "i1", TRUE), Listed("t2", "i2", TRUE)})},
   {Profile("c1", {})},
   {Profile("c1", {Listed("t1", "i1", TRUE)}),
    Profile("c2", {Listed("t1", "i2", TRUE)})},
   {Profile("c1", {Listed("t1", "i1", TRUE)}),
    Profile("c2", {Listed("t2", "i1", TRUE)})}}

-----------------------------------------------------------------------------
ASSUME ServicesAssumption ==
  /\ Routing!RoutingParameters

routingVars == <<request, offers>>

servicesVars == <<vars, routingVars, transportVars, registryVars, traitsVars,
                  workspaceVars, eyeVars, donationVars, part>>

\* Only the exercised component's initial states are varied.
ServicesInit ==
  /\ part \in {"store", "routing", "transport", "registry", "traits", "workspace",
              "eye", "donations"}
  /\ Init /\ TransportInit
  /\ Routing!Init /\ (part = "routing" \/ request = BaseRequest)
  /\ RegistryInit /\ (part = "registry" \/ migration = NoMigration)
  /\ TraitsInit /\ (part = "traits" \/ owner = "w1")
  /\ WorkspaceInit /\ (part = "workspace" \/ (repo = "none" /\ work["f"] = 0))
  /\ EyeInit /\ (part = "eye" \/ held["a"][0] = {1})
  /\ DonationInit /\ (part = "donations" \/ file = None)

\* The rest of the parts stays as it is.
Only(p, others) == part = p /\ UNCHANGED part /\ UNCHANGED others

ServicesNext ==
  \/ Only("store", <<routingVars, transportVars, registryVars, traitsVars,
                      workspaceVars, eyeVars, donationVars>>) /\ Next
  \/ Only("routing", <<vars, transportVars, registryVars, traitsVars,
                        workspaceVars, eyeVars, donationVars>>) /\ Routing!Next
  \/ Only("transport", <<vars, routingVars, registryVars, traitsVars,
                          workspaceVars, eyeVars, donationVars>>) /\ TransportNext
  \/ Only("registry", <<vars, routingVars, transportVars, traitsVars,
                         workspaceVars, eyeVars, donationVars>>) /\ RegistryNext
  \/ Only("traits", <<vars, routingVars, transportVars, registryVars,
                       workspaceVars, eyeVars, donationVars>>) /\ TraitsNext
  \/ Only("workspace", <<vars, routingVars, transportVars, registryVars, traitsVars,
                          eyeVars, donationVars>>) /\ WorkspaceNext
  \/ Only("eye", <<vars, routingVars, transportVars, registryVars, traitsVars,
                    workspaceVars, donationVars>>) /\ EyeNext
  \/ Only("donations", <<vars, routingVars, transportVars, registryVars, traitsVars,
                          workspaceVars, eyeVars>>) /\ DonationNext

ServicesSpec == ServicesInit /\ [][ServicesNext]_servicesVars

-----------------------------------------------------------------------------
(* Properties, as stated in their modules. *)

\* "The tie-breaker uses stable identifiers, not arrival order": the decision,
\* refusals included, is the same for every order in which offers arrive; an
\* eligible explicitly chosen Tentacle is selected whatever the others add up to,
\* and without an explicit choice one with the session's affinity is.
SelectionSound ==
    part = "routing" =>
        /\ Routing!ArrivalOrderIrrelevant
        /\ Routing!ExplicitChoiceWins
        /\ Routing!AffinityKept
=============================================================================
