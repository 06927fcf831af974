------------------------------ MODULE Registry ------------------------------
(***************************************************************************)
(* LocalRegistry (registry.rs): the public record of each durable Tentacle *)
(* identity and the XMTP inboxes it answers on.  It starts empty or from a *)
(* version-1 document that is migrated, takes versioned updates, and is    *)
(* saved and reloaded inside the Council's snapshot.                       *)
(*                                                                         *)
(* Names, capability references and trust signals are only length-checked  *)
(* and are left out; a record is its endpoints, its active flag and its    *)
(* metadata version.                                                       *)
(***************************************************************************)
EXTENDS Integers, FiniteSets

CONSTANTS
  TentacleId, CthulhuId, XmtpInbox,
  Submitted,     \* the RegisteredTentacles callers submit
  Legacy,        \* the version-1 documents found on disk
  MAX_AGENTS, MAX_ENDPOINTS,
  NoRecord, NoMigration

\* RegistryEndpoint and RegisteredTentacle.
RegistryEndpoint ==
  [tentacle_id: TentacleId, xmtp_inbox: XmtpInbox, active: BOOLEAN]

RegisteredTentacle ==
  [id: TentacleId, endpoints: SUBSET RegistryEndpoint, active: BOOLEAN,
   metadata_version: Nat]

\* A version-1 document: legacy profiles under their Cthulhu ids.
LegacyAgent ==
  [id: CthulhuId, endpoints: SUBSET RegistryEndpoint, active: BOOLEAN,
   metadata_version: Nat]

\* Identifiers have a fixed width, and a version-1 document lists one once.
ASSUME RegistryAssumption ==
  /\ IsFiniteSet(TentacleId)
  /\ Submitted \subseteq RegisteredTentacle
  /\ \A doc \in Legacy : /\ doc \subseteq LegacyAgent
                         /\ \A a, b \in doc : a.id = b.id => a = b
  /\ MAX_AGENTS \in Nat
  /\ MAX_ENDPOINTS \in Nat

VARIABLES
  tentacles,   \* TentacleId -> RegisteredTentacle or NoRecord
  migration,   \* the legacy ids a migration recorded, or NoMigration
  disk         \* the saved pair of both, or NoRecord before the first save

registryVars == <<tentacles, migration, disk>>

Known == {t \in TentacleId : tentacles[t] # NoRecord}

\* RegisteredTentacle::validate: endpoints belong to the record's Tentacle
\* and no inbox is listed twice.
Valid(r) ==
  /\ r.metadata_version # 0
  /\ Cardinality(r.endpoints) <= MAX_ENDPOINTS
  /\ \A e \in r.endpoints : e.tentacle_id = r.id
  /\ \A e, f \in r.endpoints : e.xmtp_inbox = f.xmtp_inbox => e = f

Inboxes(r) == {e.xmtp_inbox : e \in r.endpoints}

\* validate_loaded_state, on a pair of maps.
LoadedStateValid(ts, ids) ==
  LET known == {t \in TentacleId : ts[t] # NoRecord} IN
  /\ Cardinality(known) <= MAX_AGENTS
  /\ ids # NoMigration => (ids # {} \/ known = {})
  /\ \A t \in known : ts[t].id = t /\ Valid(ts[t])
  /\ \A t, u \in known :
       t # u => Inboxes(ts[t]) \cap Inboxes(ts[u]) = {}

\* The record a legacy profile becomes: its only endpoint names the Tentacle.
Migrated(agent) ==
  LET endpoint == CHOOSE e \in agent.endpoints : TRUE
  IN  [id |-> endpoint.tentacle_id, endpoints |-> agent.endpoints,
       active |-> agent.active, metadata_version |-> agent.metadata_version]

MigratedMap(doc) ==
  [t \in TentacleId |->
     IF \E a \in doc : Migrated(a).id = t
     THEN Migrated(CHOOSE a \in doc : Migrated(a).id = t) ELSE NoRecord]

\* migrate_v1 succeeds on this document.
MigrationAccepted(doc) ==
  /\ Cardinality(doc) <= MAX_AGENTS
  /\ \A a \in doc : Cardinality(a.endpoints) = 1
  /\ \A a \in doc : Valid(Migrated(a))
  /\ \A a, b \in doc : Migrated(a).id = Migrated(b).id => a = b
  /\ LoadedStateValid(MigratedMap(doc), {a.id : a \in doc})

\* A new registry, or one read from an acceptable version-1 document.
RegistryInit ==
  /\ disk = NoRecord
  /\ \/ /\ tentacles = [t \in TentacleId |-> NoRecord]
        /\ migration = NoMigration
     \/ \E doc \in Legacy :
          /\ MigrationAccepted(doc)
          /\ tentacles = MigratedMap(doc)
          /\ migration = {a.id : a \in doc}

\* Seeded fault: an inbox of another Tentacle may be taken over.
InboxesFreeAlways(r) == TRUE

\* No other Tentacle, active or not, lists one of the record's inboxes.
InboxesFree(r) ==
  \A t \in Known \ {r.id} : Inboxes(tentacles[t]) \cap Inboxes(r) = {}

\* The update is newer than what is registered.
Newer(r) ==
  r.id \in Known => tentacles[r.id].metadata_version < r.metadata_version

\* Seeded fault: the table admits one record too many.
RoomForOneMore(r) == Cardinality(Known) <= MAX_AGENTS \/ r.id \in Known

\* The table is not full, or the record is in it already.
RoomFor(r) == Cardinality(Known) < MAX_AGENTS \/ r.id \in Known

\* register_or_update.
RegisterOrUpdate(r) ==
  /\ Valid(r)
  /\ RoomFor(r)
  /\ Newer(r)
  /\ InboxesFree(r)
  /\ tentacles' = [tentacles EXCEPT ![r.id] = r]
  /\ UNCHANGED <<migration, disk>>

\* The snapshot that holds the registry is written.
Save ==
  /\ disk' = <<tentacles, migration>>
  /\ UNCHANGED <<tentacles, migration>>

\* A restart deserializes the snapshot and refuses an invalid one.
Reload ==
  /\ disk # NoRecord
  /\ LoadedStateValid(disk[1], disk[2])
  /\ tentacles' = disk[1]
  /\ migration' = disk[2]
  /\ UNCHANGED disk

RegistryNext ==
  \/ \E r \in Submitted : RegisterOrUpdate(r)
  \/ Save
  \/ Reload

RegistrySpec == RegistryInit /\ [][RegistryNext]_registryVars

\* verify_endpoint_association.
VerifyEndpointAssociation(t, inbox) ==
  /\ t \in Known
  /\ tentacles[t].active
  /\ \E e \in tentacles[t].endpoints :
       e.active /\ e.tentacle_id = t /\ e.xmtp_inbox = inbox

-----------------------------------------------------------------------------
(* Properties. *)

\* An inbox vouches for one Tentacle at most, whatever updates, migrations
\* and reloads came before.
InboxNamesOneTentacle ==
  \A t, u \in TentacleId, inbox \in XmtpInbox :
    VerifyEndpointAssociation(t, inbox)
      /\ VerifyEndpointAssociation(u, inbox) => t = u

\* What updates and reloads leave behind, in any order, can be loaded again, in
\* a new registry as in a migrated one (register_or_update,
\* validate_loaded_state).  A registry migrated from an empty
\* version-1 document is excepted: its empty provenance beside a Tentacle is
\* refused by validate_loaded_state (see the README).
Reloads == migration # {} => LoadedStateValid(tentacles, migration)

\* The registry of a Council vouches for what it says, and survives a restart.
RegistrySound == InboxNamesOneTentacle /\ Reloads
=============================================================================
