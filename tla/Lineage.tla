------------------------------ MODULE Lineage ------------------------------
(***************************************************************************)
(* The family of a Tentacle: a tree of the children it and its descendants *)
(* provisioned, with the Nature each inherited, and the absorptions of one *)
(* by another.  Every change is saved whole and every load checks the tree *)
(* against its own mutation records, so an operation that the checks of    *)
(* the load refuse leaves a Tentacle that never opens again.  Clocks may   *)
(* be set back between two operations.                                     *)
(***************************************************************************)
EXTENDS Naturals, Sequences, FiniteSets

CONSTANTS
  Tentacle,   \* identifiers of the family's members
  Root,       \* the local Tentacle
  Parent,     \* the parent that provisioned the root, or None
  NatureId,   \* identifiers of Natures
  MaxTime,    \* bound: the clock
  None

\* No descendant is named like the parent of the root: nothing in the code keeps
\* an operator from doing so.
LineageParameters == Root \in Tentacle /\ Parent \notin Tentacle


VARIABLES
  nodes,       \* Tentacle -> its node, for the Tentacles that exist
  spawns,      \* the spawn records
  absorptions, \* the absorption records
  revision

vars == <<nodes, spawns, absorptions, revision>>

Time == 0..MaxTime
Active == [is |-> "active"]
Absorbed(into, at) == [is |-> "absorbed", into |-> into, at |-> at]
IsActive(t) == nodes[t].lifecycle = Active

Node(parent, nature, at) ==
  [parent |-> parent, nature |-> nature, spawned |-> at, children |-> {}, lifecycle |-> Active]

Nature(id, generation, parent) == [id |-> id, generation |-> generation, parent |-> parent]

\* A founder has no parent; an inherited root carries its parent's metadata.
RootNatures ==
  IF Parent = None THEN {Nature(id, 0, None) : id \in NatureId}
  ELSE {Nature(id, 1, p) : id \in NatureId, p \in NatureId}

Init ==
  /\ \E nature \in RootNatures, at \in Time :
       nodes = [t \in {Root} |-> Node(None, nature, at)]
  /\ spawns = <<>> /\ absorptions = <<>> /\ revision = 0

-----------------------------------------------------------------------------
(* What a load checks. *)

ValidRoot ==
  /\ Root \in DOMAIN nodes
  /\ nodes[Root].parent = None
  /\ LET n == nodes[Root].nature
     IN IF Parent = None THEN n.generation = 0 /\ n.parent = None
        ELSE Parent # Root /\ n.generation > 0 /\ n.parent # None

ValidEdges(t) ==
  LET node == nodes[t]
  IN /\ node.parent = None <=> t = Root
     /\ node.parent # None =>
          /\ node.parent \in DOMAIN nodes \ {t}
          /\ LET p == nodes[node.parent]
             IN /\ t \in p.children
                /\ node.nature.generation = p.nature.generation + 1
                /\ node.spawned >= p.spawned
                /\ p.lifecycle # Active => node.spawned <= p.lifecycle.at
          /\ \E i \in DOMAIN spawns :
               /\ spawns[i].child = t /\ spawns[i].parent = node.parent
               /\ node.nature.parent = spawns[i].parentNature
     /\ \A c \in node.children : c \in DOMAIN nodes /\ nodes[c].parent = t
     /\ node.lifecycle # Active => node.lifecycle.at >= node.spawned

\* The nodes within n edges of the root.
Within[n \in Nat] ==
  IF n = 0 THEN {Root}
  ELSE Within[n - 1] \cup UNION {nodes[t].children : t \in Within[n - 1] \cap DOMAIN nodes}

ValidSpawn(i) ==
  LET r == spawns[i]
  IN /\ r.child \in DOMAIN nodes \ {Root}
     /\ \A j \in 1..(i - 1) : spawns[j].child # r.child
     /\ LET c == nodes[r.child]
        IN /\ c.parent = r.parent /\ c.spawned = r.at
           /\ c.nature = Nature(r.childNature, r.generation, r.parentNature)

ToParent(source, target) == source = Root /\ Parent # None /\ target = Parent

ValidAbsorption(i) ==
  LET r == absorptions[i]
      gone == {absorptions[j].source : j \in 1..(i - 1)}
      local == r.target \in DOMAIN nodes
  IN /\ r.source # r.target
     /\ i > 1 => r.at >= absorptions[i - 1].at
     /\ r.source \in DOMAIN nodes \ gone
     /\ local \/ ToParent(r.source, r.target)
     /\ local => r.target \notin gone /\ r.at >= nodes[r.target].spawned
     /\ r.at >= nodes[r.source].spawned

Lifecycles ==
  \A t \in DOMAIN nodes :
    LET records == {i \in DOMAIN absorptions : absorptions[i].source = t}
    IN IF IsActive(t) THEN records = {}
       ELSE \E i \in records :
              nodes[t].lifecycle = Absorbed(absorptions[i].target, absorptions[i].at)

ValidState ==
  /\ Len(spawns) = Cardinality(DOMAIN nodes) - 1
  /\ revision = Len(spawns) + Len(absorptions)
  /\ ValidRoot
  /\ \A t, u \in DOMAIN nodes : t # u => nodes[t].nature.id # nodes[u].nature.id
  /\ \A t \in DOMAIN nodes : ValidEdges(t)
  /\ Within[Cardinality(DOMAIN nodes)] = DOMAIN nodes
  /\ \A i \in DOMAIN spawns : ValidSpawn(i)
  /\ \A i \in DOMAIN absorptions : ValidAbsorption(i)
  /\ Lifecycles

-----------------------------------------------------------------------------
(* The operations. *)

\* A signed adjustment, reroll or new epoch of the root; the children keep the
\* ancestry they were born with.
UpdateRootNature(nature) ==
  /\ nature \in RootNatures
  /\ nature.generation = nodes[Root].nature.generation
  /\ \A t \in DOMAIN nodes \ {Root} : nodes[t].nature.id # nature.id
  /\ nodes' = [nodes EXCEPT ![Root].nature = nature]
  /\ UNCHANGED <<spawns, absorptions, revision>>

\* Once its executor's receipt arrived, a provisioned child enters the family.
RecordProvisionedChild(parent, child, id, at) ==
  /\ parent \in DOMAIN nodes /\ IsActive(parent)
  /\ child \notin DOMAIN nodes
  /\ at >= nodes[parent].spawned
  /\ \A t \in DOMAIN nodes : nodes[t].nature.id # id
  /\ LET p == nodes[parent].nature
         nature == Nature(id, p.generation + 1, p.id)
         grown == [nodes EXCEPT ![parent].children = @ \cup {child}]
     IN /\ nodes' = [t \in DOMAIN nodes \cup {child} |->
                       IF t = child THEN Node(parent, nature, at) ELSE grown[t]]
        /\ spawns' = Append(spawns,
             [parent |-> parent, parentNature |-> p.id, child |-> child,
              childNature |-> id, generation |-> nature.generation, at |-> at])
  /\ revision' = revision + 1
  /\ UNCHANGED absorptions

Chronological(at) == absorptions # <<>> => at >= absorptions[Len(absorptions)].at

\* A mutant: only the source's own birth is asked about.
OutlivesItself(source, at) == at >= nodes[source].spawned

\* An absorption follows the births of the source and of its children.
Outlives(source, at) ==
  /\ at >= nodes[source].spawned
  /\ \A c \in nodes[source].children : at >= nodes[c].spawned

Absorb(source, target, at) ==
  /\ nodes' = [nodes EXCEPT ![source].lifecycle = Absorbed(target, at)]
  /\ absorptions' = Append(absorptions, [source |-> source, target |-> target, at |-> at])
  /\ revision' = revision + 1
  /\ UNCHANGED spawns

RecordAbsorption(target, source, at) ==
  /\ {source, target} \subseteq DOMAIN nodes /\ source # target
  /\ Chronological(at)
  /\ IsActive(target) /\ IsActive(source)
  /\ at >= nodes[target].spawned
  /\ Outlives(source, at)
  /\ Absorb(source, target, at)

\* The parent is no node of the local family.
RecordExternalParentAbsorption(at) ==
  /\ Parent # None
  /\ Chronological(at)
  /\ IsActive(Root)
  /\ Outlives(Root, at)
  /\ Absorb(Root, Parent, at)

Next ==
  \/ \E nature \in RootNatures : UpdateRootNature(nature)
  \/ \E at \in Time :
       \/ \E parent, child \in Tentacle, id \in NatureId :
            RecordProvisionedChild(parent, child, id, at)
       \/ \E target, source \in Tentacle : RecordAbsorption(target, source, at)
       \/ RecordExternalParentAbsorption(at)

Spec == Init /\ [][Next]_vars

-----------------------------------------------------------------------------
\* Whatever the order of births, rerolls and absorptions, and however the
\* clock stood at each, the family that was saved is one that loads again.
FamilyReloads == ValidState
=============================================================================
