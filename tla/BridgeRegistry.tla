--------------------------- MODULE BridgeRegistry ---------------------------
(***************************************************************************)
(* pallet-bridge-registry (pallets/bridge-registry/src): the resources     *)
(* that signed anchor updates link form bridges.                           *)
(*                                                                         *)
(* The proposal handler calls on_signed_proposal and ignores its result,   *)
(* so what it wrote before an error stays written.  Index 0 is "none", as  *)
(* unwrap_or_default makes it.                                             *)
(***************************************************************************)
EXTENDS Integers, FiniteSets, Sequences

CONSTANTS
  Resource,
  Info,            \* what root may set as a bridge's metadata
  Default,         \* BridgeInfo::default()
  MaxResources,
  MaxBridgeIndex   \* bound of the model: indices root uses and updates reach

ASSUME RegistryAssumption ==
  /\ Default \in Info
  /\ MaxResources \in Nat /\ MaxResources >= 2
  /\ MaxBridgeIndex \in Nat

VARIABLES
  NextBridgeIndex,
  Bridges,                \* index -> [resource_ids, info]
  ResourceToBridgeIndex,  \* resource -> index
  result,                 \* of the last call
  linked,                 \* pairs that updates linked, until root intervenes
  reset                   \* resources whose index root has set

storage == <<NextBridgeIndex, Bridges, ResourceToBridgeIndex>>
registryVars == <<storage, result, linked, reset>>

Index == 0 .. MaxBridgeIndex
Metadata == [resource_ids : Seq(Resource), info : Info]

Members(metadata) ==
  {metadata.resource_ids[i] : i \in 1 .. Len(metadata.resource_ids)}

Put(map, k, v) ==
  [x \in DOMAIN map \cup {k} |-> IF x = k THEN v ELSE map[x]]

\* No bridges at genesis; those of a chain specification are as updates could
\* have built them.
RegistryInit ==
  /\ NextBridgeIndex = 1
  /\ Bridges = [i \in {} |-> {}]
  /\ ResourceToBridgeIndex = [r \in Resource |-> 0]
  /\ result = "Ok"
  /\ linked = {}
  /\ reset = {}
-----------------------------------------------------------------------------
(* Calls of root *)

set_metadata(i, info) ==
  /\ Bridges' =
       Put(Bridges, i,
           [resource_ids |-> IF i \in DOMAIN Bridges
                             THEN Bridges[i].resource_ids ELSE << >>,
            info |-> info])
  /\ result' = "Ok"
  /\ UNCHANGED <<NextBridgeIndex, ResourceToBridgeIndex, linked, reset>>

\* Bridges keep their lists.
force_reset_indices(rids, i) ==
  /\ Cardinality(rids) <= MaxResources
  /\ ResourceToBridgeIndex' =
       [r \in Resource |-> IF r \in rids THEN i ELSE ResourceToBridgeIndex[r]]
  /\ reset' = reset \cup rids
  /\ linked' = {}
  /\ result' = "Ok"
  /\ UNCHANGED <<NextBridgeIndex, Bridges>>
-----------------------------------------------------------------------------
(* on_signed_proposal, for a signed anchor update from src to dest *)

\* Mutant of NewBridge: only one of the two is recorded.
NewBridgeOfOne(src, dest) ==
  /\ ResourceToBridgeIndex' =
       [ResourceToBridgeIndex EXCEPT ![src] = NextBridgeIndex,
                                     ![dest] = NextBridgeIndex]
  /\ Bridges' = Put(Bridges, NextBridgeIndex,
                    [resource_ids |-> <<src>>, info |-> Default])
  /\ NextBridgeIndex' = NextBridgeIndex + 1
  /\ result' = "Ok"

\* Neither resource has a bridge.
NewBridge(src, dest) ==
  /\ ResourceToBridgeIndex' =
       [ResourceToBridgeIndex EXCEPT ![src] = NextBridgeIndex,
                                     ![dest] = NextBridgeIndex]
  /\ Bridges' = Put(Bridges, NextBridgeIndex,
                    [resource_ids |-> <<src, dest>>, info |-> Default])
  /\ NextBridgeIndex' = NextBridgeIndex + 1
  /\ result' = "Ok"

\* One of them has a bridge, i; the other, r, joins it.  The index is written
\* before the bridge is looked up.
JoinBridge(r, i) ==
  /\ ResourceToBridgeIndex' = [ResourceToBridgeIndex EXCEPT ![r] = i]
  /\ \/ /\ i \notin DOMAIN Bridges
        /\ result' = "BridgeNotFound"
        /\ UNCHANGED Bridges
     \/ /\ i \in DOMAIN Bridges
        /\ Len(Bridges[i].resource_ids) >= MaxResources
        /\ result' = "TooManyResources"
        /\ UNCHANGED Bridges
     \/ /\ i \in DOMAIN Bridges
        /\ Len(Bridges[i].resource_ids) < MaxResources
        /\ result' = "Ok"
        /\ Bridges' = [Bridges EXCEPT ![i].resource_ids = Append(@, r)]
  /\ UNCHANGED NextBridgeIndex

\* Mutant: different bridges are not noticed.
AcceptAcross(src, dest) == result' = "Ok" /\ UNCHANGED storage

\* Both have a bridge, which must be the same.
BothAssigned(src, dest) ==
  /\ result' =
       IF ResourceToBridgeIndex[src] = ResourceToBridgeIndex[dest]
       THEN "Ok" ELSE "BridgeIndexError"
  /\ UNCHANGED storage

on_signed_proposal(src, dest) ==
  LET s == ResourceToBridgeIndex[src]
      d == ResourceToBridgeIndex[dest]
  IN  /\ \/ s = 0 /\ d = 0 /\ NextBridgeIndex <= MaxBridgeIndex
                  /\ NewBridge(src, dest)
         \/ s = 0 /\ d # 0 /\ JoinBridge(src, d)
         \/ s # 0 /\ d = 0 /\ JoinBridge(dest, s)
         \/ s # 0 /\ d # 0 /\ BothAssigned(src, dest)
      /\ linked' = IF result' = "BridgeIndexError" \/ reset # {} THEN linked
                   ELSE linked \cup {{src, dest}}
      /\ UNCHANGED reset
-----------------------------------------------------------------------------
RegistryNext ==
  \/ \E i \in Index, info \in Info : set_metadata(i, info)
  \/ \E rids \in (SUBSET Resource) \ {{}}, i \in Index : force_reset_indices(rids, i)
  \/ \E src, dest \in Resource : on_signed_proposal(src, dest)

RegistrySpec == RegistryInit /\ [][RegistryNext]_registryVars
-----------------------------------------------------------------------------
(* Properties *)

\* Every storage item holds values of its type, and a bridge keeps to
\* MaxResources (BoundedVec).
RegistryTypeOK ==
  /\ NextBridgeIndex \in 1 .. MaxBridgeIndex + 1
  /\ DOMAIN Bridges \subseteq Index
  /\ \A i \in DOMAIN Bridges : /\ Bridges[i] \in Metadata
                               /\ Len(Bridges[i].resource_ids) <= MaxResources
  /\ ResourceToBridgeIndex \in [Resource -> Index]
  /\ linked \subseteq SUBSET Resource
  /\ reset \subseteq Resource

\* The two maps agree for every resource whose index root has left alone: a
\* bridge lists only resources that map to it, it exists if one maps to it,
\* and it then lists that resource, unless it is full.  (A resource that root
\* moves may lead others to a bridge without a record.)
MapsAgree ==
  /\ \A i \in DOMAIN Bridges :
       \A r \in Members(Bridges[i]) \ reset : ResourceToBridgeIndex[r] = i
  /\ reset = {} =>
       \A r \in Resource :
         LET i == ResourceToBridgeIndex[r]
         IN  i # 0 =>
               /\ i < NextBridgeIndex
               /\ i \in DOMAIN Bridges
               /\ \/ r \in Members(Bridges[i])
                  \/ Len(Bridges[i].resource_ids) = MaxResources

\* r and s are connected by updates that were not refused.
Connected(r, s) ==
  \A S \in SUBSET Resource :
    /\ r \in S
    /\ \A pair \in linked : pair \subseteq S \/ pair \cap S = {}
    => s \in S

\* As long as root leaves the indices alone, bridges are the connected
\* components of the updates: two resources share an index exactly if updates
\* connect them (on_signed_proposal).
BridgesAreComponents ==
  reset = {} =>
    \A r, s \in {x \in Resource : ResourceToBridgeIndex[x] # 0} :
      ResourceToBridgeIndex[r] = ResourceToBridgeIndex[s] <=> Connected(r, s)

\* The strengthening that makes the two invariants above inductive: index 0 is
\* never a bridge with resources, and linked resources share a bridge.
LinkedShare ==
  /\ 0 \in DOMAIN Bridges => Bridges[0].resource_ids = << >>
  /\ \A pair \in linked : \A r, s \in pair :
       /\ ResourceToBridgeIndex[r] = ResourceToBridgeIndex[s]
       /\ ResourceToBridgeIndex[r] # 0

\* Updates never move a resource from one bridge to another; only root does
\* (force_reset_indices).
AssignedStays ==
  [][\A r \in Resource :
       \/ ResourceToBridgeIndex[r] = 0
       \/ ResourceToBridgeIndex'[r] = ResourceToBridgeIndex[r]
       \/ r \in reset']_registryVars
=============================================================================
