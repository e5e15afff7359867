--------------------------- MODULE WorkloadDetails ---------------------------
(***************************************************************************)
(* The recursive functions on workload details as TLC evaluates them:      *)
(* which trees the client accepts, how it lays the details under the       *)
(* identity (py/src/aembit_edge/client.py), and the nodes of a tree.       *)
(***************************************************************************)
EXTENDS JsonTrees

CONSTANTS
    TextKeys,   \* keys that are strings
    OddKeys     \* keys that are not

ASSUME KeysAssumption == TextKeys \cap OddKeys = {}

\* Objects over keys and values: any selection of keys, any values.
ObjectsOver(keys, values) == {Object(f) : f \in UNION {[K -> values] : K \in SUBSET keys}}

-----------------------------------------------------------------------------
\* _normalize_json_value: the value comes back as an equal copy, or is refused
\* for something inside it, however deep.
RECURSIVE IsJsonValue(_)
IsJsonValue(v) ==
    \/ v.kind = "scalar"
    \/ v.kind = "list" /\ \A i \in DOMAIN v.items : IsJsonValue(v.items[i])
    \/ IsObject(v) /\ \A k \in DOMAIN v.members :
                         k \in TextKeys /\ IsJsonValue(v.members[k])

\* _sanitize_workload_data
IsClean(v) == IsObject(v) /\ IsJsonValue(v)

\* _merge_client_workload_details, of an identity with details that are given.
RECURSIVE MergeClientWorkloadDetails(_, _)
MergeClientWorkloadDetails(identity, details) ==
    MergeMappings(identity, details,
        [k \in MeetingKeys(identity, details) |->
            MergeClientWorkloadDetails(identity.members[k], details.members[k])])

\* The nodes of an object.
RECURSIVE TreeNodes(_)
TreeNodes(object) == NodesByKey(object, TreeNodes)

\* How many objects stand in one another.
RECURSIVE TreeDepth(_)
TreeDepth(object) ==
    LET inner == {k \in DOMAIN object.members : IsObject(object.members[k])} IN
    IF inner = {} THEN 0 ELSE 1 + Max({TreeDepth(object.members[k]) : k \in inner})
=============================================================================
