------------------------------ MODULE JsonTrees ------------------------------
(***************************************************************************)
(* The JSON trees of a workload identity and of client_workload_details    *)
(* (py/src/aembit_edge/client.py), and one level of what is done with      *)
(* them: what is inside comes as a parameter, so that these operators serve*)
(* both to define the recursion for TLC and to say what a proof assumes.   *)
(* An object is a function on its keys; scalars are not looked into.       *)
(***************************************************************************)
EXTENDS Integers, SequencesExt

Scalar(v) == [kind |-> "scalar", value |-> v]
List(items) == [kind |-> "list", items |-> items]
Object(members) == [kind |-> "object", members |-> members]

\* What JSON has no form for: a float that is not finite, bytes, a set.
Junk == [kind |-> "junk"]

IsObject(v) == v.kind = "object"

-----------------------------------------------------------------------------
(* Laying an overlay under a base *)

\* Where both sides have an object.
MeetingKeys(base, overlay) ==
    {k \in DOMAIN base.members \cap DOMAIN overlay.members :
        IsObject(base.members[k]) /\ IsObject(overlay.members[k])}

AllKeys(base, overlay) == DOMAIN base.members \cup DOMAIN overlay.members

\* Mutant: the details replace what the provider collected.
OverlayWins(base, overlay, merged) ==
    Object([k \in AllKeys(base, overlay) |->
        IF k \notin DOMAIN overlay.members THEN base.members[k]
        ELSE IF k \in DOMAIN merged THEN merged[k] ELSE overlay.members[k]])

\* Mutant: only top-level keys are merged.
TopLevelOnly(base, overlay, merged) ==
    Object([k \in AllKeys(base, overlay) |->
        IF k \in DOMAIN base.members THEN base.members[k] ELSE overlay.members[k]])

\* _merge_mappings, given what the objects that meet at a key are merged to:
\* elsewhere the base's value stays.
MergeMappings(base, overlay, merged) ==
    Object([k \in AllKeys(base, overlay) |->
        IF k \notin DOMAIN base.members THEN overlay.members[k]
        ELSE IF k \in DOMAIN merged THEN merged[k] ELSE base.members[k]])

-----------------------------------------------------------------------------
(* The reference definition: a tree as the set of its nodes, each a path   *)
(* from the root with what stands there.                                   *)

InnerNode == [kind |-> "object"]

\* Nodes, seen from a place one key further up.
Below(key, nodes) == {<< <<key>> \o n[1], n[2] >> : n \in nodes}

\* The nodes at a key and below it, by the nodes of the object there.
NodesAt(key, value, nodesOf(_)) ==
    IF IsObject(value)
    THEN {<< <<key>>, InnerNode >>} \cup Below(key, nodesOf(value))
    ELSE {<< <<key>>, value >>}

NodesByKey(object, nodesOf(_)) ==
    UNION {NodesAt(k, object.members[k], nodesOf) : k \in DOMAIN object.members}

\* Every node of the base stays as it is; one of the overlay is added where the
\* base has nothing, neither there nor in the form of a leaf above.
MergedNodes(own, added) ==
    own \cup {n \in added :
                 \A m \in own : IsPrefix(m[1], n[1]) => m[1] # n[1] /\ m[2] = InnerNode}
=============================================================================
