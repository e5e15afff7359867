------------------------ MODULE MCIdentityCollection ------------------------
(* IdentityCollection with the recursive functions of WorkloadDetails and  *)
(* small trees, for TLC.                                                   *)
EXTENDS IdentityCollection, WorkloadDetails

Keys == {Namespace, TokenField}
OddKeySet == {"odd"}

\* Trees two levels deep, clean and not.
Leaves == {Scalar(-1), List(<<Scalar(-1)>>)}
InnerObjects == ObjectsOver(Keys, {Scalar(-1)})
Trees ==
    ObjectsOver(Keys, Leaves \cup InnerObjects
                        \cup {List(<<Junk>>), Object([k \in OddKeySet |-> Scalar(-1)])})

SomeDetails == Trees \cup {Nothing, Junk}
SomeClients == Trees \cup {ProofOf(v) : v \in 0 .. MaxVersion}

\* The clean ones and what stands in them, closed under merging.
Values == {Scalar(v) : v \in -1 .. MaxVersion}
AllClients == ObjectsOver(Keys, Values \cup Leaves \cup ObjectsOver(Keys, Values))
=============================================================================
