--------------------------- MODULE MCEdgeClientTs ---------------------------
(* Values for EdgeClientTs's function constants, for TLC. *)
EXTENDS EdgeClientTs, TLC

\* Token providers: the cache key is a digest of the identity's token.
DigestKey == [i \in Identities |-> i]

\* Metadata and AWS role providers: they send no cache key.
NoKey == [i \in Identities |-> Undefined]

\* Calls are alike, and so are identities that each have a key of their own.
AlikeCallsAndIdentities == Permutations(Calls) \cup Permutations(Identities)
=============================================================================
