--------------------------- MODULE MCEdgeClientPy ---------------------------
(* Values for EdgeClientPy's function constants, for TLC. *)
EXTENDS EdgeClientPy, TLC

\* A provider that tells its identities apart, as a custom one may.
KeyPerIdentity == [i \in Identities |-> i]

\* The built-in providers: they send no cache key.
NoKey == [i \in Identities |-> Nothing]

\* Threads are alike, and so are identities that each have a key of their own.
AlikeThreadsAndIdentities == Permutations(Threads) \cup Permutations(Identities)
=============================================================================
