------------------------- MODULE EdgeClientPyProofs -------------------------
(***************************************************************************)
(* Theorems about the Python client, for any number of threads, calls,     *)
(* Resource Sets, retry policies, identities and keys.                     *)
(***************************************************************************)
EXTENDS EdgeClientPy, TLAPS

\* Where each location stands in a call, and what a thread there refers to.
CallShape(t) ==
    /\ pc[t] # "idle" => callNo[t] \in 1 .. MaxCalls
    /\ kind[t] = "auth" => identity[t] \in Identities
    /\ pc[t] \in {"idle", "collect"} => kind[t] = "identity"
    /\ pc[t] \in {"lookup", "acquire", "store", "clear", "settle", "credentials"}
         => kind[t] = "auth"
    /\ pc[t] = "wait" => joined[t] \in FlightIds /\ joined[t][3] = kind[t]

\* A flight yields what its kind promises.
FlightShape(f) ==
    flights[f].result \in
        (IF f[3] = "identity" THEN Identities ELSE CachedTokenStates) \cup {Nothing}

\* A leader's flight is its own, and the table's entry for its key until it is
\* retired; by then its waiters are released.
LeaderOwnsEntry(t) ==
    /\ pc[t] \in Leading =>
         /\ joined[t] = OwnFlight(t)
         /\ inFlight[KeyOf(t)] = OwnFlight(t)
    /\ pc[t] = "retire" => flights[joined[t]].done

\* The inductive invariant of the single-flight tables.
TablesInv ==
    /\ TypeOK
    /\ \A t \in Threads : CallShape(t)
    /\ \A f \in FlightIds : FlightShape(f)
    /\ \A t \in Threads : LeaderOwnsEntry(t)
    /\ EntriesHaveLeaders
    /\ NoOrphanedWaiter

-----------------------------------------------------------------------------
(* Types *)

\* The key a call coalesces under, once it has what the key is made of.
LEMMA KeyType ==
    ASSUME ClientAssumption, TypeOK, NEW t \in Threads, CallShape(t)
    PROVE  /\ KeyOf(t) \in FlightKeys
           /\ kind[t] = "auth" => KeyOf(t) \in AuthKeys /\ KeyOf(t) # IdentityKey
           /\ pc[t] # "idle" => OwnFlight(t) \in FlightIds
  <1>1. kind[t] = "auth" => AuthSingleFlightKey(t) \in AuthKeys
    BY DEF ClientAssumption, TypeOK, CallShape, AuthSingleFlightKey, AuthKeys, Requests
  <1>2. IdentityKey \notin AuthKeys
    BY DEF ClientAssumption, AuthKeys
  <1>3. pc[t] # "idle" => OwnFlight(t) \in FlightIds
    BY DEF TypeOK, CallShape, OwnFlight, FlightIds
  <1> QED BY <1>1, <1>2, <1>3 DEF KeyOf, FlightKeys, TypeOK, Kinds

\* A call that ends, or goes on with its identity or its session, stays typed.
LEMMA EndCallType ==
    ASSUME ClientAssumption, TypeOK, NEW t \in Threads, EndCall(t)
    PROVE  /\ pc' \in [Threads -> Locations]
           /\ kind' \in [Threads -> Kinds]
           /\ request' \in [Threads -> Requests]
           /\ identity' \in [Threads -> Identities \cup {Nothing}]
           /\ joined' \in [Threads -> FlightIds \cup {Nothing}]
           /\ session' \in [Threads -> CachedTokenStates \cup {Nothing}]
  BY DEF ClientAssumption, TypeOK, EndCall, GoTo, Locations, Kinds, NoRequest, Requests

\* So does a call that has its identity ...
LEMMA UseIdentityType ==
    ASSUME TypeOK, NEW t \in Threads, NEW i \in Identities, UseIdentity(t, i)
    PROVE  /\ pc' \in [Threads -> Locations]
           /\ kind' \in [Threads -> Kinds]
           /\ request' \in [Threads -> Requests]
           /\ identity' \in [Threads -> Identities \cup {Nothing}]
           /\ joined' \in [Threads -> FlightIds \cup {Nothing}]
           /\ session' \in [Threads -> CachedTokenStates \cup {Nothing}]
  BY DEF TypeOK, UseIdentity, GoTo, Locations, Kinds

\* ... and one that has its session.
LEMMA UseSessionType ==
    ASSUME ClientAssumption, TypeOK, NEW t \in Threads,
           NEW s \in CachedTokenStates, UseSession(t, s)
    PROVE  /\ pc' \in [Threads -> Locations]
           /\ kind' \in [Threads -> Kinds]
           /\ request' \in [Threads -> Requests]
           /\ identity' \in [Threads -> Identities \cup {Nothing}]
           /\ joined' \in [Threads -> FlightIds \cup {Nothing}]
           /\ session' \in [Threads -> CachedTokenStates \cup {Nothing}]
  <1>1. CASE request[t].force
    BY <1>1, EndCallType DEF UseSession
  <1>2. CASE ~request[t].force
    BY <1>2 DEF TypeOK, UseSession, GoTo, Locations
  <1> QED BY <1>1, <1>2

\* What a finished flight gives a thread is of the kind the thread waits for.
LEMMA OutcomeCases ==
    ASSUME TypeOK, NEW t \in Threads, NEW f \in FlightIds,
           FlightShape(f), f[3] = kind[t], TakeOutcome(t, f)
    PROVE  \/ EndCall(t)
           \/ /\ kind[t] = "identity" /\ flights[f].result \in Identities
              /\ UseIdentity(t, flights[f].result)
           \/ /\ kind[t] = "auth" /\ flights[f].result \in CachedTokenStates
              /\ flights[f].result # Nothing
              /\ UseSession(t, flights[f].result)
  BY DEF TypeOK, Kinds, FlightShape, TakeOutcome

\* Writing one field of one flight.
LEMMA FlightUpdate ==
    ASSUME flights \in [FlightIds -> InFlightObjects], NEW f \in FlightIds,
           NEW v \in Identities \cup CachedTokenStates \cup {Nothing}
    PROVE  /\ [flights EXCEPT ![f].result = v] \in [FlightIds -> InFlightObjects]
           /\ [flights EXCEPT ![f].error = TRUE] \in [FlightIds -> InFlightObjects]
           /\ [flights EXCEPT ![f].done = TRUE] \in [FlightIds -> InFlightObjects]
  <1>1. flights[f] \in InFlightObjects
    OBVIOUS
  <1>2. [flights[f] EXCEPT !.result = v] \in InFlightObjects
    BY <1>1 DEF InFlightObjects
  <1>3. [flights[f] EXCEPT !.error = TRUE] \in InFlightObjects
    BY <1>1 DEF InFlightObjects
  <1>4. [flights[f] EXCEPT !.done = TRUE] \in InFlightObjects
    BY <1>1 DEF InFlightObjects
  <1> QED BY <1>2, <1>3, <1>4

\* The initial state is well typed.
LEMMA InitType == ClientAssumption /\ Init => TypeOK
  BY DEF ClientAssumption, Init, TypeOK, NoRequest, Requests, NewInFlight,
         InFlightObjects, Kinds, Locations

\* Every step keeps the types.
LEMMA StepType ==
    ASSUME ClientAssumption, TypeOK, [Next]_vars,
           \A t \in Threads : CallShape(t),
           \A f \in FlightIds : FlightShape(f),
           \A t \in Threads : LeaderOwnsEntry(t)
    PROVE  TypeOK'
  <1>1. CASE UNCHANGED vars
    BY <1>1 DEF TypeOK, vars
  <1>2. CASE Tick
    BY <1>2 DEF TypeOK, Tick, ClientAssumption
  <1>3. CASE Finished
    BY <1>3 DEF TypeOK, Finished, vars
  <1>4. ASSUME NEW t \in Threads, StartCall(t)
        PROVE  TypeOK'
    BY <1>4 DEF TypeOK, StartCall, GoTo, Locations, ClientAssumption
  <1>5. ASSUME NEW t \in Threads, InterruptLeader(t)
        PROVE  TypeOK'
    <2>1. UNCHANGED <<sharedVars, callVars>> /\ GoTo(t, "publish")
      BY <1>5 DEF InterruptLeader
    <2>2. pc' \in [Threads -> Locations]
      BY <2>1 DEF TypeOK, GoTo, Locations
    <2> QED BY <2>1, <2>2 DEF TypeOK, sharedVars, callVars
  <1>6. ASSUME NEW t \in Threads, InterruptCall(t)
        PROVE  TypeOK'
    BY <1>6, EndCallType DEF TypeOK, InterruptCall, sharedVars
  <1>7. ASSUME NEW t \in Threads, Step(t)
        PROVE  TypeOK'
    <2>0. CallShape(t) /\ LeaderOwnsEntry(t)
      OBVIOUS
    <2>0a. pc[t] \in Leading => joined[t] \in FlightIds /\ joined[t][3] = kind[t]
      <3>1. pc[t] # "idle" => OwnFlight(t) \in FlightIds
        BY <2>0, KeyType
      <3>2. pc[t] \in Leading => pc[t] # "idle" /\ joined[t] = OwnFlight(t)
        BY <2>0 DEF LeaderOwnsEntry, Leading, Running
      <3>3. OwnFlight(t)[3] = kind[t]
        BY DEF OwnFlight
      <3> QED BY <3>1, <3>2, <3>3
    <2>1. CASE CollectUncached(t)
      <3>1. CASE EndCall(t)
        BY <2>1, <3>1, EndCallType DEF TypeOK, CollectUncached, sharedVars
      <3>2. ASSUME NEW i \in Identities, UseIdentity(t, i)
            PROVE  TypeOK'
        BY <2>1, <3>2, UseIdentityType DEF TypeOK, CollectUncached, sharedVars
      <3> QED BY <2>1, <3>1, <3>2 DEF CollectUncached
    <2>2. CASE Join(t)
      BY <2>0, <2>2, KeyType DEF TypeOK, Join, GoTo, Locations, sharedVars
    <2>3. CASE Lead(t)
      BY <2>0, <2>3, KeyType DEF TypeOK, Lead, GoTo, Locations
    <2>4. ASSUME TakeOutcome(t, joined[t]), pc[t] \in Leading \cup {"wait"},
                 UNCHANGED <<now, tokenState, flights, issued, callNo>>,
                 inFlight' \in [FlightKeys -> FlightIds \cup {Nothing}]
          PROVE  TypeOK'
      <3>1. joined[t] \in FlightIds /\ joined[t][3] = kind[t]
        BY <2>0, <2>0a, <2>4 DEF CallShape
      <3>2. CASE EndCall(t)
        BY <2>4, <3>2, EndCallType DEF TypeOK
      <3>3. CASE /\ flights[joined[t]].result \in Identities
                 /\ UseIdentity(t, flights[joined[t]].result)
        BY <2>4, <3>3, UseIdentityType DEF TypeOK
      <3>4. CASE /\ flights[joined[t]].result \in CachedTokenStates
                 /\ UseSession(t, flights[joined[t]].result)
        BY <2>4, <3>4, UseSessionType DEF TypeOK
      <3> QED BY <2>4, <3>1, <3>2, <3>3, <3>4, OutcomeCases
    <2>5. CASE Wake(t)
      BY <2>4, <2>5 DEF TypeOK, Wake, sharedVars
    <2>6. CASE Retire(t)
      BY <2>0, <2>4, <2>6, KeyType DEF TypeOK, Retire, Leading
    <2>7. CASE Publish(t)
      <3>1. joined[t] \in FlightIds
        BY <2>0a, <2>7 DEF Publish, Leading, Running
      <3>2. flights' \in [FlightIds -> InFlightObjects]
        BY <2>7, <3>1, FlightUpdate DEF TypeOK, Publish
      <3> QED BY <2>7, <3>2 DEF TypeOK, Publish, GoTo, Locations, callVars
    <2>8. CASE CollectAsLeader(t)
      <3>1. joined[t] \in FlightIds /\ GoTo(t, "publish")
        BY <2>0a, <2>8 DEF CollectAsLeader, Leading, Running
      <3>2. flights' \in [FlightIds -> InFlightObjects]
        <4>1. ASSUME NEW i \in Identities,
                     flights' = [flights EXCEPT ![joined[t]].result = i]
              PROVE  flights' \in [FlightIds -> InFlightObjects]
          BY <3>1, <4>1, FlightUpdate DEF TypeOK
        <4>2. CASE flights' = [flights EXCEPT ![joined[t]].error = TRUE]
          BY <3>1, <4>2, FlightUpdate DEF TypeOK
        <4> QED BY <2>8, <4>1, <4>2 DEF CollectAsLeader
      <3> QED BY <2>8, <3>1, <3>2 DEF TypeOK, CollectAsLeader, GoTo, Locations, callVars
    <2>9. CASE AuthAnswered(t)
      <3>1. /\ joined[t] \in FlightIds
            /\ identity[t] \in Identities
            /\ AuthCacheKeyOf[identity[t]] \in AuthCacheKeys
            /\ request[t].resourceSet \in ResourceSets
        BY <2>0, <2>0a, <2>9 DEF AuthAnswered, Leading, Running, CallShape, TypeOK,
                                 ClientAssumption, Requests
      <3>2. \A lifetime \in Lifetimes : ExpiresAt(lifetime) \in Instants
        BY DEF TypeOK, ClientAssumption, ExpiresAt, Instants
      <3>3. session' \in [Threads -> CachedTokenStates \cup {Nothing}]
        BY <2>9, <3>1, <3>2 DEF AuthAnswered, TypeOK, CachedTokenStates
      <3>4. issued' \in [FlightIds -> IssuedSessions \cup {Nothing}]
        BY <2>9, <3>1 DEF AuthAnswered, TypeOK, IssuedSessions
      <3> QED BY <2>9, <3>3, <3>4 DEF AuthAnswered, TypeOK, GoTo, Locations
    <2>10. CASE StoreSession(t)
      BY <2>10 DEF TypeOK, StoreSession, GoTo, Locations, callVars
    <2>11. CASE AuthFailed(t)
      BY <2>11 DEF TypeOK, AuthFailed, GoTo, Locations, callVars, sharedVars
    <2>12. CASE ClearStale(t)
      BY <2>12 DEF TypeOK, ClearStale, GoTo, Locations, callVars
    <2>13. CASE Settle(t)
      <3>1. joined[t] \in FlightIds /\ session[t] \in CachedTokenStates \cup {Nothing}
        BY <2>0a, <2>13 DEF Settle, Leading, Running, TypeOK
      <3>2. flights' \in [FlightIds -> InFlightObjects]
        BY <2>13, <3>1, FlightUpdate DEF TypeOK, Settle
      <3> QED BY <2>13, <3>2 DEF TypeOK, Settle, GoTo, Locations, callVars
    <2>14. CASE LookupSession(t) \/ AcquireSession(t)
      <3>1. CASE GoTo(t, "acquire") /\ UNCHANGED callVars
        BY <2>14, <3>1 DEF TypeOK, GoTo, Locations, callVars, sharedVars,
                           LookupSession, AcquireSession
      <3>2. CASE GoTo(t, "coalesce") /\ UNCHANGED callVars
        BY <2>14, <3>2 DEF TypeOK, GoTo, Locations, callVars, sharedVars,
                           LookupSession, AcquireSession
      <3>3. CASE CachedSessionFits(t) /\ UseSession(t, tokenState)
        <4>1. tokenState \in CachedTokenStates
          BY <3>3 DEF TypeOK, CachedSessionFits, IsTokenValid
        <4> QED BY <2>14, <3>3, <4>1, UseSessionType
                DEF TypeOK, sharedVars, LookupSession, AcquireSession
      <3> QED BY <2>14, <3>1, <3>2, <3>3 DEF LookupSession, AcquireSession
    <2>15. CASE CredentialsAnswered(t)
      BY <2>15, EndCallType DEF TypeOK, CredentialsAnswered, sharedVars
    <2> QED BY <1>7, <2>1, <2>2, <2>3, <2>5, <2>6, <2>7, <2>8, <2>9, <2>10, <2>11,
               <2>12, <2>13, <2>14, <2>15 DEF Step
  <1> QED BY <1>1, <1>2, <1>3, <1>4, <1>5, <1>6, <1>7 DEF Next

-----------------------------------------------------------------------------
(* The single-flight tables *)

\* A step of thread t leaves the other threads' calls alone.
OthersUnchanged(t) ==
    \A u \in Threads \ {t} :
        /\ pc'[u] = pc[u] /\ callNo'[u] = callNo[u] /\ kind'[u] = kind[u]
        /\ request'[u] = request[u] /\ identity'[u] = identity[u]
        /\ joined'[u] = joined[u] /\ session'[u] = session[u]

\* A thread left alone keeps its keys, its flight and its shape.
LEMMA OthersKeep ==
    ASSUME NEW t \in Threads, OthersUnchanged(t), NEW u \in Threads, u # t
    PROVE  /\ KeyOf(u)' = KeyOf(u)
           /\ OwnFlight(u)' = OwnFlight(u)
           /\ CallShape(u) => CallShape(u)'
           /\ pc'[u] = pc[u] /\ joined'[u] = joined[u]
  BY DEF OthersUnchanged, KeyOf, AuthSingleFlightKey, OwnFlight, CallShape

\* Two leaders never share a flight or a key.
LEMMA LeadersApart ==
    ASSUME \A t \in Threads : LeaderOwnsEntry(t),
           NEW t \in Threads, NEW u \in Threads,
           pc[t] \in Leading, pc[u] \in Leading,
           joined[t] = joined[u] \/ KeyOf(t) = KeyOf(u)
    PROVE  t = u
  BY DEF LeaderOwnsEntry, OwnFlight

\* A thread outside every flight moves on without joining one.
QuietStep(t) ==
    /\ UNCHANGED <<inFlight, flights>>
    /\ OthersUnchanged(t)
    /\ pc[t] \notin Leading
    /\ pc'[t] \notin Leading \cup {"wait"}
    /\ CallShape(t)'

\* A step that touches neither table nor flights, of a thread that neither leads
\* nor waits before or after it.
LEMMA QuietTables ==
    ASSUME TablesInv, TypeOK', NEW t \in Threads, QuietStep(t)
    PROVE  TablesInv'
  <1>1. \A u \in Threads : CallShape(u)'
    BY OthersKeep DEF TablesInv, QuietStep
  <1>2. \A f \in FlightIds : FlightShape(f)'
    BY DEF TablesInv, QuietStep, FlightShape
  <1>3. ASSUME NEW u \in Threads
        PROVE  LeaderOwnsEntry(u)'
    <2>1. CASE u = t
      BY <2>1 DEF QuietStep, LeaderOwnsEntry, Leading
    <2>2. CASE u # t
      BY <2>2, OthersKeep DEF TablesInv, QuietStep, LeaderOwnsEntry
    <2> QED BY <2>1, <2>2
  <1>4. EntriesHaveLeaders'
    <2>1. SUFFICES ASSUME NEW k \in FlightKeys, inFlight[k] # Nothing
                   PROVE  \E u \in Threads : Leads(u, inFlight[k])' /\ KeyOf(u)' = k
      BY DEF EntriesHaveLeaders, QuietStep, Leads
    <2>2. PICK u \in Threads : Leads(u, inFlight[k]) /\ KeyOf(u) = k
      BY <2>1 DEF TablesInv, EntriesHaveLeaders
    <2>3. u # t
      BY <2>2 DEF Leads, QuietStep
    <2> QED BY <2>2, <2>3, OthersKeep DEF Leads, QuietStep
  <1>5. NoOrphanedWaiter'
    <2>1. SUFFICES ASSUME NEW w \in Threads, pc'[w] = "wait"
                   PROVE  \/ flights[joined'[w]].done
                          \/ \E u \in Threads : joined'[u] = joined'[w] /\ pc'[u] \in Running
      BY DEF NoOrphanedWaiter, QuietStep
    <2>2. w # t /\ pc[w] = "wait" /\ joined'[w] = joined[w]
      BY <2>1, OthersKeep DEF QuietStep
    <2>3. ASSUME NEW u \in Threads, joined[u] = joined[w], pc[u] \in Running
          PROVE  joined'[u] = joined'[w] /\ pc'[u] \in Running
      BY <2>2, <2>3, OthersKeep DEF QuietStep, Leading
    <2> QED BY <2>2, <2>3 DEF TablesInv, NoOrphanedWaiter
  <1> QED BY <1>1, <1>2, <1>3, <1>4, <1>5 DEF TablesInv

\* A leader goes on with its flight, whose waiters stay blocked.
RunStep(t) ==
    /\ pc[t] \in Running /\ pc'[t] \in Running
    /\ OthersUnchanged(t)
    /\ UNCHANGED <<inFlight, callNo, kind, request, identity, joined>>
    /\ CallShape(t)'
    /\ \A f \in FlightIds : FlightShape(f)' /\ flights'[f].done = flights[f].done

\* A step of a leader that writes its own flight but does not finish it.
LEMMA RunTables ==
    ASSUME ClientAssumption, TablesInv, TypeOK', NEW t \in Threads, RunStep(t)
    PROVE  TablesInv'
  <1>1. \A u \in Threads : CallShape(u)'
    BY OthersKeep DEF TablesInv, RunStep
  <1>2. \A u \in Threads : KeyOf(u)' = KeyOf(u) /\ OwnFlight(u)' = OwnFlight(u)
    BY DEF RunStep, KeyOf, AuthSingleFlightKey, OwnFlight
  <1>3. \A u \in Threads : /\ pc'[u] \in Leading <=> pc[u] \in Leading
                           /\ pc'[u] \in Running <=> pc[u] \in Running
                           /\ pc'[u] = "wait" <=> pc[u] = "wait"
                           /\ pc'[u] = "retire" <=> pc[u] = "retire"
    <2>1. pc[t] \in Leading /\ pc'[t] \in Leading
      BY DEF RunStep, Leading
    <2>2. pc[t] \notin {"wait", "retire"} /\ pc'[t] \notin {"wait", "retire"}
      BY DEF RunStep, Running
    <2> QED BY <2>1, <2>2 DEF RunStep, OthersUnchanged
  <1>4. ASSUME NEW u \in Threads
        PROVE  LeaderOwnsEntry(u)'
    <2>1. pc[u] = "retire" => joined[u] \in FlightIds
      BY KeyType DEF TablesInv, LeaderOwnsEntry, Leading
    <2> QED BY <1>2, <1>3, <2>1 DEF TablesInv, LeaderOwnsEntry, RunStep
  <1>5. EntriesHaveLeaders'
    BY <1>2, <1>3 DEF TablesInv, EntriesHaveLeaders, Leads, RunStep
  <1>6. NoOrphanedWaiter'
    BY <1>3 DEF TablesInv, NoOrphanedWaiter, RunStep, CallShape
  <1> QED BY <1>1, <1>4, <1>5, <1>6 DEF TablesInv, RunStep

\* A thread that joins waits for a flight whose leader has yet to publish, or
\* that is done.
LEMMA JoinTables ==
    ASSUME ClientAssumption, TablesInv, TypeOK', NEW t \in Threads, Join(t)
    PROVE  TablesInv'
  <1>1. OthersUnchanged(t)
    BY DEF TablesInv, TypeOK, Join, GoTo, OthersUnchanged, sharedVars
  <1>2. /\ pc[t] = "coalesce" /\ pc'[t] = "wait"
        /\ joined'[t] = inFlight[KeyOf(t)]
        /\ KeyOf(t) \in FlightKeys
    BY KeyType DEF TablesInv, TypeOK, Join, GoTo
  <1>3. PICK v \in Threads : Leads(v, inFlight[KeyOf(t)]) /\ KeyOf(v) = KeyOf(t)
    BY <1>2 DEF Join, TablesInv, EntriesHaveLeaders
  <1>4. v # t /\ joined[v] = joined'[t] /\ pc[v] \in Leading
    BY <1>2, <1>3 DEF Leads, Leading, Running
  <1>5. joined'[t] \in FlightIds /\ joined'[t][3] = kind[t]
    <2>1. kind[v] = kind[t]
      BY <1>3, KeyType DEF TablesInv, TypeOK, KeyOf, Kinds
    <2>2. joined[v] = OwnFlight(v) /\ OwnFlight(v) \in FlightIds
      BY <1>4, KeyType DEF TablesInv, LeaderOwnsEntry, Leading, Running
    <2> QED BY <1>4, <2>1, <2>2 DEF OwnFlight
  <1>6. \A u \in Threads : CallShape(u)'
    <2>1. CallShape(t)'
      BY <1>2, <1>5 DEF TablesInv, CallShape, Join, sharedVars
    <2> QED BY <1>1, <2>1, OthersKeep DEF TablesInv
  <1>7. \A f \in FlightIds : FlightShape(f)'
    BY DEF TablesInv, Join, sharedVars, FlightShape
  <1>8. ASSUME NEW u \in Threads
        PROVE  LeaderOwnsEntry(u)'
    <2>1. CASE u = t
      BY <1>2, <2>1 DEF LeaderOwnsEntry, Leading, Running
    <2>2. CASE u # t
      BY <1>1, <2>2, OthersKeep DEF TablesInv, Join, sharedVars, LeaderOwnsEntry
    <2> QED BY <2>1, <2>2
  <1>9. EntriesHaveLeaders'
    <2>1. SUFFICES ASSUME NEW k \in FlightKeys, inFlight[k] # Nothing
                   PROVE  \E u \in Threads : Leads(u, inFlight[k])' /\ KeyOf(u)' = k
      BY DEF EntriesHaveLeaders, Join, sharedVars, Leads
    <2>2. PICK u \in Threads : Leads(u, inFlight[k]) /\ KeyOf(u) = k
      BY <2>1 DEF TablesInv, EntriesHaveLeaders
    <2>3. u # t
      BY <1>2, <2>2 DEF Leads, Leading, Running
    <2> QED BY <1>1, <2>2, <2>3, OthersKeep DEF Leads, Join, sharedVars
  <1>10. NoOrphanedWaiter'
    <2>1. SUFFICES ASSUME NEW w \in Threads, pc'[w] = "wait"
                   PROVE  \/ flights[joined'[w]].done
                          \/ \E u \in Threads : joined'[u] = joined'[w] /\ pc'[u] \in Running
      BY DEF NoOrphanedWaiter, Join, sharedVars
    <2>2. CASE w = t
      <3>1. pc[v] = "retire" => flights[joined[v]].done
        BY DEF TablesInv, LeaderOwnsEntry
      <3>2. pc[v] # "retire" => joined'[v] = joined'[w] /\ pc'[v] \in Running
        BY <1>1, <1>4, <2>2, OthersKeep DEF Leading
      <3> QED BY <1>4, <2>2, <3>1, <3>2
    <2>3. CASE w # t
      <3>1. pc[w] = "wait" /\ joined'[w] = joined[w]
        BY <1>1, <2>1, <2>3, OthersKeep
      <3>2. ASSUME NEW u \in Threads, joined[u] = joined[w], pc[u] \in Running
            PROVE  joined'[u] = joined'[w] /\ pc'[u] \in Running
        <4>1. u # t
          BY <1>2, <3>2 DEF Running
        <4> QED BY <1>1, <3>1, <3>2, <4>1, OthersKeep
      <3> QED BY <3>1, <3>2 DEF TablesInv, NoOrphanedWaiter
    <2> QED BY <2>2, <2>3
  <1> QED BY <1>6, <1>7, <1>8, <1>9, <1>10 DEF TablesInv

\* A new leader found its key free, so it is the only one of that key.
LEMMA LeadTables ==
    ASSUME ClientAssumption, TablesInv, TypeOK', NEW t \in Threads, Lead(t)
    PROVE  TablesInv'
  <1>1. OthersUnchanged(t)
    BY DEF TablesInv, TypeOK, Lead, GoTo, OthersUnchanged
  <1>2. /\ pc[t] = "coalesce" /\ pc'[t] = "lead"
        /\ joined'[t] = OwnFlight(t) /\ OwnFlight(t)' = OwnFlight(t)
        /\ KeyOf(t)' = KeyOf(t) /\ KeyOf(t) \in FlightKeys
        /\ inFlight'[KeyOf(t)] = OwnFlight(t)
        /\ inFlight[KeyOf(t)] = Nothing
        /\ \A k \in FlightKeys : k # KeyOf(t) => inFlight'[k] = inFlight[k]
        /\ OwnFlight(t) \in FlightIds
    BY KeyType DEF TablesInv, TypeOK, Lead, GoTo, KeyOf, AuthSingleFlightKey, OwnFlight
  <1>3. \A u \in Threads : CallShape(u)'
    <2>1. CallShape(t)'
      BY <1>2 DEF TablesInv, CallShape, Lead
    <2> QED BY <1>1, <2>1, OthersKeep DEF TablesInv
  <1>4. \A f \in FlightIds : FlightShape(f)'
    BY DEF TablesInv, Lead, FlightShape
  <1>5. ASSUME NEW u \in Threads
        PROVE  LeaderOwnsEntry(u)'
    <2>1. CASE u = t
      BY <1>2, <2>1 DEF LeaderOwnsEntry
    <2>2. CASE u # t
      <3>1. pc[u] \in Leading => KeyOf(u) \in FlightKeys /\ OwnFlight(u) # Nothing
                                  /\ KeyOf(u) # KeyOf(t)
        <4>1. pc[u] \in Leading => /\ inFlight[KeyOf(u)] = OwnFlight(u)
                                   /\ joined[u] = OwnFlight(u)
          BY DEF TablesInv, LeaderOwnsEntry
        <4>2. CallShape(u) /\ KeyOf(u) \in FlightKeys
          BY KeyType DEF TablesInv
        <4>3. pc[u] \in Leading => OwnFlight(u) # Nothing
          BY <4>2, KeyType DEF TablesInv, ClientAssumption, Leading, Running
        <4> QED BY <1>2, <4>1, <4>2, <4>3
      <3> QED BY <1>1, <1>2, <2>2, <3>1, OthersKeep
              DEF TablesInv, Lead, LeaderOwnsEntry
    <2> QED BY <2>1, <2>2
  <1>6. EntriesHaveLeaders'
    <2>1. SUFFICES ASSUME NEW k \in FlightKeys, inFlight'[k] # Nothing
                   PROVE  \E u \in Threads : Leads(u, inFlight[k])' /\ KeyOf(u)' = k
      BY DEF EntriesHaveLeaders, Leads
    <2>2. CASE k = KeyOf(t)
      BY <1>2, <2>2 DEF Leads, Leading, Running
    <2>3. CASE k # KeyOf(t)
      <3>1. PICK u \in Threads : Leads(u, inFlight[k]) /\ KeyOf(u) = k
        BY <1>2, <2>1, <2>3 DEF TablesInv, EntriesHaveLeaders
      <3>2. u # t
        BY <1>2, <3>1 DEF Leads, Leading, Running
      <3> QED BY <1>1, <1>2, <2>3, <3>1, <3>2, OthersKeep DEF Leads
    <2> QED BY <2>2, <2>3
  <1>7. NoOrphanedWaiter'
    <2>1. SUFFICES ASSUME NEW w \in Threads, pc'[w] = "wait"
                   PROVE  \/ flights[joined'[w]].done
                          \/ \E u \in Threads : joined'[u] = joined'[w] /\ pc'[u] \in Running
      BY DEF NoOrphanedWaiter, Lead
    <2>2. w # t /\ pc[w] = "wait" /\ joined'[w] = joined[w]
      BY <1>1, <1>2, <2>1, OthersKeep
    <2>3. ASSUME NEW u \in Threads, joined[u] = joined[w], pc[u] \in Running
          PROVE  joined'[u] = joined'[w] /\ pc'[u] \in Running
      <3>1. u # t
        BY <1>2, <2>3 DEF Running
      <3> QED BY <1>1, <2>2, <2>3, <3>1, OthersKeep
    <2> QED BY <2>2, <2>3 DEF TablesInv, NoOrphanedWaiter
  <1> QED BY <1>3, <1>4, <1>5, <1>6, <1>7 DEF TablesInv

\* The leader that publishes releases every thread that waits for its flight.
LEMMA PublishTables ==
    ASSUME ClientAssumption, TablesInv, TypeOK', NEW t \in Threads, Publish(t)
    PROVE  TablesInv'
  <1>1. OthersUnchanged(t)
    BY DEF TablesInv, TypeOK, Publish, GoTo, OthersUnchanged, callVars
  <1>2. /\ pc[t] = "publish" /\ pc'[t] = "retire"
        /\ UNCHANGED <<inFlight, callNo, kind, request, identity, joined>>
        /\ joined[t] = OwnFlight(t) /\ OwnFlight(t) \in FlightIds
    BY KeyType DEF TablesInv, TypeOK, Publish, GoTo, callVars, LeaderOwnsEntry,
                   Leading, Running
  <1>3. \A f \in FlightIds : flights'[f].result = flights[f].result
    BY <1>2 DEF Publish, TablesInv, TypeOK, InFlightObjects
  <1>3a. \A f \in FlightIds : flights[f].done \/ f = joined[t] => flights'[f].done
    BY <1>2 DEF Publish, TablesInv, TypeOK, InFlightObjects
  <1>4. \A u \in Threads : KeyOf(u)' = KeyOf(u) /\ OwnFlight(u)' = OwnFlight(u)
    BY <1>2 DEF KeyOf, AuthSingleFlightKey, OwnFlight
  <1>5. \A u \in Threads : /\ pc'[u] \in Leading <=> pc[u] \in Leading
                           /\ pc'[u] = "wait" <=> pc[u] = "wait"
                           /\ u # t => (pc'[u] \in Running <=> pc[u] \in Running)
    BY <1>1, <1>2 DEF OthersUnchanged, Leading, Running
  <1>6. \A u \in Threads : CallShape(u)'
    <2>1. CallShape(t)'
      BY <1>2 DEF TablesInv, CallShape
    <2> QED BY <1>1, <2>1, OthersKeep DEF TablesInv
  <1>7. ASSUME NEW f \in FlightIds
        PROVE  FlightShape(f)'
    BY <1>3 DEF TablesInv, FlightShape
  <1>8. ASSUME NEW u \in Threads
        PROVE  LeaderOwnsEntry(u)'
    <2>1. pc'[u] = "retire" => flights'[joined[u]].done
      <3>1. CASE u = t
        BY <1>2, <1>3a, <3>1
      <3>2. CASE u # t /\ pc'[u] = "retire"
        <4>1. pc[u] = "retire" /\ flights[joined[u]].done /\ joined[u] = OwnFlight(u)
          BY <1>1, <3>2, OthersKeep DEF TablesInv, LeaderOwnsEntry, Leading
        <4>2. joined[u] \in FlightIds
          BY <4>1, KeyType DEF TablesInv
        <4> QED BY <1>3a, <4>1, <4>2
      <3> QED BY <3>1, <3>2
    <2> QED BY <1>2, <1>4, <1>5, <2>1 DEF TablesInv, LeaderOwnsEntry
  <1>9. EntriesHaveLeaders'
    BY <1>2, <1>4, <1>5 DEF TablesInv, EntriesHaveLeaders, Leads
  <1>10. NoOrphanedWaiter'
    <2>1. SUFFICES ASSUME NEW w \in Threads, pc[w] = "wait"
                   PROVE  \/ flights'[joined[w]].done
                          \/ \E u \in Threads : joined[u] = joined[w] /\ pc'[u] \in Running
      BY <1>2, <1>5 DEF NoOrphanedWaiter
    <2>2. joined[w] \in FlightIds
      BY <2>1 DEF TablesInv, CallShape
    <2> QED BY <1>3a, <1>5, <2>1, <2>2 DEF TablesInv, NoOrphanedWaiter
  <1> QED BY <1>6, <1>7, <1>8, <1>9, <1>10 DEF TablesInv

\* Where a call stands once it has ended, or has its identity or its session.
LEMMA Outcome ==
    ASSUME ClientAssumption, TablesInv, NEW t \in Threads,
           \/ EndCall(t)
           \/ pc[t] # "idle" /\ \E i \in Identities : UseIdentity(t, i)
           \/ pc[t] # "idle" /\ kind[t] = "auth" /\ \E s : UseSession(t, s),
           callNo' = callNo
    PROVE  /\ OthersUnchanged(t)
           /\ pc'[t] \in {"idle", "lookup", "acquire", "credentials"}
           /\ CallShape(t)'
  <1>1. CASE EndCall(t)
    BY <1>1 DEF EndCall, GoTo, TablesInv, TypeOK, OthersUnchanged, CallShape
  <1>2. CASE pc[t] # "idle" /\ \E i \in Identities : UseIdentity(t, i)
    BY <1>2 DEF UseIdentity, GoTo, TablesInv, TypeOK, OthersUnchanged, CallShape
  <1>3. CASE pc[t] # "idle" /\ kind[t] = "auth" /\ \E s : UseSession(t, s)
    <2>1. CASE request[t].force
      BY <1>1, <1>3, <2>1 DEF UseSession
    <2>2. CASE ~request[t].force
      BY <1>3, <2>2 DEF UseSession, GoTo, TablesInv, TypeOK, OthersUnchanged, CallShape
    <2> QED BY <2>1, <2>2
  <1> QED BY <1>1, <1>2, <1>3

\* The leader that retires removes its own entry and no other.
LEMMA RetireTables ==
    ASSUME ClientAssumption, TablesInv, TypeOK', NEW t \in Threads, Retire(t)
    PROVE  TablesInv'
  <1>1. /\ pc[t] = "retire" /\ joined[t] = OwnFlight(t)
        /\ inFlight[KeyOf(t)] = OwnFlight(t) /\ OwnFlight(t) \in FlightIds
        /\ KeyOf(t) \in FlightKeys
        /\ flights' = flights /\ callNo' = callNo
    BY KeyType DEF TablesInv, Retire, LeaderOwnsEntry, Leading
  <1>2. /\ OthersUnchanged(t)
        /\ pc'[t] \in {"idle", "lookup", "acquire", "credentials"}
        /\ CallShape(t)'
    <2>1. OwnFlight(t)[3] = kind[t]
      BY DEF OwnFlight
    <2> QED BY <1>1, <2>1, Outcome, OutcomeCases DEF Retire, TablesInv
  <1>3. /\ inFlight'[KeyOf(t)] = Nothing
        /\ \A k \in FlightKeys : k # KeyOf(t) => inFlight'[k] = inFlight[k]
    BY <1>1 DEF Retire, TablesInv, TypeOK
  <1>4. \A u \in Threads : CallShape(u)'
    BY <1>2, OthersKeep DEF TablesInv
  <1>5. \A f \in FlightIds : FlightShape(f)'
    BY <1>1 DEF TablesInv, FlightShape
  <1>6. ASSUME NEW u \in Threads
        PROVE  LeaderOwnsEntry(u)'
    <2>1. CASE u = t
      BY <1>2, <2>1 DEF LeaderOwnsEntry, Leading, Running
    <2>2. CASE u # t
      <3>1. pc[u] \in Leading => KeyOf(u) # KeyOf(t) /\ KeyOf(u) \in FlightKeys
        BY <1>1, <2>2, LeadersApart, KeyType DEF TablesInv, Leading
      <3> QED BY <1>1, <1>2, <1>3, <2>2, <3>1, OthersKeep DEF TablesInv, LeaderOwnsEntry
    <2> QED BY <2>1, <2>2
  <1>7. EntriesHaveLeaders'
    <2>1. SUFFICES ASSUME NEW k \in FlightKeys, inFlight'[k] # Nothing
                   PROVE  \E u \in Threads : Leads(u, inFlight[k])' /\ KeyOf(u)' = k
      BY DEF EntriesHaveLeaders, Leads
    <2>2. k # KeyOf(t) /\ inFlight'[k] = inFlight[k]
      BY <1>3, <2>1
    <2>3. PICK u \in Threads : Leads(u, inFlight[k]) /\ KeyOf(u) = k
      BY <2>1, <2>2 DEF TablesInv, EntriesHaveLeaders
    <2>4. u # t
      BY <2>2, <2>3
    <2> QED BY <1>2, <2>2, <2>3, <2>4, OthersKeep DEF Leads
  <1>8. NoOrphanedWaiter'
    <2>1. SUFFICES ASSUME NEW w \in Threads, pc'[w] = "wait"
                   PROVE  \/ flights[joined'[w]].done
                          \/ \E u \in Threads : joined'[u] = joined'[w] /\ pc'[u] \in Running
      BY <1>1 DEF NoOrphanedWaiter
    <2>2. w # t /\ pc[w] = "wait" /\ joined'[w] = joined[w]
      BY <1>2, <2>1, OthersKeep
    <2>3. ASSUME NEW u \in Threads, joined[u] = joined[w], pc[u] \in Running
          PROVE  joined'[u] = joined'[w] /\ pc'[u] \in Running
      <3>1. u # t
        BY <1>1, <2>3 DEF Running
      <3> QED BY <1>2, <2>2, <2>3, <3>1, OthersKeep
    <2> QED BY <2>2, <2>3 DEF TablesInv, NoOrphanedWaiter
  <1> QED BY <1>4, <1>5, <1>6, <1>7, <1>8 DEF TablesInv

\* The table invariant is inductive.
LEMMA TablesInit == ClientAssumption /\ Init => TablesInv
  <1> SUFFICES ASSUME ClientAssumption, Init PROVE TablesInv
    OBVIOUS
  <1>1. TypeOK
    BY InitType
  <1>2. \A t \in Threads : CallShape(t) /\ LeaderOwnsEntry(t)
    BY DEF Init, CallShape, LeaderOwnsEntry, Leading, Running
  <1>3. \A f \in FlightIds : FlightShape(f)
    BY DEF Init, FlightShape, NewInFlight
  <1>4. EntriesHaveLeaders /\ NoOrphanedWaiter
    BY DEF Init, EntriesHaveLeaders, NoOrphanedWaiter
  <1> QED BY <1>1, <1>2, <1>3, <1>4 DEF TablesInv

\* Every step of any thread keeps the table invariant.
LEMMA TablesStep == ClientAssumption /\ TablesInv /\ [Next]_vars => TablesInv'
  <1> SUFFICES ASSUME ClientAssumption, TablesInv, [Next]_vars PROVE TablesInv'
    OBVIOUS
  <1>0. TypeOK'
    BY StepType DEF TablesInv
  <1>1. ASSUME UNCHANGED <<inFlight, flights, pc, callNo, kind, request, identity, joined>>
        PROVE  TablesInv'
    <2>1. \A t \in Threads : KeyOf(t)' = KeyOf(t) /\ OwnFlight(t)' = OwnFlight(t)
      BY <1>1 DEF KeyOf, AuthSingleFlightKey, OwnFlight
    <2>2. \A t \in Threads : CallShape(t)' /\ LeaderOwnsEntry(t)'
      BY <1>1, <2>1 DEF TablesInv, CallShape, LeaderOwnsEntry
    <2>3. \A f \in FlightIds : FlightShape(f)'
      BY <1>1 DEF TablesInv, FlightShape
    <2>4. EntriesHaveLeaders' /\ NoOrphanedWaiter'
      BY <1>1, <2>1 DEF TablesInv, EntriesHaveLeaders, NoOrphanedWaiter, Leads
    <2> QED BY <1>0, <2>2, <2>3, <2>4 DEF TablesInv
  <1>2. CASE UNCHANGED vars \/ Tick \/ Finished
    BY <1>1, <1>2 DEF vars, Tick, Finished
  <1>3. ASSUME NEW t \in Threads, StartCall(t)
        PROVE  TablesInv'
    <2>1. QuietStep(t)
      BY <1>3 DEF StartCall, GoTo, TablesInv, TypeOK, QuietStep, OthersUnchanged,
                  CallShape, Leading, Running, ClientAssumption
    <2> QED BY <1>0, <2>1, QuietTables
  \* A step of a call whose thread is in no flight, or waits.
  <1>4. ASSUME NEW t \in Threads, UNCHANGED sharedVars,
               \/ EndCall(t)
               \/ pc[t] # "idle" /\ \E i \in Identities : UseIdentity(t, i)
               \/ pc[t] # "idle" /\ kind[t] = "auth" /\ \E s : UseSession(t, s),
               pc[t] \notin Leading
        PROVE  TablesInv'
    <2>1. QuietStep(t)
      <3>1. callNo' = callNo /\ inFlight' = inFlight /\ flights' = flights
        BY <1>4 DEF sharedVars
      <3>2. /\ OthersUnchanged(t)
            /\ pc'[t] \in {"idle", "lookup", "acquire", "credentials"}
            /\ CallShape(t)'
        BY <1>4, <3>1, Outcome
      <3> QED BY <1>4, <3>1, <3>2 DEF QuietStep, Leading, Running
    <2> QED BY <1>0, <2>1, QuietTables
  <1>5. ASSUME NEW t \in Threads, InterruptCall(t) \/ CredentialsAnswered(t)
        PROVE  TablesInv'
    BY <1>4, <1>5 DEF InterruptCall, CredentialsAnswered, Leading, Running
  <1>6. ASSUME NEW t \in Threads, CollectUncached(t)
        PROVE  TablesInv'
    BY <1>4, <1>6 DEF CollectUncached, Leading, Running
  <1>7. ASSUME NEW t \in Threads, Wake(t)
        PROVE  TablesInv'
    <2>1. joined[t] \in FlightIds /\ joined[t][3] = kind[t] /\ pc[t] \notin Leading
      BY <1>7 DEF Wake, TablesInv, CallShape, Leading, Running
    <2> QED BY <1>4, <1>7, <2>1, OutcomeCases DEF Wake, TablesInv
  <1>8. ASSUME NEW t \in Threads, LookupSession(t) \/ AcquireSession(t)
        PROVE  TablesInv'
    <2>1. /\ UNCHANGED sharedVars
          /\ pc[t] \in {"lookup", "acquire"} /\ kind[t] = "auth"
      BY <1>8 DEF LookupSession, AcquireSession, TablesInv, CallShape
    <2>2. CASE UseSession(t, tokenState)
      BY <1>4, <2>1, <2>2 DEF Leading, Running
    <2>3. CASE (GoTo(t, "acquire") \/ GoTo(t, "coalesce")) /\ UNCHANGED callVars
      <3>1. pc'[t] \in {"acquire", "coalesce"}
        BY <2>3 DEF GoTo, TablesInv, TypeOK
      <3>2. OthersUnchanged(t) /\ CallShape(t)'
        BY <2>1, <2>3, <3>1 DEF GoTo, sharedVars, callVars, TablesInv, TypeOK,
                                OthersUnchanged, CallShape
      <3>3. QuietStep(t)
        BY <2>1, <3>1, <3>2 DEF QuietStep, sharedVars, Leading, Running
      <3> QED BY <1>0, <3>3, QuietTables
    <2> QED BY <1>8, <2>2, <2>3 DEF LookupSession, AcquireSession
  \* A leader's step before it publishes.
  <1>9. ASSUME NEW t \in Threads,
               \/ InterruptLeader(t) \/ CollectAsLeader(t) \/ AuthAnswered(t)
               \/ StoreSession(t) \/ AuthFailed(t) \/ ClearStale(t) \/ Settle(t)
        PROVE  TablesInv'
    <2>1. /\ pc[t] \in Running /\ pc'[t] \in Running \ {"lead"}
          /\ pc'[t] = "publish" \/ kind[t] = "auth"
          /\ UNCHANGED <<inFlight, callNo, kind, request, identity, joined>>
          /\ pc' = [pc EXCEPT ![t] = pc'[t]]
          /\ \A u \in Threads \ {t} : session'[u] = session[u]
      BY <1>9 DEF InterruptLeader, CollectAsLeader, AuthAnswered, StoreSession, AuthFailed,
                  ClearStale, Settle, GoTo, TablesInv, TypeOK, CallShape, Running,
                  sharedVars, callVars
    <2>2. OthersUnchanged(t)
      BY <2>1 DEF OthersUnchanged, TablesInv, TypeOK
    <2>3. CallShape(t)'
      BY <2>1 DEF CallShape, TablesInv, TypeOK, Running
    <2>4. joined[t] \in FlightIds /\ joined[t][3] = kind[t]
      <3>1. pc[t] \in Leading /\ pc[t] # "idle"
        BY <2>1 DEF Leading, Running
      <3>2. joined[t] = OwnFlight(t) /\ OwnFlight(t) \in FlightIds
        BY <3>1, KeyType DEF TablesInv, LeaderOwnsEntry
      <3>3. OwnFlight(t)[3] = kind[t]
        BY DEF OwnFlight
      <3> QED BY <3>2, <3>3
    <2>5. ASSUME NEW f \in FlightIds
          PROVE  FlightShape(f)' /\ flights'[f].done = flights[f].done
      <3>1. CASE flights' = flights
        BY <3>1 DEF TablesInv, FlightShape
      <3>2. CASE flights' = [flights EXCEPT ![joined[t]].error = TRUE]
        BY <3>2 DEF TablesInv, FlightShape, TypeOK, InFlightObjects
      <3>3. ASSUME NEW r, flights' = [flights EXCEPT ![joined[t]].result = r],
                   \/ kind[t] = "identity" /\ r \in Identities
                   \/ kind[t] = "auth" /\ r \in CachedTokenStates \cup {Nothing}
            PROVE  FlightShape(f)' /\ flights'[f].done = flights[f].done
        BY <2>4, <3>3 DEF TablesInv, FlightShape, TypeOK, InFlightObjects
      <3>4. CASE CollectAsLeader(t)
        BY <3>2, <3>3, <3>4 DEF CollectAsLeader
      <3>5. CASE Settle(t)
        <4>1. kind[t] = "auth" /\ session[t] \in CachedTokenStates \cup {Nothing}
          BY <3>5 DEF Settle, TablesInv, CallShape, TypeOK
        <4> QED BY <3>2, <3>3, <3>5, <4>1 DEF Settle
      <3> QED BY <1>9, <3>1, <3>4, <3>5
              DEF InterruptLeader, AuthAnswered, StoreSession, AuthFailed, ClearStale,
                  sharedVars
    <2>6. RunStep(t)
      BY <2>1, <2>2, <2>3, <2>5 DEF RunStep
    <2> QED BY <1>0, <2>6, RunTables
  <1>10. ASSUME NEW t \in Threads, Join(t) \/ Lead(t) \/ Publish(t) \/ Retire(t)
         PROVE  TablesInv'
    BY <1>0, <1>10, JoinTables, LeadTables, PublishTables, RetireTables
  <1> QED BY <1>2, <1>3, <1>5, <1>6, <1>7, <1>8, <1>9, <1>10 DEF Next, Step

\* Every reachable state satisfies the table invariant.
THEOREM TablesInvariant == Spec => []TablesInv
  <1>1. Init => TablesInv
    BY ClientAssumption, TablesInit
  <1>2. TablesInv /\ [Next]_vars => TablesInv'
    BY ClientAssumption, TablesStep
  <1> QED BY <1>1, <1>2, PTL DEF Spec

\* The client's variables are well typed, whatever its threads do.
THEOREM TypeCorrect == Spec => []TypeOK
  <1>1. TablesInv => TypeOK
    BY DEF TablesInv
  <1> QED BY <1>1, TablesInvariant, PTL

\* Coalescing works: two threads never run the same keyed work at once.
THEOREM SingleFlight == Spec => []OneFlightPerKey
  <1>1. TablesInv => OneFlightPerKey
    BY LeadersApart DEF TablesInv, OneFlightPerKey, Leading
  <1> QED BY <1>1, TablesInvariant, PTL

\* No waiter is stranded, though a BaseException may hit a leader anywhere in
\* its action.
THEOREM NoWaiterStranded == Spec => []NoOrphanedWaiter
  <1>1. TablesInv => NoOrphanedWaiter
    BY DEF TablesInv
  <1> QED BY <1>1, TablesInvariant, PTL

\* No entry of the in-flight tables outlives the thread that made it.
THEOREM NoEntryLeaks == Spec => []EntriesHaveLeaders
  <1>1. TablesInv => EntriesHaveLeaders
    BY DEF TablesInv
  <1> QED BY <1>1, TablesInvariant, PTL

-----------------------------------------------------------------------------
(* Sessions *)

\* A flight no call has begun yet, whose session nobody has been issued.
Fresh(f) == flights[f] = NewInFlight /\ issued[f] = Nothing

\* A call's flights are fresh until it leads them.
FlightsAhead(t) ==
    /\ \A n \in 1 .. MaxCalls, j \in Kinds : callNo[t] < n => Fresh(<<t, n, j>>)
    /\ pc[t] # "idle" /\ kind[t] = "identity" => Fresh(<<t, callNo[t], "auth">>)
    /\ pc[t] \in {"coalesce", "lookup", "acquire"} => Fresh(OwnFlight(t))
    /\ pc[t] = "lead" => Fresh(joined[t])
    /\ pc[t] \in {"store", "clear", "settle"} => flights[joined[t]] = NewInFlight
    /\ pc[t] = "publish" => ~flights[joined[t]].done
    /\ pc[t] \in {"idle", "coalesce", "wait", "lookup", "acquire", "lead", "collect"}
         => session[t] = Nothing
    /\ kind[t] = "identity" => session[t] = Nothing

\* The client's record of a session agrees with the Edge API's.
Sound(s) ==
    /\ issued[s.accessToken] # Nothing
    /\ issued[s.accessToken].resourceSet = s.resourceSet
    /\ AuthCacheKeyOf[issued[s.accessToken].client] = s.authCacheKey

\* Session s is of the scope that the call of thread t needs.
Fits(s, t) ==
    /\ s.resourceSet = request[t].resourceSet
    /\ s.authCacheKey = AuthCacheKeyOf[identity[t]]

\* What a call holds, or will be given by its flight, is sound and fits.
CallFits(t) ==
    /\ session[t] # Nothing => Sound(session[t]) /\ Fits(session[t], t)
    /\ pc[t] = "credentials" => session[t] # Nothing
    /\ /\ pc[t] \in {"wait", "publish", "retire"} /\ kind[t] = "auth"
       /\ flights[joined[t]].result # Nothing
       => Fits(flights[joined[t]].result, t)
    /\ pc[t] = "wait" =>
         \/ flights[joined[t]].done
         \/ \E u \in Threads :
              joined[u] = joined[t] /\ pc[u] \in Running /\ KeyOf(u) = KeyOf(t)

\* The inductive invariant of sessions, on top of TablesInv.
SessionsInv ==
    /\ \A t \in Threads : FlightsAhead(t) /\ CallFits(t)
    /\ tokenState # Nothing => Sound(tokenState)
    /\ \A f \in FlightIds :
         f[3] = "auth" /\ flights[f].result # Nothing => Sound(flights[f].result)

\* The facts of TypeOK about one leader.
LEMMA LeaderFlight ==
    ASSUME ClientAssumption, TablesInv, NEW t \in Threads, pc[t] \in Leading
    PROVE  /\ joined[t] = OwnFlight(t) /\ joined[t] \in FlightIds
           /\ joined[t][3] = kind[t]
  <1>1. pc[t] # "idle"
    BY DEF Leading, Running
  <1>2. joined[t] = OwnFlight(t) /\ OwnFlight(t) \in FlightIds
    BY <1>1, KeyType DEF TablesInv, LeaderOwnsEntry
  <1>3. OwnFlight(t)[3] = kind[t]
    BY DEF OwnFlight
  <1> QED BY <1>2, <1>3

\* What a step of thread t does to flights and to the server's record: it writes
\* the result of its own flight alone, before it is done, and it releases the
\* waiters when it stops running it.
SessionStep(t) ==
    /\ OthersUnchanged(t)
    /\ \A f \in FlightIds :
         /\ f # OwnFlight(t) => flights'[f] = flights[f] /\ issued'[f] = issued[f]
         /\ issued[f] # Nothing => issued'[f] = issued[f]
         /\ flights[f].done => flights'[f].done
         /\ \/ flights'[f].result = flights[f].result
            \/ /\ f = OwnFlight(t) /\ pc[t] \in Running /\ ~flights[f].done
               /\ kind[t] = "auth" /\ flights'[f].result # Nothing
                    => Fits(flights'[f].result, t) /\ Sound(flights[f].result)'
    /\ pc[t] \in Running =>
         /\ joined'[t] = joined[t] /\ KeyOf(t)' = KeyOf(t)
         /\ pc'[t] \in Running \/ flights'[joined[t]].done

\* A sound session stays sound: the Edge API's records only grow.
LEMMA SoundKept ==
    ASSUME NEW s \in CachedTokenStates, Sound(s),
           \A f \in FlightIds : issued[f] # Nothing => issued'[f] = issued[f]
    PROVE  /\ issued'[s.accessToken] # Nothing
           /\ issued'[s.accessToken].resourceSet = s.resourceSet
           /\ AuthCacheKeyOf[issued'[s.accessToken].client] = s.authCacheKey
  <1>1. s.accessToken \in FlightIds
    BY DEF CachedTokenStates
  <1> QED BY <1>1 DEF Sound

\* A step of t leaves the flights ahead of another thread u fresh.
LEMMA OtherFlightsAhead ==
    ASSUME ClientAssumption, TablesInv, NEW t \in Threads, SessionStep(t),
           NEW u \in Threads, u # t, FlightsAhead(u)
    PROVE  FlightsAhead(u)'
  <1>1. \A f \in FlightIds : f # OwnFlight(t) => (Fresh(f) => Fresh(f)')
    BY DEF SessionStep, Fresh
  <1>2. \A n \in 1 .. MaxCalls, j \in Kinds :
           <<u, n, j>> \in FlightIds /\ <<u, n, j>> # OwnFlight(t)
    BY DEF OwnFlight, FlightIds
  <1>3. \A n \in 1 .. MaxCalls, j \in Kinds : callNo'[u] < n => Fresh(<<u, n, j>>)'
    BY <1>1, <1>2 DEF SessionStep, OthersUnchanged, FlightsAhead
  <1>4. pc[u] # "idle" => callNo[u] \in 1 .. MaxCalls /\ kind[u] \in Kinds
    BY DEF TablesInv, CallShape, TypeOK
  <1>5. pc'[u] # "idle" /\ kind'[u] = "identity" => Fresh(<<u, callNo[u], "auth">>)'
    BY <1>1, <1>2, <1>4 DEF SessionStep, OthersUnchanged, FlightsAhead, Kinds
  <1>6. pc'[u] \in {"coalesce", "lookup", "acquire"} => Fresh(OwnFlight(u))'
    <2>1. pc[u] # "idle" => OwnFlight(u) \in FlightIds /\ OwnFlight(u) # OwnFlight(t)
      BY <1>2, <1>4 DEF OwnFlight
    <2>2. OwnFlight(u)' = OwnFlight(u) /\ pc'[u] = pc[u]
      BY OthersKeep DEF SessionStep
    <2> QED BY <1>1, <2>1, <2>2 DEF FlightsAhead, Fresh
  <1>7. pc[u] \in Leading => joined[u] \in FlightIds /\ joined[u] # OwnFlight(t)
    BY LeaderFlight DEF OwnFlight
  <1>8. pc'[u] = pc[u] /\ joined'[u] = joined[u] /\ session'[u] = session[u]
        /\ kind'[u] = kind[u] /\ callNo'[u] = callNo[u]
    BY DEF SessionStep, OthersUnchanged
  <1>9. pc'[u] = "lead" => Fresh(joined[u])'
    BY <1>1, <1>7, <1>8 DEF FlightsAhead, Leading, Running, Fresh
  <1>10. pc'[u] \in {"store", "clear", "settle"} => flights'[joined[u]] = NewInFlight
    BY <1>7, <1>8 DEF FlightsAhead, Leading, Running, SessionStep
  <1>11. pc'[u] = "publish" => ~flights'[joined[u]].done
    BY <1>7, <1>8 DEF FlightsAhead, Leading, Running, SessionStep
  <1> QED BY <1>3, <1>5, <1>6, <1>8, <1>9, <1>10, <1>11 DEF FlightsAhead

\* A step of t leaves another thread u a sound and fitting session, even when u
\* waits for the flight whose result t writes.
LEMMA OtherCallFits ==
    ASSUME ClientAssumption, TablesInv, TypeOK', NEW t \in Threads, SessionStep(t),
           NEW u \in Threads, u # t, FlightsAhead(u), CallFits(u)
    PROVE  CallFits(u)'
  <1>1. /\ pc'[u] = pc[u] /\ joined'[u] = joined[u] /\ session'[u] = session[u]
        /\ kind'[u] = kind[u] /\ request'[u] = request[u] /\ identity'[u] = identity[u]
        /\ KeyOf(u)' = KeyOf(u)
    BY OthersKeep DEF SessionStep, OthersUnchanged
  <1>2. \A f \in FlightIds : issued[f] # Nothing => issued'[f] = issued[f]
    BY DEF SessionStep
  <1>3. session'[u] # Nothing => Sound(session[u])' /\ Fits(session[u], u)'
    <2>1. SUFFICES ASSUME session[u] # Nothing
                   PROVE  Sound(session[u])' /\ Fits(session[u], u)'
      BY <1>1
    <2>2. session[u] \in CachedTokenStates
      BY <2>1 DEF TablesInv, TypeOK
    <2> QED BY <1>1, <1>2, <2>1, <2>2, SoundKept DEF CallFits, Sound, Fits
  <1>4. pc'[u] = "credentials" => session'[u] # Nothing
    BY <1>1 DEF CallFits
  <1>5. pc[u] \in {"wait", "publish", "retire"} => joined[u] \in FlightIds
    BY LeaderFlight DEF TablesInv, CallShape, Leading, Running
  <1>6. ASSUME pc[u] \in {"wait", "publish", "retire"}, kind[u] = "auth",
               flights'[joined[u]].result # Nothing
        PROVE  Fits(flights'[joined[u]].result, u)
    <2>1. CASE flights'[joined[u]].result = flights[joined[u]].result
      BY <1>6, <2>1 DEF CallFits
    <2>2. CASE flights'[joined[u]].result # flights[joined[u]].result
      <3>1. /\ joined[u] = OwnFlight(t) /\ pc[t] \in Running
            /\ ~flights[joined[u]].done
            /\ kind[t] = "auth" => Fits(flights'[joined[u]].result, t)
        BY <1>5, <1>6, <2>2 DEF SessionStep
      <3>2. pc[u] = "wait"
        BY <1>6, <3>1, LeaderFlight DEF Leading, Running, OwnFlight
      <3>3. PICK v \in Threads :
              joined[v] = joined[u] /\ pc[v] \in Running /\ KeyOf(v) = KeyOf(u)
        BY <3>1, <3>2 DEF CallFits
      <3>4. v = t
        BY <3>1, <3>3, LeaderFlight DEF Leading, OwnFlight
      <3>5. kind[t] = "auth" /\ AuthSingleFlightKey(t) = AuthSingleFlightKey(u)
        <4>1. kind[t] = "auth"
          BY <1>6, <3>1, <3>2 DEF TablesInv, CallShape, OwnFlight
        <4> QED BY <1>6, <3>3, <3>4, <4>1 DEF KeyOf
      <3> QED BY <3>1, <3>5 DEF Fits, AuthSingleFlightKey
    <2> QED BY <2>1, <2>2
  <1>7. ASSUME pc[u] = "wait"
        PROVE  \/ flights'[joined[u]].done
               \/ \E v \in Threads : joined'[v] = joined[u] /\ pc'[v] \in Running
                                     /\ KeyOf(v)' = KeyOf(u)
    <2>1. CASE flights[joined[u]].done
      BY <1>5, <1>7, <2>1 DEF SessionStep
    <2>2. ASSUME NEW v \in Threads, joined[v] = joined[u], pc[v] \in Running,
                 KeyOf(v) = KeyOf(u)
          PROVE  \/ flights'[joined[u]].done
                 \/ joined'[v] = joined[u] /\ pc'[v] \in Running /\ KeyOf(v)' = KeyOf(u)
      <3>1. CASE v = t
        BY <2>2, <3>1 DEF SessionStep
      <3>2. CASE v # t
        BY <2>2, <3>2, OthersKeep DEF SessionStep
      <3> QED BY <3>1, <3>2
    <2> QED BY <1>7, <2>1, <2>2 DEF CallFits
  <1> QED
    <2>1. pc[u] \in {"wait", "publish", "retire"} /\ kind[u] = "auth"
            /\ flights'[joined[u]].result # Nothing
            => Fits(flights[joined[u]].result, u)'
      BY <1>1, <1>6 DEF Fits
    <2> QED BY <1>1, <1>3, <1>4, <1>7, <2>1 DEF CallFits

\* So a step keeps the invariant if it does so for the thread that takes it.
LEMMA SessionStepKeeps ==
    ASSUME ClientAssumption, TablesInv, TypeOK', SessionsInv, NEW t \in Threads,
           SessionStep(t), FlightsAhead(t)', CallFits(t)',
           tokenState' = tokenState \/ tokenState' = Nothing \/ Sound(tokenState)'
    PROVE  SessionsInv'
  <1>1. \A u \in Threads : FlightsAhead(u)' /\ CallFits(u)'
    BY OtherFlightsAhead, OtherCallFits DEF SessionsInv
  <1>2. \A f \in FlightIds : issued[f] # Nothing => issued'[f] = issued[f]
    BY DEF SessionStep
  <1>3. tokenState' # Nothing => Sound(tokenState)'
    <2>1. CASE tokenState' = tokenState /\ tokenState # Nothing
      <3>1. tokenState \in CachedTokenStates /\ Sound(tokenState)
        BY <2>1 DEF TablesInv, TypeOK, SessionsInv
      <3> QED BY <1>2, <2>1, <3>1, SoundKept DEF Sound
    <2> QED BY <2>1
  <1>4. ASSUME NEW f \in FlightIds, f[3] = "auth", flights'[f].result # Nothing
        PROVE  Sound(flights[f].result)'
    <2>1. CASE flights'[f].result = flights[f].result
      <3>1. flights[f].result \in CachedTokenStates /\ Sound(flights[f].result)
        BY <1>4, <2>1 DEF TablesInv, FlightShape, SessionsInv
      <3> QED BY <1>2, <2>1, <3>1, SoundKept DEF Sound
    <2>2. CASE flights'[f].result # flights[f].result
      <3>1. /\ f = OwnFlight(t)
            /\ kind[t] = "auth" => Sound(flights[f].result)'
        BY <1>4, <2>2 DEF SessionStep
      <3>2. kind[t] = "auth"
        BY <1>4, <3>1 DEF OwnFlight
      <3> QED BY <3>1, <3>2
    <2> QED BY <2>1, <2>2
  <1> QED BY <1>1, <1>3, <1>4 DEF SessionsInv

\* A step that touches no flight leaves the thread's unbegun flights fresh.
LEMMA AheadKept ==
    ASSUME SessionsInv, NEW t \in Threads, UNCHANGED <<flights, issued, callNo>>
    PROVE  /\ \A n \in 1 .. MaxCalls, j \in Kinds : callNo[t] < n => Fresh(<<t, n, j>>)'
           /\ pc[t] # "idle" /\ kind[t] = "identity"
                => Fresh(<<t, callNo[t], "auth">>)'
  <1>1. /\ \A n \in 1 .. MaxCalls, j \in Kinds : callNo[t] < n => Fresh(<<t, n, j>>)
        /\ pc[t] # "idle" /\ kind[t] = "identity" => Fresh(<<t, callNo[t], "auth">>)
    BY DEF SessionsInv, FlightsAhead
  <1>2. ASSUME NEW f PROVE Fresh(f) => Fresh(f)'
    BY DEF Fresh
  <1>3. \A n \in 1 .. MaxCalls, j \in Kinds : callNo[t] < n => Fresh(<<t, n, j>>)'
    <2>1. SUFFICES ASSUME NEW n \in 1 .. MaxCalls, NEW j \in Kinds, callNo[t] < n
                   PROVE  Fresh(<<t, n, j>>)'
      OBVIOUS
    <2>2. Fresh(<<t, n, j>>)
      BY <1>1, <2>1
    <2> QED BY <1>2, <2>2
  <1>4. pc[t] # "idle" /\ kind[t] = "identity" => Fresh(<<t, callNo[t], "auth">>)'
    BY <1>1 DEF Fresh
  <1> QED BY <1>3, <1>4

\* A call that ends, or is given its identity or a fitting session, by a step
\* that changes nothing but the table and the call.
LEMMA OutcomeKeepsSessions ==
    ASSUME ClientAssumption, TablesInv, TypeOK', SessionsInv, NEW t \in Threads,
           UNCHANGED <<flights, issued, tokenState, callNo>>,
           pc[t] \notin Running \cup {"idle"},
           \/ EndCall(t)
           \/ kind[t] = "identity" /\ \E i \in Identities : UseIdentity(t, i)
           \/ /\ kind[t] = "auth"
              /\ \E s \in CachedTokenStates :
                    s # Nothing /\ Sound(s) /\ Fits(s, t) /\ UseSession(t, s)
    PROVE  SessionsInv'
  <1>1. /\ OthersUnchanged(t)
        /\ pc'[t] \in {"idle", "lookup", "acquire", "credentials"}
    BY Outcome
  <1>2. SessionStep(t)
    BY <1>1 DEF SessionStep
  <1>3. ASSUME EndCall(t)
        PROVE  FlightsAhead(t)' /\ CallFits(t)'
    <2>1. pc'[t] = "idle" /\ session'[t] = Nothing
      BY <1>3 DEF EndCall, GoTo, TablesInv, TypeOK
    <2>2. \A n \in 1 .. MaxCalls, j \in Kinds : callNo[t] < n => Fresh(<<t, n, j>>)'
      BY AheadKept
    <2> QED BY <2>1, <2>2 DEF FlightsAhead, CallFits
  <1>4. ASSUME kind[t] = "identity", NEW i \in Identities, UseIdentity(t, i)
        PROVE  FlightsAhead(t)' /\ CallFits(t)'
    <2>1. /\ pc'[t] \in {"lookup", "acquire"} /\ kind'[t] = "auth"
          /\ session'[t] = Nothing
      BY <1>4 DEF UseIdentity, GoTo, TablesInv, TypeOK, SessionsInv, FlightsAhead
    <2>2. \A n \in 1 .. MaxCalls, j \in Kinds : callNo[t] < n => Fresh(<<t, n, j>>)'
      BY AheadKept
    <2>3. Fresh(OwnFlight(t))'
      BY <1>4, <2>1 DEF SessionsInv, FlightsAhead, Fresh, OwnFlight
    <2> QED BY <2>1, <2>2, <2>3 DEF FlightsAhead, CallFits
  <1>5. ASSUME kind[t] = "auth", NEW s \in CachedTokenStates, s # Nothing, Sound(s),
               Fits(s, t), UseSession(t, s)
        PROVE  FlightsAhead(t)' /\ CallFits(t)'
    <2>1. CASE request[t].force
      BY <1>3, <1>5, <2>1 DEF UseSession
    <2>2. CASE ~request[t].force
      <3>1. /\ pc'[t] = "credentials" /\ kind'[t] = "auth" /\ session'[t] = s
            /\ request'[t] = request[t] /\ identity'[t] = identity[t]
        BY <1>5, <2>2 DEF UseSession, GoTo, TablesInv, TypeOK
      <3>2. \A n \in 1 .. MaxCalls, j \in Kinds : callNo[t] < n => Fresh(<<t, n, j>>)'
        BY AheadKept
      <3>3. FlightsAhead(t)'
        BY <3>1, <3>2 DEF FlightsAhead
      <3>4. CallFits(t)'
        BY <1>5, <3>1 DEF CallFits, Sound, Fits
      <3> QED BY <3>3, <3>4
    <2> QED BY <2>1, <2>2
  <1> QED BY <1>2, <1>3, <1>4, <1>5, SessionStepKeeps

\* A thread that joins waits for a flight of the same key, hence of its scope.
LEMMA JoinSessions ==
    ASSUME ClientAssumption, TablesInv, TypeOK', SessionsInv, NEW t \in Threads, Join(t)
    PROVE  SessionsInv'
  <1>1. /\ OthersUnchanged(t)
        /\ UNCHANGED <<flights, issued, tokenState, callNo, kind, request, identity, session>>
        /\ pc[t] = "coalesce" /\ pc'[t] = "wait"
        /\ joined'[t] = inFlight[KeyOf(t)] /\ KeyOf(t) \in FlightKeys
    BY KeyType DEF TablesInv, TypeOK, Join, GoTo, OthersUnchanged, sharedVars
  <1>2. PICK v \in Threads : Leads(v, inFlight[KeyOf(t)]) /\ KeyOf(v) = KeyOf(t)
    BY <1>1 DEF Join, TablesInv, EntriesHaveLeaders
  <1>3. v # t /\ joined[v] = joined'[t] /\ pc[v] \in Leading
    BY <1>1, <1>2 DEF Leads, Leading, Running
  <1>4. SessionStep(t)
    BY <1>1 DEF SessionStep, Running
  <1>5. FlightsAhead(t)'
    <2>1. \A n \in 1 .. MaxCalls, j \in Kinds : callNo[t] < n => Fresh(<<t, n, j>>)'
      BY <1>1, AheadKept
    <2>2. kind[t] = "identity" => Fresh(<<t, callNo[t], "auth">>)'
      BY <1>1, AheadKept
    <2>3. session[t] = Nothing
      BY <1>1 DEF SessionsInv, FlightsAhead
    <2> QED BY <1>1, <2>1, <2>2, <2>3 DEF FlightsAhead
  <1>6. CallFits(t)'
    <2>1. session[t] = Nothing
      BY <1>1 DEF SessionsInv, FlightsAhead
    <2>2. ASSUME kind[t] = "auth", flights[joined[v]].result # Nothing
          PROVE  Fits(flights[joined[v]].result, t)
      <3>1. kind[v] = "auth" /\ AuthSingleFlightKey(v) = AuthSingleFlightKey(t)
        <4>1. KeyOf(t) # IdentityKey
          BY <2>2, KeyType DEF TablesInv
        <4> QED BY <1>2, <2>2, <4>1 DEF KeyOf, TablesInv, TypeOK, Kinds
      <3>2. pc[v] \in {"publish", "retire"}
        <4>1. pc[v] \in {"lead", "store", "clear", "settle"}
                => flights[joined[v]] = NewInFlight
          BY DEF SessionsInv, FlightsAhead, Fresh
        <4>2. NewInFlight.result = Nothing
          BY DEF NewInFlight
        <4> QED BY <1>3, <2>2, <4>1, <4>2 DEF Leading, Running
      <3>3. Fits(flights[joined[v]].result, v)
        BY <2>2, <3>1, <3>2 DEF SessionsInv, CallFits
      <3> QED BY <3>1, <3>3 DEF Fits, AuthSingleFlightKey
    <2>3. flights[joined[v]].done \/ pc[v] \in Running
      BY <1>3 DEF TablesInv, LeaderOwnsEntry, Leading
    <2>4. pc'[v] = pc[v] /\ joined'[v] = joined[v] /\ KeyOf(v)' = KeyOf(v)
      BY <1>1, <1>3, OthersKeep
    <2>5. KeyOf(t)' = KeyOf(t)
      BY <1>1 DEF KeyOf, AuthSingleFlightKey
    <2>6. kind'[t] = "auth" /\ flights'[joined'[t]].result # Nothing
            => Fits(flights[joined[t]].result, t)'
      BY <1>1, <1>3, <2>2 DEF Fits
    <2>7. flights'[joined'[t]].done
          \/ \E u \in Threads : /\ joined'[u] = joined'[t] /\ pc'[u] \in Running
                               /\ KeyOf(u)' = KeyOf(t)'
      BY <1>1, <1>2, <1>3, <2>3, <2>4, <2>5
    <2> QED BY <1>1, <2>1, <2>6, <2>7 DEF CallFits
  <1> QED BY <1>1, <1>4, <1>5, <1>6, SessionStepKeeps

\* A new leader's flight is fresh: it has neither result nor session.
LEMMA LeadSessions ==
    ASSUME ClientAssumption, TablesInv, TypeOK', SessionsInv, NEW t \in Threads, Lead(t)
    PROVE  SessionsInv'
  <1>1. /\ OthersUnchanged(t)
        /\ UNCHANGED <<flights, issued, tokenState, callNo, kind, request, identity, session>>
        /\ pc[t] = "coalesce" /\ pc'[t] = "lead" /\ joined'[t] = OwnFlight(t)
    BY DEF TablesInv, TypeOK, Lead, GoTo, OthersUnchanged
  <1>2. SessionStep(t)
    BY <1>1 DEF SessionStep, Running
  <1>3. FlightsAhead(t)'
    <2>1. \A n \in 1 .. MaxCalls, j \in Kinds : callNo[t] < n => Fresh(<<t, n, j>>)'
      BY <1>1, AheadKept
    <2>2. kind[t] = "identity" => Fresh(<<t, callNo[t], "auth">>)'
      BY <1>1, AheadKept
    <2>3. session[t] = Nothing /\ Fresh(joined[t])'
      BY <1>1 DEF SessionsInv, FlightsAhead, Fresh
    <2> QED BY <1>1, <2>1, <2>2, <2>3 DEF FlightsAhead
  <1>4. CallFits(t)'
    BY <1>1 DEF SessionsInv, FlightsAhead, CallFits
  <1> QED BY <1>1, <1>2, <1>3, <1>4, SessionStepKeeps

\* Publication changes no session.
LEMMA PublishSessions ==
    ASSUME ClientAssumption, TablesInv, TypeOK', SessionsInv, NEW t \in Threads, Publish(t)
    PROVE  SessionsInv'
  <1>1. /\ OthersUnchanged(t)
        /\ UNCHANGED <<issued, tokenState, callNo, kind, request, identity, session, joined>>
        /\ pc[t] = "publish" /\ pc'[t] = "retire"
        /\ KeyOf(t)' = KeyOf(t)
    BY DEF TablesInv, TypeOK, Publish, GoTo, OthersUnchanged, callVars, KeyOf,
           AuthSingleFlightKey
  <1>2. joined[t] = OwnFlight(t) /\ joined[t] \in FlightIds
    BY <1>1, LeaderFlight DEF Leading, Running
  <1>3. \A f \in FlightIds : /\ f # joined[t] => flights'[f] = flights[f]
                            /\ flights'[f].result = flights[f].result
    BY DEF Publish, TablesInv, TypeOK, InFlightObjects
  <1>4. \A f \in FlightIds : flights[f].done \/ f = joined[t] => flights'[f].done
    BY DEF Publish, TablesInv, TypeOK, InFlightObjects
  <1>5. SessionStep(t)
    BY <1>1, <1>2, <1>3, <1>4 DEF SessionStep, Running
  <1>6. FlightsAhead(t)'
    <2>1. \A n \in 1 .. MaxCalls, j \in Kinds :
             callNo[t] < n => <<t, n, j>> \in FlightIds /\ <<t, n, j>> # OwnFlight(t)
      BY DEF FlightIds, OwnFlight, TablesInv, TypeOK
    <2>2. ASSUME NEW n \in 1 .. MaxCalls, NEW j \in Kinds, callNo[t] < n
          PROVE  Fresh(<<t, n, j>>)'
      <3>1. Fresh(<<t, n, j>>)
        BY <2>2 DEF SessionsInv, FlightsAhead
      <3>2. <<t, n, j>> \in FlightIds /\ <<t, n, j>> # joined[t]
        BY <1>2, <2>1, <2>2
      <3> QED BY <1>1, <1>3, <3>1, <3>2 DEF Fresh
    <2>3. kind[t] = "identity" => Fresh(<<t, callNo[t], "auth">>)'
      <3>1. CASE kind[t] = "identity"
        <4>1. <<t, callNo[t], "auth">> \in FlightIds
          BY <1>1 DEF FlightIds, TablesInv, CallShape, Kinds
        <4>2. <<t, callNo[t], "auth">> # OwnFlight(t)
          BY <3>1 DEF OwnFlight
        <4>3. Fresh(<<t, callNo[t], "auth">>)
          BY <1>1, <3>1 DEF SessionsInv, FlightsAhead
        <4> QED BY <1>1, <1>2, <1>3, <4>1, <4>2, <4>3 DEF Fresh
      <3> QED BY <3>1
    <2>4. kind[t] = "identity" => session[t] = Nothing
      BY DEF SessionsInv, FlightsAhead
    <2> QED BY <1>1, <2>2, <2>3, <2>4 DEF FlightsAhead
  <1>7. CallFits(t)'
    <2>1. session[t] # Nothing => Sound(session[t]) /\ Fits(session[t], t)
      BY DEF SessionsInv, CallFits
    <2>2. kind[t] = "auth" /\ flights[joined[t]].result # Nothing
            => Fits(flights[joined[t]].result, t)
      BY <1>1 DEF SessionsInv, CallFits
    <2> QED BY <1>1, <1>2, <1>3, <2>1, <2>2 DEF CallFits, Sound, Fits
  <1> QED BY <1>1, <1>5, <1>6, <1>7, SessionStepKeeps

\* A leader's step short of the publication: it may write its own flight, which
\* is not done yet, its own session and the cache, all with sound sessions.
LEMMA RunKeepsSessions ==
    ASSUME ClientAssumption, TablesInv, TypeOK', SessionsInv, NEW t \in Threads,
           pc[t] \in Running \ {"publish"}, pc'[t] \in Running \ {"lead"},
           UNCHANGED <<callNo, kind, request, identity, joined>>, OthersUnchanged(t),
           \A f \in FlightIds :
              f # joined[t] => flights'[f] = flights[f] /\ issued'[f] = issued[f],
           issued[joined[t]] # Nothing => issued'[joined[t]] = issued[joined[t]],
           pc'[t] # "publish" => flights' = flights,
           ~flights'[joined[t]].done,
           kind[t] = "auth" /\ flights'[joined[t]].result # Nothing =>
              Fits(flights'[joined[t]].result, t) /\ Sound(flights[joined[t]].result)',
           session'[t] # Nothing =>
              kind[t] = "auth" /\ Sound(session[t])' /\ Fits(session'[t], t),
           tokenState' = tokenState \/ tokenState' = Nothing \/ Sound(tokenState)'
    PROVE  SessionsInv'
  <1>1. /\ joined[t] = OwnFlight(t) /\ joined[t] \in FlightIds
        /\ KeyOf(t)' = KeyOf(t)
    BY LeaderFlight DEF Leading, KeyOf, AuthSingleFlightKey
  <1>2. flights[joined[t]] = NewInFlight
    BY DEF SessionsInv, FlightsAhead, Fresh, Running
  <1>3. ~flights[joined[t]].done
    BY <1>2 DEF NewInFlight
  <1>4. SessionStep(t)
    BY <1>1, <1>3 DEF SessionStep
  <1>5. FlightsAhead(t)'
    <2>1. ASSUME NEW n \in 1 .. MaxCalls, NEW j \in Kinds, callNo[t] < n
          PROVE  Fresh(<<t, n, j>>)'
      <3>1. Fresh(<<t, n, j>>)
        BY <2>1 DEF SessionsInv, FlightsAhead
      <3>2. <<t, n, j>> \in FlightIds /\ <<t, n, j>> # joined[t]
        BY <1>1, <2>1 DEF FlightIds, OwnFlight, TablesInv, TypeOK
      <3> QED BY <3>1, <3>2 DEF Fresh
    <2>2. ASSUME kind[t] = "identity"
          PROVE  Fresh(<<t, callNo[t], "auth">>)'
      <3>1. <<t, callNo[t], "auth">> \in FlightIds
        BY DEF FlightIds, TablesInv, CallShape, Kinds, Running
      <3>2. <<t, callNo[t], "auth">> # joined[t]
        BY <1>1, <2>2 DEF OwnFlight
      <3>3. Fresh(<<t, callNo[t], "auth">>)
        BY <2>2 DEF SessionsInv, FlightsAhead, Running
      <3> QED BY <3>1, <3>2, <3>3 DEF Fresh
    <2>3. pc'[t] \in {"store", "clear", "settle"} => flights'[joined[t]] = NewInFlight
      BY <1>2
    <2> QED BY <2>1, <2>2, <2>3 DEF FlightsAhead, Running
  <1>6. CallFits(t)'
    BY DEF CallFits, Running, Fits
  <1> QED BY <1>4, <1>5, <1>6, SessionStepKeeps

\* An interrupted or failed leader, and the steps that touch only the cache.
LEMMA CacheStepSessions ==
    ASSUME ClientAssumption, TablesInv, TypeOK', SessionsInv, NEW t \in Threads,
           InterruptLeader(t) \/ AuthFailed(t) \/ StoreSession(t) \/ ClearStale(t)
    PROVE  SessionsInv'
  <1>1. /\ pc[t] \in Running \ {"publish"} /\ pc'[t] \in Running \ {"lead"}
        /\ UNCHANGED <<flights, issued, callNo, kind, request, identity, joined, session>>
        /\ OthersUnchanged(t)
        /\ tokenState' \in {tokenState, Nothing, session[t]}
    BY DEF InterruptLeader, AuthFailed, StoreSession, ClearStale, GoTo, TablesInv, TypeOK,
           Running, OthersUnchanged, sharedVars, callVars
  <1>2. flights[joined[t]] = NewInFlight
    BY <1>1 DEF SessionsInv, FlightsAhead, Fresh, Running
  <1>3. ~flights[joined[t]].done /\ flights[joined[t]].result = Nothing
    BY <1>2 DEF NewInFlight
  <1>4. session[t] # Nothing =>
           kind[t] = "auth" /\ Sound(session[t]) /\ Fits(session[t], t)
    BY DEF SessionsInv, FlightsAhead, CallFits, TablesInv, TypeOK, Kinds
  <1>5. session'[t] # Nothing =>
           kind[t] = "auth" /\ Sound(session[t])' /\ Fits(session'[t], t)
    BY <1>1, <1>4 DEF Sound
  <1>6. tokenState' = tokenState \/ tokenState' = Nothing \/ Sound(tokenState)'
    BY <1>1, <1>4 DEF Sound
  <1> QED BY <1>1, <1>3, <1>5, <1>6, RunKeepsSessions

\* The provider's answer concerns an identity flight, which yields no session.
LEMMA CollectSessions ==
    ASSUME ClientAssumption, TablesInv, TypeOK', SessionsInv, NEW t \in Threads,
           CollectAsLeader(t)
    PROVE  SessionsInv'
  <1>1. /\ pc[t] = "lead" /\ pc'[t] = "publish" /\ kind[t] = "identity"
        /\ UNCHANGED <<issued, callNo, kind, request, identity, joined, session, tokenState>>
        /\ OthersUnchanged(t)
    BY DEF CollectAsLeader, GoTo, TablesInv, TypeOK, OthersUnchanged, callVars
  <1>2. joined[t] \in FlightIds
    BY <1>1, LeaderFlight DEF Leading, Running
  <1>3. flights[joined[t]] = NewInFlight /\ session[t] = Nothing
    BY <1>1 DEF SessionsInv, FlightsAhead, Fresh
  <1>4. /\ \A f \in FlightIds : f # joined[t] => flights'[f] = flights[f]
        /\ flights'[joined[t]].done = flights[joined[t]].done
    BY <1>2 DEF CollectAsLeader, TablesInv, TypeOK, InFlightObjects
  <1>5. ~flights'[joined[t]].done
    BY <1>3, <1>4 DEF NewInFlight
  <1> QED BY <1>1, <1>3, <1>4, <1>5, RunKeepsSessions DEF Running

\* The session of an answer is the one the Edge API has just recorded.
LEMMA AnswerSessions ==
    ASSUME ClientAssumption, TablesInv, TypeOK', SessionsInv, NEW t \in Threads,
           AuthAnswered(t)
    PROVE  SessionsInv'
  <1>1. /\ pc[t] = "lead" /\ pc'[t] = "store" /\ kind[t] = "auth"
        /\ UNCHANGED <<flights, callNo, kind, request, identity, joined, tokenState>>
        /\ OthersUnchanged(t)
    BY DEF AuthAnswered, GoTo, TablesInv, TypeOK, OthersUnchanged
  <1>2. joined[t] \in FlightIds
    BY <1>1, LeaderFlight DEF Leading, Running
  <1>3. flights[joined[t]] = NewInFlight /\ issued[joined[t]] = Nothing
    BY <1>1 DEF SessionsInv, FlightsAhead, Fresh
  <1>4. ~flights[joined[t]].done /\ flights[joined[t]].result = Nothing
    BY <1>3 DEF NewInFlight
  <1>5. /\ \A f \in FlightIds : f # joined[t] => issued'[f] = issued[f]
        /\ issued'[joined[t]] = [client |-> identity[t],
                                 resourceSet |-> request[t].resourceSet]
    BY <1>2 DEF AuthAnswered, TablesInv, TypeOK
  <1>6. issued'[joined[t]] # Nothing
    <2>1. identity[t] \in Identities /\ request[t].resourceSet \in ResourceSets
      BY <1>1 DEF TablesInv, CallShape, TypeOK, Requests
    <2> QED BY <1>5, <2>1 DEF ClientAssumption, IssuedSessions
  <1>7. /\ session'[t].accessToken = joined[t]
        /\ session'[t].resourceSet = request[t].resourceSet
        /\ session'[t].authCacheKey = AuthCacheKeyOf[identity[t]]
    BY DEF AuthAnswered, TablesInv, TypeOK
  <1>8. Sound(session[t])' /\ Fits(session'[t], t)
    BY <1>5, <1>6, <1>7 DEF Sound, Fits
  <1> QED BY <1>1, <1>3, <1>4, <1>5, <1>8, RunKeepsSessions DEF Running

\* The flight is given the session its leader was issued.
LEMMA SettleSessions ==
    ASSUME ClientAssumption, TablesInv, TypeOK', SessionsInv, NEW t \in Threads, Settle(t)
    PROVE  SessionsInv'
  <1>1. /\ pc[t] = "settle" /\ pc'[t] = "publish"
        /\ UNCHANGED <<issued, callNo, kind, request, identity, joined, session, tokenState>>
        /\ OthersUnchanged(t)
    BY DEF Settle, GoTo, TablesInv, TypeOK, OthersUnchanged, callVars
  <1>2. joined[t] \in FlightIds
    BY <1>1, LeaderFlight DEF Leading, Running
  <1>3. flights[joined[t]] = NewInFlight
    BY <1>1 DEF SessionsInv, FlightsAhead
  <1>4. /\ \A f \in FlightIds : f # joined[t] => flights'[f] = flights[f]
        /\ flights'[joined[t]].done = flights[joined[t]].done
        /\ flights'[joined[t]].result \in {flights[joined[t]].result, session[t]}
    BY <1>2 DEF Settle, TablesInv, TypeOK, InFlightObjects
  <1>5. ~flights'[joined[t]].done /\ flights'[joined[t]].result \in {Nothing, session[t]}
    BY <1>3, <1>4 DEF NewInFlight
  <1>6. session[t] # Nothing =>
           kind[t] = "auth" /\ Sound(session[t]) /\ Fits(session[t], t)
    BY DEF SessionsInv, FlightsAhead, CallFits, TablesInv, TypeOK, Kinds
  <1>7. session'[t] # Nothing =>
           kind[t] = "auth" /\ Sound(session[t])' /\ Fits(session'[t], t)
    BY <1>1, <1>6 DEF Sound
  <1>8. flights'[joined[t]].result # Nothing =>
           Fits(flights'[joined[t]].result, t) /\ Sound(flights[joined[t]].result)'
    BY <1>1, <1>5, <1>6 DEF Sound
  <1> QED BY <1>1, <1>4, <1>5, <1>7, <1>8, RunKeepsSessions DEF Running

\* The next call's flights are all ahead of it.
LEMMA StartSessions ==
    ASSUME ClientAssumption, TablesInv, TypeOK', SessionsInv, NEW t \in Threads,
           StartCall(t)
    PROVE  SessionsInv'
  <1>1. /\ pc[t] = "idle" /\ pc'[t] \in {"collect", "coalesce"}
        /\ kind[t] = "identity" /\ session[t] = Nothing
        /\ callNo[t] \in Nat /\ callNo'[t] = callNo[t] + 1 /\ callNo'[t] \in 1 .. MaxCalls
        /\ UNCHANGED <<flights, issued, tokenState, kind, identity, joined, session>>
        /\ OthersUnchanged(t)
    <2>1. pc[t] = "idle" /\ kind[t] = "identity" /\ session[t] = Nothing
      BY DEF StartCall, TablesInv, CallShape, SessionsInv, FlightsAhead
    <2>2. /\ callNo[t] \in 0 .. MaxCalls /\ callNo[t] < MaxCalls /\ MaxCalls \in Nat
          /\ callNo'[t] = callNo[t] + 1
      BY DEF StartCall, TablesInv, TypeOK, ClientAssumption
    <2>3. pc'[t] \in {"collect", "coalesce"} /\ OthersUnchanged(t)
      BY DEF StartCall, GoTo, TablesInv, TypeOK, OthersUnchanged
    <2> QED BY <2>1, <2>2, <2>3 DEF StartCall
  <1>2. SessionStep(t)
    BY <1>1 DEF SessionStep, Running
  <1>3. ASSUME NEW n \in 1 .. MaxCalls, NEW j \in Kinds, callNo[t] < n
        PROVE  Fresh(<<t, n, j>>)'
    <2>1. Fresh(<<t, n, j>>)
      BY <1>3 DEF SessionsInv, FlightsAhead
    <2> QED BY <1>1, <2>1 DEF Fresh
  <1>4. \A n \in 1 .. MaxCalls, j \in Kinds : callNo'[t] < n => Fresh(<<t, n, j>>)'
    BY <1>1, <1>3
  <1>5. Fresh(<<t, callNo[t], "auth">>)' /\ Fresh(<<t, callNo[t], "identity">>)'
    <2>1. \A j \in Kinds : Fresh(<<t, callNo'[t], j>>)
      <3>1. \A n \in 1 .. MaxCalls, j \in Kinds : callNo[t] < n => Fresh(<<t, n, j>>)
        BY DEF SessionsInv, FlightsAhead
      <3>2. callNo[t] < callNo'[t]
        BY <1>1
      <3> QED BY <1>1, <3>1, <3>2
    <2> QED BY <1>1, <2>1 DEF Fresh, Kinds
  <1>6. FlightsAhead(t)'
    BY <1>1, <1>4, <1>5 DEF FlightsAhead, OwnFlight
  <1>7. CallFits(t)'
    BY <1>1 DEF CallFits
  <1> QED BY <1>1, <1>2, <1>6, <1>7, SessionStepKeeps

\* A waiter, or the leader itself, takes the outcome of a finished flight.
LEMMA TakeOutcomeSessions ==
    ASSUME ClientAssumption, TablesInv, TypeOK', SessionsInv, NEW t \in Threads,
           Wake(t) \/ Retire(t)
    PROVE  SessionsInv'
  <1>1. /\ pc[t] \in {"wait", "retire"}
        /\ TakeOutcome(t, joined[t])
        /\ UNCHANGED <<flights, issued, tokenState, callNo>>
    BY DEF Wake, Retire, sharedVars
  <1>2. joined[t] \in FlightIds /\ joined[t][3] = kind[t] /\ FlightShape(joined[t])
    <2>1. pc[t] = "wait" => joined[t] \in FlightIds /\ joined[t][3] = kind[t]
      BY DEF TablesInv, CallShape
    <2>2. pc[t] = "retire" => joined[t] \in FlightIds /\ joined[t][3] = kind[t]
      BY LeaderFlight DEF Leading
    <2> QED BY <1>1, <2>1, <2>2 DEF TablesInv
  <1>3. kind[t] = "auth" /\ flights[joined[t]].result # Nothing
          => Sound(flights[joined[t]].result) /\ Fits(flights[joined[t]].result, t)
    BY <1>1, <1>2 DEF SessionsInv, CallFits
  <1>4. \/ EndCall(t)
        \/ /\ kind[t] = "identity" /\ flights[joined[t]].result \in Identities
           /\ UseIdentity(t, flights[joined[t]].result)
        \/ /\ kind[t] = "auth" /\ flights[joined[t]].result \in CachedTokenStates
           /\ flights[joined[t]].result # Nothing
           /\ UseSession(t, flights[joined[t]].result)
    BY <1>1, <1>2, OutcomeCases DEF TablesInv
  <1> QED BY <1>1, <1>3, <1>4, OutcomeKeepsSessions DEF Running

\* A call that looks at the cache takes only what fits it, and one that misses
\* goes on as it was.
LEMMA LookupSessions ==
    ASSUME ClientAssumption, TablesInv, TypeOK', SessionsInv, NEW t \in Threads,
           LookupSession(t) \/ AcquireSession(t)
    PROVE  SessionsInv'
  <1>1. /\ pc[t] \in {"lookup", "acquire"} /\ kind[t] = "auth"
        /\ UNCHANGED <<flights, issued, tokenState, callNo>>
    BY DEF LookupSession, AcquireSession, sharedVars, TablesInv, CallShape
  <1>2. CASE CachedSessionFits(t) /\ UseSession(t, tokenState)
    <2>1. /\ tokenState \in CachedTokenStates /\ tokenState # Nothing
          /\ Sound(tokenState) /\ Fits(tokenState, t)
      BY <1>2 DEF CachedSessionFits, IsTokenValid, Fits, SessionsInv, TablesInv, TypeOK
    <2> QED BY <1>1, <1>2, <2>1, OutcomeKeepsSessions DEF Running
  <1>3. CASE (GoTo(t, "acquire") \/ GoTo(t, "coalesce")) /\ UNCHANGED callVars
    <2>1. pc'[t] \in {"acquire", "coalesce"} /\ OthersUnchanged(t)
      BY <1>1, <1>3 DEF GoTo, callVars, TablesInv, TypeOK, OthersUnchanged
    <2>2. SessionStep(t)
      BY <1>1, <2>1 DEF SessionStep, Running
    <2>3. session[t] = Nothing /\ Fresh(OwnFlight(t))
      BY <1>1 DEF SessionsInv, FlightsAhead
    <2>4. Fresh(OwnFlight(t))'
      BY <1>1, <1>3, <2>3 DEF Fresh, OwnFlight, callVars
    <2>5. FlightsAhead(t)'
      BY <1>1, <1>3, <2>1, <2>3, <2>4, AheadKept DEF FlightsAhead, callVars
    <2>6. CallFits(t)'
      BY <1>3, <2>1, <2>3 DEF CallFits, callVars
    <2> QED BY <1>1, <2>2, <2>5, <2>6, SessionStepKeeps
  <1> QED BY <1>2, <1>3 DEF LookupSession, AcquireSession

\* Nothing has been issued or asked for at first.
LEMMA SessionsInit == ClientAssumption /\ Init => SessionsInv
  <1> SUFFICES ASSUME ClientAssumption, Init PROVE SessionsInv
    OBVIOUS
  <1>1. \A f \in FlightIds : Fresh(f) /\ flights[f].result = Nothing
    BY DEF Init, Fresh, NewInFlight
  <1>2. ASSUME NEW t \in Threads
        PROVE  FlightsAhead(t) /\ CallFits(t)
    <2>1. pc[t] = "idle" /\ session[t] = Nothing
      BY DEF Init
    <2>2. \A n \in 1 .. MaxCalls, j \in Kinds : Fresh(<<t, n, j>>)
      BY <1>1 DEF FlightIds
    <2> QED BY <2>1, <2>2 DEF FlightsAhead, CallFits
  <1>3. tokenState = Nothing
    BY DEF Init
  <1> QED BY <1>1, <1>2, <1>3 DEF SessionsInv

\* The session invariant is inductive on top of the table invariant.
LEMMA SessionsStep ==
    ClientAssumption /\ TablesInv /\ TypeOK' /\ SessionsInv /\ [Next]_vars => SessionsInv'
  <1> SUFFICES ASSUME ClientAssumption, TablesInv, TypeOK', SessionsInv, [Next]_vars
               PROVE  SessionsInv'
    OBVIOUS
  <1>1. CASE UNCHANGED vars \/ Tick \/ Finished
    <2>1. UNCHANGED <<tokenState, inFlight, flights, issued, pc, callNo, kind, request,
                      identity, joined, session>>
      BY <1>1 DEF vars, Tick, Finished
    <2>2. \A t \in Threads : FlightsAhead(t)'
      <3>1. TAKE t \in Threads
      <3>2. OwnFlight(t)' = OwnFlight(t)
        BY <2>1 DEF OwnFlight
      <3>3. FlightsAhead(t)
        BY DEF SessionsInv
      <3>4. /\ pc[t] \in {"coalesce", "lookup", "acquire"} => Fresh(OwnFlight(t))'
            /\ pc[t] = "lead" => Fresh(joined[t])'
        BY <2>1, <3>2, <3>3 DEF FlightsAhead, Fresh
      <3> QED BY <2>1, <3>3, <3>4, AheadKept DEF FlightsAhead
    <2>3. \A t \in Threads : CallFits(t)'
      <3>1. TAKE t \in Threads
      <3>2. \A u \in Threads : KeyOf(u)' = KeyOf(u)
        BY <2>1 DEF KeyOf, AuthSingleFlightKey
      <3>3. CallFits(t)
        BY DEF SessionsInv
      <3> QED BY <2>1, <3>2, <3>3 DEF CallFits, Sound, Fits
    <2> QED BY <2>1, <2>2, <2>3 DEF SessionsInv, Sound
  <1>2. ASSUME NEW t \in Threads, CollectUncached(t)
        PROVE  SessionsInv'
    <2>1. pc[t] = "collect" /\ kind[t] = "identity"
      BY <1>2 DEF CollectUncached, TablesInv, CallShape
    <2> QED BY <1>2, <2>1, OutcomeKeepsSessions DEF CollectUncached, sharedVars, Running
  <1>3. ASSUME NEW t \in Threads, InterruptCall(t) \/ CredentialsAnswered(t)
        PROVE  SessionsInv'
    BY <1>3, OutcomeKeepsSessions
       DEF InterruptCall, CredentialsAnswered, sharedVars, Running
  <1> QED BY <1>1, <1>2, <1>3, StartSessions, JoinSessions, LeadSessions, PublishSessions,
             TakeOutcomeSessions, CollectSessions, AnswerSessions, SettleSessions,
             CacheStepSessions, LookupSessions DEF Next, Step

\* Every reachable state satisfies the session invariant.
THEOREM SessionsInvariant == Spec => []SessionsInv
  <1>1. Init => SessionsInv
    BY ClientAssumption, SessionsInit
  <1>2. TablesInv /\ TypeOK' /\ SessionsInv /\ [Next]_vars => SessionsInv'
    BY ClientAssumption, SessionsStep
  <1> QED BY <1>1, <1>2, TablesInvariant, TypeCorrect, PTL DEF Spec

\* The one cached session, the retries of other threads and the shared flights
\* never lend a call the bearer of another Resource Set or cache key.
THEOREM SessionsAreScoped == Spec => []SessionServesItsCall
  <1>1. SessionsInv => SessionServesItsCall
    BY DEF SessionsInv, CallFits, Sound, Fits, SessionServesItsCall
  <1> QED BY <1>1, SessionsInvariant, PTL

\* Where cache keys tell identities apart, the bearer belongs to the very
\* identity that the request presents.  Built-in providers send no cache key,
\* so for them the code leaves it to the provider to present but one identity.
THEOREM BearersMatchIdentities ==
    ASSUME \A i, j \in Identities : AuthCacheKeyOf[i] = AuthCacheKeyOf[j] => i = j
    PROVE  Spec => []SessionServesItsIdentity
  <1>1. TablesInv /\ SessionsInv => SessionServesItsIdentity
    <2> SUFFICES ASSUME TablesInv, SessionsInv, NEW t \in Threads, pc[t] = "credentials"
                 PROVE  issued[session[t].accessToken].client = identity[t]
      BY DEF SessionServesItsIdentity
    <2>1. /\ session[t] \in CachedTokenStates /\ Sound(session[t]) /\ Fits(session[t], t)
          /\ identity[t] \in Identities
      BY DEF TablesInv, TypeOK, CallShape, SessionsInv, CallFits, Kinds
    <2>2. issued[session[t].accessToken] \in IssuedSessions
      BY <2>1 DEF CachedTokenStates, Sound, TablesInv, TypeOK
    <2> QED BY <2>1, <2>2 DEF IssuedSessions, Sound, Fits
  <1> QED BY <1>1, TablesInvariant, SessionsInvariant, PTL

\* A flight whose outcome a call may still take up late is led by a thread that
\* has not left it: its own call has released its waiters, and has only to
\* remove the entry.  A call thus never takes up work whose caller is gone.
LateOnlyWhileRetiring ==
    \A t \in Threads :
        Join(t) =>
            \E u \in Threads \ {t} :
                /\ Leads(u, inFlight[KeyOf(t)])
                /\ flights[inFlight[KeyOf(t)]].done => pc[u] = "retire"

\* How late a late joiner can be: between done.set() and the leader's taking the
\* lock, and no later.
THEOREM LateJoinsAreBrief == Spec => [][LateOnlyWhileRetiring]_vars
  <1>1. TablesInv /\ SessionsInv /\ [Next]_vars => [LateOnlyWhileRetiring]_vars
    <2> SUFFICES ASSUME TablesInv, SessionsInv, NEW t \in Threads, Join(t)
                 PROVE  \E u \in Threads \ {t} :
                          /\ Leads(u, inFlight[KeyOf(t)])
                          /\ flights[inFlight[KeyOf(t)]].done => pc[u] = "retire"
      BY DEF LateOnlyWhileRetiring
    <2>1. KeyOf(t) \in FlightKeys /\ inFlight[KeyOf(t)] # Nothing /\ pc[t] = "coalesce"
      BY ClientAssumption, KeyType DEF TablesInv, Join
    <2>2. PICK u \in Threads : Leads(u, inFlight[KeyOf(t)]) /\ KeyOf(u) = KeyOf(t)
      BY <2>1 DEF TablesInv, EntriesHaveLeaders
    <2>3. u # t
      BY <2>1, <2>2 DEF Leads, Leading, Running
    <2>4. pc[u] \in Running => ~flights[joined[u]].done
      <3>1. FlightsAhead(u) /\ ~NewInFlight.done
        BY DEF SessionsInv, NewInFlight
      <3>2. pc[u] = "lead" => flights[joined[u]] = NewInFlight
        BY <3>1 DEF FlightsAhead, Fresh
      <3>3. pc[u] \in {"store", "clear", "settle"} => flights[joined[u]] = NewInFlight
        BY <3>1 DEF FlightsAhead
      <3>4. pc[u] = "publish" => ~flights[joined[u]].done
        BY <3>1 DEF FlightsAhead
      <3> QED BY <3>1, <3>2, <3>3, <3>4 DEF Running
    <2> QED BY <2>2, <2>3, <2>4 DEF Leads, Leading
  <1> QED BY <1>1, TablesInvariant, SessionsInvariant, PTL DEF Spec

\* A thread that is about to store a session holds one.
StoresSession == \A t \in Threads : pc[t] = "store" => session[t] # Nothing

\* Only an answered authentication leads to the store, and it has a session.
LEMMA StoresSessionStep ==
    ClientAssumption /\ TablesInv /\ StoresSession /\ [Next]_vars => StoresSession'
  <1> SUFFICES ASSUME ClientAssumption, TablesInv, StoresSession, [Next]_vars
               PROVE  StoresSession'
    OBVIOUS
  <1>1. CASE UNCHANGED vars \/ Tick \/ Finished
    BY <1>1 DEF vars, Tick, Finished, StoresSession
  <1>2. ASSUME NEW t \in Threads, pc'[t] # "store",
               \A u \in Threads \ {t} : pc'[u] = pc[u] /\ session'[u] = session[u]
        PROVE  StoresSession'
    BY <1>2 DEF StoresSession
  <1>3. ASSUME NEW t \in Threads, AuthAnswered(t)
        PROVE  StoresSession'
    <2>1. pc[t] \in Leading /\ kind[t] = "auth"
      BY <1>3 DEF AuthAnswered, Leading, Running
    <2>2. joined[t] \in FlightIds /\ AuthCacheKeyOf[identity[t]] \in AuthCacheKeys
      BY <2>1, LeaderFlight DEF TablesInv, CallShape, ClientAssumption
    <2>3. ASSUME NEW lifetime \in Lifetimes
          PROVE  [accessToken |-> joined[t], expiresAt |-> ExpiresAt(lifetime),
                  resourceSet |-> request[t].resourceSet,
                  authCacheKey |-> AuthCacheKeyOf[identity[t]]] \in CachedTokenStates
      <3>1. ExpiresAt(lifetime) \in Instants /\ request[t].resourceSet \in ResourceSets
        BY DEF TablesInv, TypeOK, ClientAssumption, ExpiresAt, Instants, Requests
      <3> QED BY <2>2, <3>1 DEF CachedTokenStates
    <2>4. session'[t] \in CachedTokenStates
      BY <1>3, <2>3 DEF AuthAnswered, TablesInv, TypeOK
    <2>5. \A u \in Threads \ {t} : pc'[u] = pc[u] /\ session'[u] = session[u]
      BY <1>3 DEF AuthAnswered, GoTo, TablesInv, TypeOK
    <2> QED BY <2>4, <2>5 DEF StoresSession, ClientAssumption
  <1>4. ASSUME NEW t \in Threads,
               \/ StartCall(t) \/ Join(t) \/ Lead(t) \/ Publish(t)
               \/ CollectAsLeader(t) \/ StoreSession(t) \/ AuthFailed(t) \/ ClearStale(t)
               \/ Settle(t) \/ InterruptLeader(t)
        PROVE  StoresSession'
    BY <1>2, <1>4 DEF StartCall, Join, Lead, Publish, CollectAsLeader, StoreSession,
                      AuthFailed, ClearStale, Settle, InterruptLeader, GoTo, callVars,
                      TablesInv, TypeOK
  <1>5. ASSUME NEW t \in Threads,
               \/ EndCall(t)
               \/ \E i : UseIdentity(t, i)
               \/ \E s : UseSession(t, s)
               \/ (GoTo(t, "acquire") \/ GoTo(t, "coalesce")) /\ UNCHANGED callVars
        PROVE  StoresSession'
    BY <1>2, <1>5 DEF EndCall, UseIdentity, UseSession, GoTo, callVars, TablesInv, TypeOK
  <1>6. ASSUME NEW t \in Threads,
               \/ CollectUncached(t) \/ Wake(t) \/ Retire(t) \/ LookupSession(t)
               \/ AcquireSession(t) \/ CredentialsAnswered(t) \/ InterruptCall(t)
        PROVE  StoresSession'
    BY <1>5, <1>6 DEF CollectUncached, Wake, Retire, TakeOutcome, LookupSession,
                      AcquireSession, CredentialsAnswered, InterruptCall
  <1> QED BY <1>1, <1>3, <1>4, <1>6 DEF Next, Step

\* No step takes a valid session out of the cache without putting a new one in
\* its place, a failed authentication least of all.
THEOREM ValidSessionsStay == Spec => CachedSessionKept
  <1>1. Init => StoresSession
    BY DEF Init, StoresSession
  <1>2. TablesInv /\ StoresSession /\ [Next]_vars => StoresSession'
    BY ClientAssumption, StoresSessionStep
  <1>3. TablesInv /\ StoresSession /\ [Next]_vars
          => [IsTokenValid(tokenState) => tokenState' # Nothing]_vars
    <2> SUFFICES ASSUME StoresSession, Next, IsTokenValid(tokenState)
                 PROVE  tokenState' # Nothing
      OBVIOUS
    <2>1. ASSUME NEW t \in Threads, StoreSession(t)
          PROVE  tokenState' # Nothing
      BY <2>1 DEF StoreSession, StoresSession
    <2>2. ASSUME NEW t \in Threads, ClearStale(t)
          PROVE  tokenState' # Nothing
      BY <2>2 DEF ClearStale, MayClear, IsTokenValid
    <2>3. tokenState # Nothing
      BY DEF IsTokenValid
    <2>4. CASE \E t \in Threads :
                  \/ StartCall(t) \/ CollectUncached(t) \/ Join(t) \/ Lead(t) \/ Wake(t)
                  \/ Publish(t) \/ Retire(t) \/ CollectAsLeader(t) \/ AuthAnswered(t)
                  \/ AuthFailed(t) \/ Settle(t) \/ LookupSession(t) \/ AcquireSession(t)
                  \/ CredentialsAnswered(t) \/ InterruptLeader(t) \/ InterruptCall(t)
      <3>1. tokenState' = tokenState
        BY <2>4 DEF StartCall, CollectUncached, Join, Lead, Wake, Publish, Retire,
                    CollectAsLeader, AuthAnswered, AuthFailed, Settle, LookupSession,
                    AcquireSession, CredentialsAnswered, InterruptLeader, InterruptCall,
                    sharedVars
      <3> QED BY <2>3, <3>1
    <2>5. CASE Tick \/ Finished
      BY <2>3, <2>5 DEF Tick, Finished, vars
    <2> QED BY <2>1, <2>2, <2>4, <2>5 DEF Next, Step
  <1> QED BY <1>1, <1>2, <1>3, TablesInvariant, PTL DEF Spec, CachedSessionKept

-----------------------------------------------------------------------------
(* Progress: what is left to fairness is that every thread gets to run.  A  *)
(* call can be held up only in wait, by NoOrphanedWaiter only for a leader, *)
(* and leaders do not wait.                                                 *)

\* How far a call is from its end; it looks for a session once it has its
\* identity.
Distance ==
    [collect |-> 10, lookup |-> 9, acquire |-> 8, coalesce |-> 7, lead |-> 6, wait |-> 6,
     store |-> 5, clear |-> 5, settle |-> 4, publish |-> 3, retire |-> 2,
     credentials |-> 1, idle |-> 0]

StepsLeft(t) ==
    Distance[pc[t]] + IF pc[t] # "idle" /\ kind[t] = "identity" THEN 8 ELSE 0

\* No thread goes round in circles: every change to a running call, whoever
\* makes it and however its flights end, brings the call nearer to its end, so
\* that a call never takes more than eighteen steps of its own.
Dwindles(t) ==
    pc[t] # "idle" =>
        \/ UNCHANGED <<pc[t], callNo[t], kind[t], request[t], identity[t], joined[t],
                       session[t]>>
        \/ StepsLeft(t)' \in Nat /\ StepsLeft(t)' < StepsLeft(t)

AllDwindle == \A t \in Threads : Dwindles(t)

CallsDwindle == [][AllDwindle]_vars

\* Where thread t may go from each location with the kind of work it has.
MovesOn(t) ==
    \/ pc[t] = "idle"
    \/ pc[t] # "idle" /\ pc'[t] = "idle"
    \/ /\ kind[t] = "identity" /\ pc[t] \in {"collect", "wait", "retire"}
       /\ kind'[t] = "auth" /\ pc'[t] \in {"lookup", "acquire"}
    \/ /\ kind'[t] = kind[t]
       /\ \/ pc[t] = "coalesce" /\ pc'[t] \in {"wait", "lead"}
          \/ pc[t] = "lead" /\ pc'[t] \in {"store", "clear", "publish"}
          \/ pc[t] \in {"store", "clear"} /\ pc'[t] \in {"settle", "publish"}
          \/ pc[t] = "settle" /\ pc'[t] = "publish"
          \/ pc[t] = "publish" /\ pc'[t] = "retire"
          \/ pc[t] = "lookup" /\ pc'[t] = "acquire"
          \/ pc[t] = "acquire" /\ pc'[t] = "coalesce"
          \/ pc[t] \in {"wait", "retire", "lookup", "acquire"} /\ kind[t] = "auth"
             /\ pc'[t] = "credentials"

\* Moving on in that order is what brings the end nearer.
LEMMA MovingOnDwindles ==
    ASSUME TypeOK, NEW t \in Threads, OthersUnchanged(t), MovesOn(t)
    PROVE  AllDwindle
  <1>1. \A u \in Threads \ {t} : Dwindles(u)
    BY DEF OthersUnchanged, Dwindles
  <1>2. CASE pc[t] = "idle"
    BY <1>1, <1>2 DEF AllDwindle, Dwindles
  <1>3. CASE pc[t] # "idle" /\ pc'[t] = "idle"
    <2>1. StepsLeft(t)' = 0 /\ Distance[pc[t]] \in 1 .. 10
      BY <1>3 DEF StepsLeft, Distance, TypeOK, Locations
    <2> QED BY <1>1, <2>1 DEF AllDwindle, StepsLeft, Dwindles
  <1>4. CASE pc[t] # "idle" /\ pc'[t] # "idle"
    <2>1. StepsLeft(t)' \in Nat /\ StepsLeft(t)' < StepsLeft(t)
      BY <1>4 DEF MovesOn, StepsLeft, Distance
    <2> QED BY <1>1, <2>1 DEF AllDwindle, Dwindles
  <1> QED BY <1>2, <1>3, <1>4

\* Outcomes end the call, or give it its identity, or its session.
LEMMA OutcomeMovesOn ==
    ASSUME ClientAssumption, TablesInv, NEW t \in Threads, callNo' = callNo,
           \/ pc[t] # "idle" /\ EndCall(t)
           \/ /\ pc[t] \in {"collect", "wait", "retire"} /\ kind[t] = "identity"
              /\ \E i \in Identities : UseIdentity(t, i)
           \/ /\ pc[t] \in {"wait", "retire", "lookup", "acquire"} /\ kind[t] = "auth"
              /\ \E s : UseSession(t, s)
    PROVE  OthersUnchanged(t) /\ MovesOn(t)
  <1>1. OthersUnchanged(t)
    BY Outcome
  <1>2. CASE pc[t] # "idle" /\ EndCall(t)
    BY <1>1, <1>2 DEF EndCall, GoTo, TablesInv, TypeOK, MovesOn
  <1>3. ASSUME pc[t] \in {"collect", "wait", "retire"}, kind[t] = "identity",
               NEW i \in Identities, UseIdentity(t, i)
        PROVE  MovesOn(t)
    BY <1>3 DEF UseIdentity, GoTo, TablesInv, TypeOK, MovesOn
  <1>4. ASSUME pc[t] \in {"wait", "retire", "lookup", "acquire"}, kind[t] = "auth",
               NEW s, UseSession(t, s)
        PROVE  MovesOn(t)
    BY <1>2, <1>4 DEF UseSession, GoTo, TablesInv, TypeOK, MovesOn
  <1> QED BY <1>1, <1>2, <1>3, <1>4

\* Every call comes to its end in so many steps, unless it has to wait.
THEOREM CallsEndInSight == Spec => CallsDwindle
  <1>1. TablesInv /\ [Next]_vars => [AllDwindle]_vars
    <2> SUFFICES ASSUME TablesInv, Next PROVE AllDwindle
      OBVIOUS
    <2>0. TypeOK
      BY DEF TablesInv
    <2>1. CASE Tick \/ Finished
      BY <2>1 DEF Tick, Finished, vars, AllDwindle, Dwindles
    <2>2. ASSUME NEW t \in Threads,
                 \/ StartCall(t) \/ Join(t) \/ Lead(t) \/ Publish(t)
                 \/ CollectAsLeader(t) \/ AuthAnswered(t) \/ StoreSession(t) \/ AuthFailed(t)
                 \/ ClearStale(t) \/ Settle(t) \/ InterruptLeader(t)
                 \/ LookupSession(t) /\ GoTo(t, "acquire") /\ UNCHANGED callVars
                 \/ AcquireSession(t) /\ GoTo(t, "coalesce") /\ UNCHANGED callVars
          PROVE  AllDwindle
      <3>1. OthersUnchanged(t)
        BY <2>0, <2>2 DEF TypeOK, StartCall, Join, Lead, Publish, CollectAsLeader, AuthAnswered,
                    StoreSession, AuthFailed, ClearStale, Settle, InterruptLeader,
                    LookupSession, AcquireSession, GoTo, callVars, sharedVars, OthersUnchanged
      <3>2. MovesOn(t)
        BY <2>0, <2>2 DEF TypeOK, StartCall, Join, Lead, Publish, CollectAsLeader, AuthAnswered,
                    StoreSession, AuthFailed, ClearStale, Settle, InterruptLeader,
                    LookupSession, AcquireSession, GoTo, callVars, MovesOn
      <3> QED BY <2>0, <3>1, <3>2, MovingOnDwindles
    <2>3. ASSUME NEW t \in Threads,
                 \/ CollectUncached(t) \/ CredentialsAnswered(t) \/ InterruptCall(t)
                 \/ Wake(t) \/ Retire(t)
                 \/ LookupSession(t) /\ UseSession(t, tokenState)
                 \/ AcquireSession(t) /\ UseSession(t, tokenState)
          PROVE  AllDwindle
      <3>1. CASE CollectUncached(t)
        BY <2>0, <3>1, ClientAssumption, OutcomeMovesOn, MovingOnDwindles
           DEF CollectUncached, sharedVars, TablesInv, CallShape
      <3>2. CASE CredentialsAnswered(t) \/ InterruptCall(t)
        BY <2>0, <3>2, ClientAssumption, OutcomeMovesOn, MovingOnDwindles
           DEF CredentialsAnswered, InterruptCall, sharedVars
      <3>3. CASE Wake(t) \/ Retire(t)
        <4>1. /\ pc[t] \in {"wait", "retire"} /\ callNo' = callNo
              /\ TakeOutcome(t, joined[t])
          BY <3>3 DEF Wake, Retire, sharedVars
        <4>2. joined[t] \in FlightIds /\ joined[t][3] = kind[t] /\ FlightShape(joined[t])
          BY <4>1, ClientAssumption, LeaderFlight DEF TablesInv, CallShape, Leading
        <4>3. \/ EndCall(t)
              \/ kind[t] = "identity" /\ \E i \in Identities : UseIdentity(t, i)
              \/ kind[t] = "auth" /\ \E s : UseSession(t, s)
          BY <2>0, <4>1, <4>2, OutcomeCases
        <4> QED BY <2>0, <4>1, <4>3, ClientAssumption, OutcomeMovesOn, MovingOnDwindles
      <3>4. CASE (LookupSession(t) \/ AcquireSession(t)) /\ UseSession(t, tokenState)
        <4>1. pc[t] \in {"lookup", "acquire"} /\ kind[t] = "auth" /\ callNo' = callNo
          BY <3>4 DEF LookupSession, AcquireSession, sharedVars, TablesInv, CallShape
        <4> QED BY <2>0, <3>4, <4>1, ClientAssumption, OutcomeMovesOn, MovingOnDwindles
      <3> QED BY <2>3, <3>1, <3>2, <3>3, <3>4
    <2>4. ASSUME NEW t \in Threads, LookupSession(t) \/ AcquireSession(t)
          PROVE  AllDwindle
      BY <2>2, <2>3, <2>4 DEF LookupSession, AcquireSession
    <2> QED BY <2>1, <2>2, <2>3, <2>4 DEF Next, Step
  <1> QED BY <1>1, TablesInvariant, PTL DEF Spec, CallsDwindle

-----------------------------------------------------------------------------
(* The client implements SessionBroker: every step of any thread is a step *)
(* of the broker, or none, under the mapping of EdgeClientPy.              *)

\* A call has an identity once it coalesces authentications, and not before.
CallIdentity == \A t \in Threads : kind[t] = "identity" => identity[t] = Nothing

\* A thread that coalesces identities, or is in no call, has none yet.
LEMMA IdentityStep == TablesInv /\ CallIdentity /\ [Next]_vars => CallIdentity'
  <1> SUFFICES ASSUME TablesInv, CallIdentity, [Next]_vars
               PROVE  CallIdentity'
    OBVIOUS
  <1>1. CASE UNCHANGED vars \/ Tick \/ Finished
    BY <1>1 DEF vars, Tick, Finished, CallIdentity
  <1>2. ASSUME UNCHANGED <<kind, identity>>
        PROVE  CallIdentity'
    BY <1>2 DEF CallIdentity
  <1>3. ASSUME NEW t \in Threads,
               \/ StartCall(t) \/ Join(t) \/ Lead(t) \/ Publish(t)
               \/ CollectAsLeader(t) \/ AuthAnswered(t) \/ StoreSession(t) \/ AuthFailed(t)
               \/ ClearStale(t) \/ Settle(t) \/ InterruptLeader(t)
        PROVE  CallIdentity'
    BY <1>2, <1>3 DEF StartCall, Join, Lead, Publish, CollectAsLeader, AuthAnswered,
                      StoreSession, AuthFailed, ClearStale, Settle, InterruptLeader, callVars
  <1>4. ASSUME NEW t \in Threads,
               \/ EndCall(t)
               \/ \E i : UseIdentity(t, i)
               \/ \E s : UseSession(t, s)
               \/ UNCHANGED callVars
        PROVE  CallIdentity'
    <2>1. CASE EndCall(t)
      BY <2>1 DEF EndCall, CallIdentity, TablesInv, TypeOK
    <2>2. CASE \E i : UseIdentity(t, i)
      BY <2>2 DEF UseIdentity, CallIdentity, TablesInv, TypeOK
    <2>3. CASE UNCHANGED <<kind, identity>>
      BY <1>2, <2>3
    <2> QED BY <1>4, <2>1, <2>2, <2>3 DEF UseSession, callVars
  <1>5. ASSUME NEW t \in Threads,
               \/ CollectUncached(t) \/ Wake(t) \/ Retire(t) \/ LookupSession(t)
               \/ AcquireSession(t) \/ CredentialsAnswered(t) \/ InterruptCall(t)
        PROVE  CallIdentity'
    BY <1>4, <1>5 DEF CollectUncached, Wake, Retire, TakeOutcome, LookupSession,
                      AcquireSession, CredentialsAnswered, InterruptCall
  <1> QED BY <1>1, <1>3, <1>4, <1>5 DEF Next, Step

\* What a step does, in the broker's terms.
BrokerStep == [Broker!BrokerNext]_Broker!brokerVars

\* A step that changes no scope, bearer or issued session is no step of it.
LEMMA Unseen ==
    ASSUME \A t \in Threads : Wanted(t)' = Wanted(t) /\ Granted(t)' = Granted(t),
           \A f \in FlightIds : IssuedFor(f)' = IssuedFor(f)
    PROVE  BrokerStep
  BY DEF BrokerStep, Broker!brokerVars

\* A call that comes to know its identity asks for a session.
LEMMA UseIdentityAsks ==
    ASSUME ClientAssumption, TablesInv, CallIdentity, NEW t \in Threads,
           NEW i \in Identities, kind[t] = "identity", pc[t] # "credentials",
           UseIdentity(t, i), UNCHANGED issued
    PROVE  BrokerStep
  <1> DEFINE k == <<request[t].resourceSet, AuthCacheKeyOf[i]>>
  <1>1. k \in Scopes
    BY DEF ClientAssumption, TablesInv, TypeOK, Requests, Scopes
  <1>2. Wanted(t) = Nothing /\ Wanted(t)' = k
    BY DEF CallIdentity, UseIdentity, TablesInv, TypeOK, Wanted, ClientAssumption
  <1>3. \A u \in Threads : /\ u # t => Wanted(u)' = Wanted(u)
                          /\ Granted(u)' = Granted(u)
    BY DEF UseIdentity, GoTo, TablesInv, TypeOK, Wanted, Granted
  <1>4. \A f \in FlightIds : IssuedFor(f)' = IssuedFor(f)
    BY DEF IssuedFor
  <1>5. Broker!Ask(t, k)
    BY <1>2, <1>3, <1>4 DEF Broker!Ask
  <1> QED BY <1>1, <1>5 DEF BrokerStep, Broker!BrokerNext

\* A call that ends leaves the broker, if it ever asked.
LEMMA EndCallLeaves ==
    ASSUME ClientAssumption, TablesInv, CallIdentity, NEW t \in Threads,
           EndCall(t), UNCHANGED issued
    PROVE  BrokerStep
  <1>1. /\ \A u \in Threads : u # t => Wanted(u)' = Wanted(u) /\ Granted(u)' = Granted(u)
        /\ Wanted(t)' = Nothing /\ Granted(t)' = Nothing
    BY DEF EndCall, GoTo, TablesInv, TypeOK, Wanted, Granted
  <1>2. \A f \in FlightIds : IssuedFor(f)' = IssuedFor(f)
    BY DEF IssuedFor
  <1>3. CASE identity[t] = Nothing
    <2>1. pc[t] # "credentials"
      BY <1>3 DEF TablesInv, CallShape, ClientAssumption
    <2>2. Wanted(t) = Nothing /\ Granted(t) = Nothing
      BY <1>3, <2>1 DEF Wanted, Granted
    <2> QED BY <1>1, <1>2, <2>2, Unseen
  <1>4. CASE identity[t] # Nothing
    <2>1. Wanted(t) # Nothing
      <3>1. kind[t] = "auth" /\ identity[t] \in Identities
        BY <1>4 DEF CallIdentity, TablesInv, TypeOK, CallShape, Kinds
      <3>2. <<request[t].resourceSet, AuthCacheKeyOf[identity[t]]>>
              \in ResourceSets \X AuthCacheKeys
        BY <3>1 DEF ClientAssumption, TablesInv, TypeOK, Requests
      <3> QED BY <1>4, <3>2 DEF Wanted, ClientAssumption
    <2>2. Broker!Leave(t)
      BY <1>1, <1>2, <2>1 DEF Broker!Leave
    <2> QED BY <2>2 DEF BrokerStep, Broker!BrokerNext
  <1> QED BY <1>3, <1>4

\* A call handed a sound session that fits is granted it; a forced one returns.
LEMMA UseSessionGrants ==
    ASSUME ClientAssumption, TablesInv, CallIdentity, NEW t \in Threads,
           NEW s \in CachedTokenStates, Sound(s), Fits(s, t), kind[t] = "auth",
           pc[t] # "credentials", UseSession(t, s), UNCHANGED issued
    PROVE  BrokerStep
  <1>1. CASE request[t].force
    BY <1>1, EndCallLeaves DEF UseSession
  <1>2. CASE ~request[t].force
    <2>1. identity[t] \in Identities /\ identity[t] # Nothing
      BY DEF TablesInv, CallShape, ClientAssumption
    <2>2. /\ \A u \in Threads : Wanted(u)' = Wanted(u)
          /\ \A u \in Threads : u # t => Granted(u)' = Granted(u)
          /\ Granted(t) = Nothing /\ Granted(t)' = s.accessToken
      BY <1>2 DEF UseSession, GoTo, TablesInv, TypeOK, Wanted, Granted
    <2>3. Wanted(t) = <<s.resourceSet, s.authCacheKey>> /\ Wanted(t) # Nothing
      <3>1. <<s.resourceSet, s.authCacheKey>> \in ResourceSets \X AuthCacheKeys
        BY DEF CachedTokenStates
      <3> QED BY <2>1, <3>1 DEF Wanted, Fits, ClientAssumption
    <2>4. s.accessToken \in FlightIds /\ IssuedFor(s.accessToken) = Wanted(t)
      BY <2>3 DEF CachedTokenStates, IssuedFor, Sound
    <2>5. \A f \in FlightIds : IssuedFor(f)' = IssuedFor(f)
      BY DEF IssuedFor
    <2>6. PICK f \in FlightIds : f = s.accessToken
      BY <2>4
    <2>7. /\ Granted(t) = Nothing /\ Granted(t)' = f
          /\ Wanted(t) # Nothing /\ IssuedFor(f) = Wanted(t)
      BY <2>2, <2>3, <2>4, <2>6
    <2>8. Broker!Grant(t, f)
      BY <2>2, <2>5, <2>7 DEF Broker!Grant
    <2> QED BY <2>8 DEF BrokerStep, Broker!BrokerNext
  <1> QED BY <1>1, <1>2

\* The Edge API's answer issues a session for the leader's scope.
LEMMA AnswerIssues ==
    ASSUME ClientAssumption, TablesInv, SessionsInv, NEW t \in Threads, AuthAnswered(t)
    PROVE  BrokerStep
  <1>1. /\ joined[t] \in FlightIds /\ issued[joined[t]] = Nothing
        /\ identity[t] \in Identities /\ request[t].resourceSet \in ResourceSets
    <2>1. pc[t] = "lead" /\ kind[t] = "auth"
      BY DEF AuthAnswered
    <2>2. joined[t] \in FlightIds
      BY <2>1, LeaderFlight DEF Leading, Running
    <2> QED BY <2>1, <2>2 DEF SessionsInv, FlightsAhead, Fresh, TablesInv, CallShape,
                              TypeOK, Requests
  <1>2. /\ \A f \in FlightIds : f # joined[t] => issued'[f] = issued[f]
        /\ issued'[joined[t]] = [client |-> identity[t],
                                 resourceSet |-> request[t].resourceSet]
    BY <1>1 DEF AuthAnswered, TablesInv, TypeOK
  <1>3. issued'[joined[t]] # Nothing
    BY <1>1, <1>2 DEF ClientAssumption, IssuedSessions
  <1>4. identity[t] # Nothing
    BY <1>1 DEF ClientAssumption
  <1>5. /\ IssuedFor(joined[t]) = Nothing
        /\ IssuedFor(joined[t])' = <<request[t].resourceSet, AuthCacheKeyOf[identity[t]]>>
        /\ Wanted(t) = <<request[t].resourceSet, AuthCacheKeyOf[identity[t]]>>
        /\ \A f \in FlightIds : f # joined[t] => IssuedFor(f)' = IssuedFor(f)
    <2>1. joined'[t] = joined[t]
      BY DEF AuthAnswered
    <2> QED BY <1>1, <1>2, <1>3, <1>4, <2>1 DEF IssuedFor, Wanted
  <1>6. Wanted(t) # Nothing
    <2>1. <<request[t].resourceSet, AuthCacheKeyOf[identity[t]]>>
            \in ResourceSets \X AuthCacheKeys
      BY <1>1 DEF ClientAssumption
    <2> QED BY <1>5, <2>1 DEF ClientAssumption
  <1>7. /\ \A u \in Threads : Wanted(u)' = Wanted(u) /\ Granted(u)' = Granted(u)
        /\ Granted(t) = Nothing
    BY DEF AuthAnswered, GoTo, TablesInv, TypeOK, Wanted, Granted
  <1>8. PICK f \in FlightIds : f = joined[t]
    BY <1>1
  <1>9. /\ IssuedFor(f) = Nothing /\ IssuedFor(f)' = Wanted(t)
        /\ \A g \in FlightIds : g # f => IssuedFor(g)' = IssuedFor(g)
    <2>1. joined'[t] = joined[t] /\ UNCHANGED <<request, identity>>
      BY DEF AuthAnswered
    <2> QED BY <1>5, <1>8, <2>1 DEF IssuedFor
  <1>10. Broker!Issue(t, f)
    BY <1>6, <1>7, <1>9 DEF Broker!Issue
  <1> QED BY <1>10 DEF BrokerStep, Broker!BrokerNext

\* A call that takes the outcome of a flight, its own or another's.
LEMMA OutcomeImplements ==
    ASSUME ClientAssumption, TablesInv, SessionsInv, CallIdentity, NEW t \in Threads,
           Wake(t) \/ Retire(t)
    PROVE  BrokerStep
  <1>1. /\ pc[t] \in {"wait", "retire"}
        /\ TakeOutcome(t, joined[t])
        /\ UNCHANGED issued
    BY DEF Wake, Retire, sharedVars
  <1>2. joined[t] \in FlightIds /\ joined[t][3] = kind[t] /\ FlightShape(joined[t])
    <2>1. pc[t] = "wait" => joined[t] \in FlightIds /\ joined[t][3] = kind[t]
      BY DEF TablesInv, CallShape
    <2>2. pc[t] = "retire" => joined[t] \in FlightIds /\ joined[t][3] = kind[t]
      BY LeaderFlight DEF Leading
    <2> QED BY <1>1, <2>1, <2>2 DEF TablesInv
  <1>3. kind[t] = "auth" /\ flights[joined[t]].result # Nothing
          => Sound(flights[joined[t]].result) /\ Fits(flights[joined[t]].result, t)
    BY <1>1, <1>2 DEF SessionsInv, CallFits
  <1>4. \/ EndCall(t)
        \/ kind[t] = "identity" /\ \E i \in Identities : UseIdentity(t, i)
        \/ /\ kind[t] = "auth"
           /\ \E s \in CachedTokenStates : Sound(s) /\ Fits(s, t) /\ UseSession(t, s)
    BY <1>1, <1>2, <1>3, OutcomeCases DEF TablesInv
  <1> QED BY <1>1, <1>4, EndCallLeaves, UseIdentityAsks, UseSessionGrants

\* A call that looks at the cache is granted the session there, or goes on.
LEMMA LookupImplements ==
    ASSUME ClientAssumption, TablesInv, SessionsInv, CallIdentity, NEW t \in Threads,
           LookupSession(t) \/ AcquireSession(t)
    PROVE  BrokerStep
  <1>1. /\ pc[t] \in {"lookup", "acquire"} /\ kind[t] = "auth"
        /\ UNCHANGED issued
    BY DEF LookupSession, AcquireSession, sharedVars, TablesInv, CallShape
  <1>2. CASE CachedSessionFits(t) /\ UseSession(t, tokenState)
    <2>1. tokenState \in CachedTokenStates /\ Sound(tokenState) /\ Fits(tokenState, t)
      BY <1>2 DEF CachedSessionFits, IsTokenValid, Fits, SessionsInv, TablesInv, TypeOK
    <2> QED BY <1>1, <1>2, <2>1, UseSessionGrants
  <1>3. CASE (GoTo(t, "acquire") \/ GoTo(t, "coalesce")) /\ UNCHANGED callVars
    <2>1. /\ \A u \in Threads : Wanted(u)' = Wanted(u)
          /\ \A u \in Threads : Granted(u)' = Granted(u)
      BY <1>1, <1>3 DEF GoTo, callVars, TablesInv, TypeOK, Wanted, Granted
    <2>2. \A f \in FlightIds : IssuedFor(f)' = IssuedFor(f)
      BY <1>1 DEF IssuedFor
    <2> QED BY <2>1, <2>2, Unseen
  <1> QED BY <1>2, <1>3 DEF LookupSession, AcquireSession

\* The bookkeeping of flights and of the cache is invisible to the broker.
LEMMA BookkeepingUnseen ==
    ASSUME ClientAssumption, TablesInv, CallIdentity, NEW t \in Threads,
           \/ StartCall(t) \/ Join(t) \/ Lead(t) \/ Publish(t) \/ CollectAsLeader(t)
           \/ StoreSession(t) \/ AuthFailed(t) \/ ClearStale(t) \/ Settle(t)
           \/ InterruptLeader(t)
    PROVE  BrokerStep
  <1>1. /\ pc[t] # "credentials" /\ pc'[t] # "credentials"
        /\ \A u \in Threads : u # t => pc'[u] = pc[u] /\ request'[u] = request[u]
        /\ UNCHANGED <<issued, identity, session>>
        /\ request'[t] = request[t] \/ identity[t] = Nothing
    <2>1. CASE StartCall(t)
      BY <2>1 DEF StartCall, GoTo, TablesInv, TypeOK, CallIdentity, CallShape
    <2>2. CASE Join(t) \/ Lead(t) \/ Publish(t) \/ CollectAsLeader(t)
      BY <2>2 DEF Join, Lead, Publish, CollectAsLeader, GoTo, TablesInv, TypeOK,
                  sharedVars, callVars
    <2>3. CASE \/ StoreSession(t) \/ AuthFailed(t) \/ ClearStale(t) \/ Settle(t)
               \/ InterruptLeader(t)
      BY <2>3 DEF StoreSession, AuthFailed, ClearStale, Settle, InterruptLeader, GoTo,
                  TablesInv, TypeOK, sharedVars, callVars
    <2> QED BY <2>1, <2>2, <2>3
  <1>2. /\ \A u \in Threads : Wanted(u)' = Wanted(u)
        /\ \A u \in Threads : Granted(u)' = Granted(u)
    BY <1>1 DEF Wanted, Granted
  <1>3. \A f \in FlightIds : IssuedFor(f)' = IssuedFor(f)
    BY <1>1 DEF IssuedFor
  <1> QED BY <1>2, <1>3, Unseen

\* Every step of the client is a step of the broker or none.
LEMMA BrokerSimulation ==
    ClientAssumption /\ TablesInv /\ SessionsInv /\ CallIdentity /\ [Next]_vars => BrokerStep
  <1> SUFFICES ASSUME ClientAssumption, TablesInv, SessionsInv, CallIdentity, [Next]_vars
               PROVE  BrokerStep
    OBVIOUS
  <1>1. CASE UNCHANGED vars \/ Tick \/ Finished
    <2>1. UNCHANGED <<issued, identity, request, session, pc>>
      BY <1>1 DEF vars, Tick, Finished
    <2>2. \A u \in Threads : Wanted(u)' = Wanted(u) /\ Granted(u)' = Granted(u)
      BY <2>1 DEF Wanted, Granted
    <2>3. \A f \in FlightIds : IssuedFor(f)' = IssuedFor(f)
      BY <2>1 DEF IssuedFor
    <2> QED BY <2>2, <2>3, Unseen
  <1>2. ASSUME NEW t \in Threads,
               CollectUncached(t) \/ CredentialsAnswered(t) \/ InterruptCall(t)
        PROVE  BrokerStep
    <2>1. UNCHANGED issued
      BY <1>2 DEF CollectUncached, CredentialsAnswered, InterruptCall, sharedVars
    <2>2. CASE EndCall(t)
      BY <2>1, <2>2, EndCallLeaves
    <2>3. ASSUME NEW i \in Identities, pc[t] = "collect", UseIdentity(t, i)
          PROVE  BrokerStep
      BY <2>1, <2>3, UseIdentityAsks DEF TablesInv, CallShape
    <2> QED BY <1>2, <2>2, <2>3 DEF CollectUncached, CredentialsAnswered, InterruptCall
  <1> QED BY <1>1, <1>2, OutcomeImplements, LookupImplements, BookkeepingUnseen,
             AnswerIssues DEF Next, Step

\* The client starts as the broker does.
LEMMA BrokerInitially == ClientAssumption /\ Init => Broker!BrokerInit
  BY DEF Init, Broker!BrokerInit, Wanted, Granted, IssuedFor

\* The client implements the broker: its callers see sessions issued on demand
\* for their scope, and nothing of the cache or of the flights behind it.
THEOREM ClientImplementsBroker == Spec => ImplementsBroker
  <1>1. Init => CallIdentity /\ Broker!BrokerInit
    BY ClientAssumption, BrokerInitially DEF Init, CallIdentity
  <1>2. TablesInv /\ CallIdentity /\ [Next]_vars => CallIdentity'
    BY IdentityStep
  <1>3. TablesInv /\ SessionsInv /\ CallIdentity /\ [Next]_vars
          => [Broker!BrokerNext]_Broker!brokerVars
    BY ClientAssumption, BrokerSimulation DEF BrokerStep
  <1> QED BY <1>1, <1>2, <1>3, TablesInvariant, SessionsInvariant, PTL
          DEF Spec, ImplementsBroker, Broker!BrokerSpec
=============================================================================
