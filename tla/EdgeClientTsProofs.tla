------------------------- MODULE EdgeClientTsProofs -------------------------
(***************************************************************************)
(* Theorems about the TypeScript client, for any calls, Resource Sets,     *)
(* retry policies, identities and keys.                                    *)
(***************************************************************************)
EXTENDS EdgeClientTs, TLAPS

\* What a call refers to at each stage.
CallShape(c) ==
    /\ pc[c] \in {"new", "identity", "settled"} => identity[c] = Undefined
    /\ pc[c] \in {"auth", "bearer", "credentials"} => identity[c] \in Identities
    /\ pc[c] \in Kinds => joined[c] \in PromiseIds /\ joined[c][2] = pc[c]
    /\ pc[c] \in {"bearer", "credentials"} => session[c] \in CachedTokenStates

\* A promise that nothing has been done about yet.
Fresh(p) == promises[p] = Pending /\ issued[p] = Undefined

\* The promises a call may still make are fresh, and the authentication it runs
\* has had no session issued.
PromisesAhead(c) ==
    /\ pc[c] = "new" => Fresh(<<c, "identity">>)
    /\ pc[c] \in {"new", "identity"} => Fresh(<<c, "auth">>)
    /\ Runs(c, "auth") => issued[<<c, "auth">>] = Undefined

\* A promise yields what its kind promises.
PromiseShape(p) ==
    promises[p].state = "fulfilled" =>
        promises[p].value \in (IF p[2] = "identity" THEN Identities ELSE CachedTokenStates)

\* Keyed work that is still pending is found in the Maps.
RunnerEntered(c) ==
    \A k \in Kinds :
        Runs(c, k) /\ KeyOf(c) # Undefined => inFlight[KeyOf(c)] = <<c, k>>

\* The inductive invariant of the in-flight Maps.
TablesInv ==
    /\ TypeOK
    /\ \A c \in Calls : CallShape(c) /\ PromisesAhead(c) /\ RunnerEntered(c)
    /\ \A p \in PromiseIds : PromiseShape(p)
    /\ EntriesAreCleanedUp

-----------------------------------------------------------------------------
(* Types *)

\* No promise is Undefined.
LEMMA PromiseDefined ==
    ASSUME ClientTsAssumption, NEW p \in PromiseIds
    PROVE  p # Undefined
  BY DEF ClientTsAssumption

\* The key a call shares its work under.
LEMMA KeyType ==
    ASSUME ClientTsAssumption, TypeOK, NEW c \in Calls, NEW i \in Identities
    PROVE  /\ AuthSingleFlightKey(c, i) \in AuthKeys
           /\ AuthSingleFlightKey(c, i) \in FlightKeys
           /\ AuthSingleFlightKey(c, i) # IdentityKey
           /\ AuthSingleFlightKey(c, i) # Undefined
           /\ Scope(c, i) \in ResourceSets \X AuthCacheKeys
  <1>1. /\ request[c].resourceSet \in ResourceSets /\ request[c].retryKey \in RetryKeys
        /\ AuthCacheKeyOf[i] \in AuthCacheKeys
    BY DEF ClientTsAssumption, TypeOK, Requests
  <1>2. AuthSingleFlightKey(c, i) \in AuthKeys
    BY <1>1 DEF AuthSingleFlightKey, AuthKeys
  <1>3. IdentityKey \notin AuthKeys /\ Undefined \notin AuthKeys
    BY DEF ClientTsAssumption
  <1> QED BY <1>1, <1>2, <1>3 DEF Scope, FlightKeys

\* Writing one promise.
LEMMA PromiseUpdate ==
    ASSUME promises \in [PromiseIds -> Promises], NEW p \in PromiseIds
    PROVE  /\ \A v \in Identities \cup CachedTokenStates :
                 [promises EXCEPT ![p] = Fulfilled(v)] \in [PromiseIds -> Promises]
           /\ [promises EXCEPT ![p] = Rejected] \in [PromiseIds -> Promises]
           /\ [promises EXCEPT ![p].reacted = TRUE] \in [PromiseIds -> Promises]
  <1>1. promises[p] \in Promises
    OBVIOUS
  <1>2. \A v \in Identities \cup CachedTokenStates : Fulfilled(v) \in Promises
    BY DEF Fulfilled, Promises
  <1>3. Rejected \in Promises
    BY DEF Rejected, Promises
  <1>4. [promises[p] EXCEPT !.reacted = TRUE] \in Promises
    BY <1>1 DEF Promises
  <1> QED BY <1>2, <1>3, <1>4

\* What an answered authentication may yield.
LEMMA SessionType ==
    ASSUME ClientTsAssumption, TypeOK, NEW c \in Calls, identity[c] \in Identities,
           NEW s \in SessionsFor(c)
    PROVE  /\ s \in CachedTokenStates /\ s # Undefined
           /\ s.accessToken = <<c, "auth">>
           /\ <<s.resourceSet, s.authCacheKey>> = Scope(c, identity[c])
  <1>1. PICK lifetime \in Lifetimes :
            s = [accessToken |-> <<c, "auth">>, expiresAtMs |-> ExpiresAtMs(lifetime),
                 resourceSet |-> request[c].resourceSet,
                 authCacheKey |-> AuthCacheKeyOf[identity[c]]]
    BY DEF SessionsFor
  <1>2. ExpiresAtMs(lifetime) \in Instants
    BY DEF ClientTsAssumption, TypeOK, ExpiresAtMs, Instants
  <1>3. <<c, "auth">> \in PromiseIds
    BY DEF PromiseIds, Kinds
  <1>4. request[c].resourceSet \in ResourceSets /\ AuthCacheKeyOf[identity[c]] \in AuthCacheKeys
    BY DEF ClientTsAssumption, TypeOK, Requests
  <1>5. s \in CachedTokenStates
    BY <1>1, <1>2, <1>3, <1>4 DEF CachedTokenStates
  <1>6. Undefined \notin CachedTokenStates
    BY DEF ClientTsAssumption
  <1> QED BY <1>1, <1>5, <1>6 DEF Scope

\* A call that resumes awaits a promise of its stage, whose value has its type.
LEMMA ResumeType ==
    ASSUME TablesInv, NEW c \in Calls, NEW k \in Kinds, Resumes(c, k, "fulfilled")
    PROVE  /\ joined[c] \in PromiseIds /\ joined[c][2] = k
           /\ k = "identity" => promises[joined[c]].value \in Identities
           /\ k = "auth" => promises[joined[c]].value \in CachedTokenStates
  <1>1. pc[c] = k /\ promises[joined[c]].state = "fulfilled"
    BY DEF Resumes
  <1>2. joined[c] \in PromiseIds /\ joined[c][2] = k
    BY <1>1 DEF TablesInv, CallShape
  <1> QED BY <1>1, <1>2 DEF TablesInv, PromiseShape

\* The initial state is well typed.
LEMMA InitType == ClientTsAssumption /\ Init => TypeOK
  BY DEF ClientTsAssumption, Init, TypeOK, NoRequest, Requests, Pending, Promises, Kinds, Stages

\* Every step keeps the types.
LEMMA StepType ==
    ASSUME ClientTsAssumption, TablesInv, [Next]_vars
    PROVE  TypeOK'
  <1> USE DEF Stages, Kinds, GoTo
  <1>0. TypeOK
    BY DEF TablesInv
  <1>1. CASE UNCHANGED vars \/ Tick \/ Finished
    BY <1>0, <1>1 DEF TypeOK, vars, Tick, Finished, ClientTsAssumption
  <1>2. ASSUME NEW c \in Calls, EndCall(c),
               UNCHANGED <<now, tokenState, inFlight, promises, issued, request>>
        PROVE  TypeOK'
    BY <1>0, <1>2 DEF TypeOK, EndCall
  <1>3. ASSUME NEW c \in Calls, NEW p \in PromiseIds, Await(c, p),
               request' \in [Calls -> Requests],
               inFlight' \in [FlightKeys -> PromiseIds \cup {Undefined}],
               identity' \in [Calls -> Identities \cup {Undefined}],
               UNCHANGED <<now, tokenState, promises, issued, session>>
        PROVE  TypeOK'
    <2>1. p[2] \in Stages
      BY <1>3 DEF PromiseIds
    <2> QED BY <1>0, <1>3, <2>1 DEF TypeOK, Await
  <1>4. ASSUME NEW c \in Calls, NEW k \in Kinds, NEW key, Launch(c, k, key),
               key = Undefined \/ key \in FlightKeys,
               request' \in [Calls -> Requests],
               identity' \in [Calls -> Identities \cup {Undefined}],
               UNCHANGED <<now, tokenState, promises, issued, session>>
        PROVE  TypeOK'
    <2>1. <<c, k>> \in PromiseIds
      BY DEF PromiseIds
    <2>2. inFlight' \in [FlightKeys -> PromiseIds \cup {Undefined}]
      BY <1>0, <1>4, <2>1 DEF TypeOK, Launch
    <2> QED BY <1>3, <1>4, <2>1, <2>2 DEF Launch
  <1>5. ASSUME NEW c \in Calls, StartCall(c)
        PROVE  TypeOK'
    <2>1. request' \in [Calls -> Requests] /\ identity' \in [Calls -> Identities \cup {Undefined}]
      BY <1>0, <1>5 DEF TypeOK, StartCall
    <2>2. CASE IdentityKey # Undefined /\ inFlight[IdentityKey] # Undefined
      <3>1. inFlight[IdentityKey] \in PromiseIds
        BY <1>0, <2>2 DEF TypeOK, FlightKeys
      <3> QED BY <1>0, <1>3, <1>5, <2>1, <2>2, <3>1 DEF TypeOK, StartCall
    <2>3. CASE ~(IdentityKey # Undefined /\ inFlight[IdentityKey] # Undefined)
      <3>1. IdentityKey \in FlightKeys
        BY DEF FlightKeys
      <3> QED BY <1>4, <1>5, <2>1, <2>3, <3>1 DEF StartCall
    <2> QED BY <2>2, <2>3
  <1>6. ASSUME NEW c \in Calls, RejectEarly(c) \/ RethrowRejection(c) \/ CredentialsAnswered(c)
        PROVE  TypeOK'
    BY <1>2, <1>6 DEF RejectEarly, RethrowRejection, CredentialsAnswered
  <1>7. ASSUME NEW c \in Calls, CollectIdentity(c)
        PROVE  TypeOK'
    <2>1. <<c, "identity">> \in PromiseIds
      BY DEF PromiseIds
    <2>2. promises' \in [PromiseIds -> Promises]
      <3>1. PICK outcome \in {Fulfilled(i) : i \in Identities} \cup {Rejected} :
               promises' = [promises EXCEPT ![<<c, "identity">>] = outcome]
        BY <1>7 DEF CollectIdentity
      <3>2. promises \in [PromiseIds -> Promises]
        BY <1>0 DEF TypeOK
      <3>3. CASE outcome = Rejected
        BY <2>1, <3>1, <3>2, <3>3, PromiseUpdate
      <3>4. ASSUME NEW i \in Identities, outcome = Fulfilled(i)
            PROVE  promises' \in [PromiseIds -> Promises]
        BY <2>1, <3>1, <3>2, <3>4, PromiseUpdate
      <3> QED BY <3>1, <3>3, <3>4
    <2> QED BY <1>0, <1>7, <2>2 DEF TypeOK, CollectIdentity
  <1>8. ASSUME NEW c \in Calls, AuthSucceeds(c)
        PROVE  TypeOK'
    <2>1. <<c, "auth">> \in PromiseIds /\ identity[c] \in Identities
      BY <1>8 DEF PromiseIds, AuthSucceeds, Runs, TablesInv, CallShape
    <2>2. PICK s \in SessionsFor(c) :
             tokenState' = s /\ promises' = [promises EXCEPT ![<<c, "auth">>] = Fulfilled(s)]
      BY <1>8 DEF AuthSucceeds
    <2>3. s \in CachedTokenStates
      BY <1>0, <2>1, SessionType
    <2>4. promises' \in [PromiseIds -> Promises]
      BY <1>0, <2>1, <2>2, <2>3, PromiseUpdate DEF TypeOK
    <2>5. issued' \in [PromiseIds -> IssuedSessions \cup {Undefined}]
      BY <1>0, <1>8, <2>1 DEF TypeOK, AuthSucceeds, IssuedSessions, Requests
    <2> QED BY <1>0, <1>8, <2>2, <2>3, <2>4, <2>5 DEF TypeOK, AuthSucceeds
  <1>9. ASSUME NEW c \in Calls, AuthFails(c)
        PROVE  TypeOK'
    <2>1. <<c, "auth">> \in PromiseIds
      BY DEF PromiseIds
    <2>2. promises' \in [PromiseIds -> Promises]
      BY <1>0, <1>9, <2>1, PromiseUpdate DEF TypeOK, AuthFails
    <2> QED BY <1>0, <1>9, <2>2 DEF TypeOK, AuthFails
  <1>10. ASSUME NEW c \in Calls, CleanUp(c)
         PROVE  TypeOK'
    <2>1. joined[c] \in PromiseIds
      BY <1>10 DEF CleanUp, TablesInv, CallShape
    <2>2. promises' \in [PromiseIds -> Promises]
      BY <1>0, <1>10, <2>1, PromiseUpdate DEF TypeOK, CleanUp
    <2>3. inFlight' \in [FlightKeys -> PromiseIds \cup {Undefined}]
      BY <1>0, <1>10 DEF TypeOK, CleanUp
    <2> QED BY <1>0, <1>10, <2>2, <2>3 DEF TypeOK, CleanUp
  <1>11. ASSUME NEW c \in Calls, ReuseSession(c)
         PROVE  TypeOK'
    <2>1. promises[joined[c]].value \in Identities
      BY <1>11, ResumeType DEF ReuseSession
    <2> QED BY <1>0, <1>11, <2>1 DEF TypeOK, ReuseSession
  <1>12. ASSUME NEW c \in Calls, Authenticate(c)
         PROVE  TypeOK'
    <2> DEFINE i == promises[joined[c]].value
               key == AuthSingleFlightKey(c, i)
    <2>1. i \in Identities
      BY <1>12, ResumeType DEF Authenticate
    <2>2. key \in FlightKeys /\ key # Undefined
      BY <1>0, <2>1, KeyType
    <2>3. identity' \in [Calls -> Identities \cup {Undefined}] /\ request' \in [Calls -> Requests]
      BY <1>0, <1>12, <2>1 DEF TypeOK, Authenticate
    <2>4. CASE inFlight[key] # Undefined
      <3>1. inFlight[key] \in PromiseIds
        BY <1>0, <2>2, <2>4 DEF TypeOK
      <3> QED BY <1>0, <1>3, <1>12, <2>3, <2>4, <3>1 DEF TypeOK, Authenticate
    <2>5. CASE inFlight[key] = Undefined
      BY <1>4, <1>12, <2>2, <2>3, <2>5 DEF Authenticate
    <2> QED BY <2>4, <2>5
  <1>13. ASSUME NEW c \in Calls, TakeSession(c)
         PROVE  TypeOK'
    <2>1. promises[joined[c]].value \in CachedTokenStates
      BY <1>13, ResumeType DEF TakeSession
    <2> QED BY <1>0, <1>13, <2>1 DEF TypeOK, TakeSession
  <1>14. ASSUME NEW c \in Calls, UseSession(c)
         PROVE  TypeOK'
    BY <1>0, <1>2, <1>14 DEF TypeOK, UseSession
  <1> QED BY <1>1, <1>5, <1>6, <1>7, <1>8, <1>9, <1>10, <1>11, <1>12, <1>13, <1>14
          DEF Next, Step
-----------------------------------------------------------------------------
(* The in-flight Maps *)

\* A step of call c leaves the other calls alone.
OthersUnchanged(c) ==
    \A d \in Calls \ {c} :
        /\ pc'[d] = pc[d] /\ request'[d] = request[d] /\ identity'[d] = identity[d]
        /\ joined'[d] = joined[d] /\ session'[d] = session[d]

\* A call left alone keeps its shape and its key.
LEMMA OthersKeep ==
    ASSUME NEW c \in Calls, OthersUnchanged(c), NEW d \in Calls, d # c
    PROVE  /\ CallShape(d) => CallShape(d)'
           /\ KeyOf(d)' = KeyOf(d)
           /\ pc'[d] = pc[d] /\ joined'[d] = joined[d]
  BY DEF OthersUnchanged, CallShape, KeyOf, AuthSingleFlightKey

\* The maker of an entry is a call that still awaits its promise.
LEMMA EntryMaker ==
    ASSUME TablesInv, NEW k \in FlightKeys, inFlight[k] # Undefined
    PROVE  /\ inFlight[k] \in PromiseIds
           /\ inFlight[k][1] \in Calls
           /\ inFlight[k] = <<inFlight[k][1], inFlight[k][2]>>
           /\ joined[inFlight[k][1]] = inFlight[k]
           /\ pc[inFlight[k][1]] = inFlight[k][2] /\ inFlight[k][2] \in Kinds
           /\ KeyOf(inFlight[k][1]) = k
           /\ ~promises[inFlight[k]].reacted
  <1>1. inFlight[k] \in PromiseIds
    BY DEF TablesInv, TypeOK
  <1> QED BY <1>1 DEF TablesInv, EntriesAreCleanedUp, PromiseIds

\* The next state's Maps, entry by entry.
LEMMA EntriesNext ==
    ASSUME \A k \in FlightKeys : inFlight'[k] # Undefined =>
              \E d \in Calls : /\ inFlight'[k][1] = d
                               /\ joined'[d] = inFlight'[k] /\ pc'[d] = inFlight'[k][2]
                               /\ KeyOf(d)' = k
                               /\ ~promises'[inFlight'[k]].reacted
    PROVE  EntriesAreCleanedUp'
  BY DEF EntriesAreCleanedUp, KeyOf, AuthSingleFlightKey

\* A call that awaits nothing, or whose promise's maker has cleaned up.
Free(c) == pc[c] \notin Kinds \/ promises[joined[c]].reacted

\* Such a call is the maker of no entry.
LEMMA FreeMakesNoEntry ==
    ASSUME TablesInv, NEW c \in Calls, Free(c), NEW k \in FlightKeys,
           inFlight[k] # Undefined
    PROVE  inFlight[k][1] # c
  BY EntryMaker DEF Free

\* A call that is free moves on, making no promise of its own.
LEMMA MoveKeepsTables ==
    ASSUME TablesInv, TypeOK', NEW c \in Calls, Free(c), OthersUnchanged(c),
           UNCHANGED <<inFlight, promises, issued>>,
           CallShape(c)', PromisesAhead(c)',
           pc'[c] \in Kinds => joined'[c][1] # c
    PROVE  TablesInv'
  <1>1. ASSUME NEW d \in Calls
        PROVE  CallShape(d)' /\ PromisesAhead(d)' /\ RunnerEntered(d)'
    <2>1. CASE d = c
      BY <2>1 DEF RunnerEntered, Runs
    <2>2. CASE d # c
      <3>1. \A k \in Kinds : Runs(d, k)' => Runs(d, k)
        BY <2>2, OthersKeep DEF Runs
      <3> QED BY <2>2, <3>1, OthersKeep
              DEF TablesInv, RunnerEntered, PromisesAhead, Fresh, Kinds
    <2> QED BY <2>1, <2>2
  <1>2. \A p \in PromiseIds : PromiseShape(p)'
    BY DEF TablesInv, PromiseShape
  <1>3. EntriesAreCleanedUp'
    <2>1. ASSUME NEW k \in FlightKeys, inFlight[k] # Undefined
          PROVE  inFlight[k][1] \in Calls /\ inFlight[k][1] # c
      BY <2>1, EntryMaker, FreeMakesNoEntry
    <2> QED BY <2>1, EntryMaker, OthersKeep, EntriesNext
  <1> QED BY <1>1, <1>2, <1>3 DEF TablesInv

\* A call that is free enters fresh work under its new key, if it has one.
LEMMA LaunchKeepsTables ==
    ASSUME ClientTsAssumption, TablesInv, TypeOK', NEW c \in Calls, Free(c), OthersUnchanged(c),
           UNCHANGED <<promises, issued>>,
           NEW k \in Kinds, Fresh(<<c, k>>),
           Launch(c, k, KeyOf(c)'),
           KeyOf(c)' = Undefined \/ (KeyOf(c)' \in FlightKeys /\ inFlight[KeyOf(c)'] = Undefined),
           CallShape(c)', PromisesAhead(c)'
    PROVE  TablesInv'
  <1> DEFINE key == KeyOf(c)'
  <1>1. /\ pc'[c] = k /\ joined'[c] = <<c, k>> /\ <<c, k>> \in PromiseIds
        /\ ~promises[<<c, k>>].reacted
    BY DEF Launch, Await, GoTo, TablesInv, TypeOK, PromiseIds, Fresh, Pending
  <1>2. /\ \A j \in FlightKeys : j # key => inFlight'[j] = inFlight[j]
        /\ key # Undefined => inFlight'[key] = <<c, k>>
        /\ key = Undefined => inFlight' = inFlight
    BY DEF Launch, TablesInv, TypeOK
  <1>3. ASSUME NEW d \in Calls
        PROVE  CallShape(d)' /\ PromisesAhead(d)' /\ RunnerEntered(d)'
    <2>1. CASE d = c
      BY <1>1, <1>2, <2>1 DEF RunnerEntered, Runs
    <2>2. CASE d # c
      <3>1. \A j \in Kinds : Runs(d, j)' = Runs(d, j)
        BY <2>2, OthersKeep DEF Runs
      <3>2. PromisesAhead(d)' /\ CallShape(d)'
        BY <2>2, <3>1, OthersKeep DEF TablesInv, PromisesAhead, Fresh, Kinds
      <3>3. ASSUME NEW j \in Kinds, Runs(d, j), KeyOf(d) # Undefined
            PROVE  inFlight'[KeyOf(d)] = <<d, j>>
        <4>1. inFlight[KeyOf(d)] = <<d, j>>
          BY <3>3 DEF TablesInv, RunnerEntered
        <4>2. CASE KeyOf(d) = key
          <5>1. <<d, j>> # Undefined
            <6>1. <<d, j>> \in PromiseIds
              BY DEF PromiseIds
            <6> QED BY <6>1, PromiseDefined
          <5> QED BY <3>3, <4>1, <4>2, <5>1
        <4>3. CASE KeyOf(d) # key
          BY <1>2, <4>1, <4>3 DEF Launch
        <4> QED BY <4>2, <4>3
      <3> QED BY <2>2, <3>1, <3>2, <3>3, OthersKeep DEF RunnerEntered
    <2> QED BY <2>1, <2>2
  <1>4. \A p \in PromiseIds : PromiseShape(p)'
    BY DEF TablesInv, PromiseShape
  <1>5. EntriesAreCleanedUp'
    <2> SUFFICES ASSUME NEW j \in FlightKeys, inFlight'[j] # Undefined
                 PROVE  \E d \in Calls : /\ inFlight'[j][1] = d
                                         /\ joined'[d] = inFlight'[j] /\ pc'[d] = inFlight'[j][2]
                                         /\ KeyOf(d)' = j
                                         /\ ~promises'[inFlight'[j]].reacted
      BY EntriesNext
    <2>1. CASE j = key /\ key # Undefined
      BY <1>1, <1>2, <2>1
    <2>2. CASE ~(j = key /\ key # Undefined)
      <3>1. inFlight'[j] = inFlight[j]
        BY <1>2, <2>2
      <3>2. inFlight[j][1] \in Calls /\ inFlight[j][1] # c
        BY <3>1, EntryMaker, FreeMakesNoEntry
      <3>3. KeyOf(inFlight[j][1]) = j
        BY <3>1, EntryMaker
      <3>4. PICK d \in Calls : d = inFlight[j][1]
        BY <3>2
      <3> QED BY <3>1, <3>2, <3>3, <3>4, EntryMaker, OthersKeep
    <2> QED BY <2>1, <2>2
  <1> QED BY <1>3, <1>4, <1>5 DEF TablesInv

\* Work in flight ends: its promise settles, and nothing else of the tables moves.
LEMMA SettleKeepsTables ==
    ASSUME TablesInv, TypeOK', NEW c \in Calls, NEW k \in Kinds, Runs(c, k),
           UNCHANGED <<inFlight, pc, request, identity, joined, session>>,
           \A p \in PromiseIds \ {<<c, k>>} : promises'[p] = promises[p] /\ issued'[p] = issued[p],
           promises'[<<c, k>>].state # "pending", ~promises'[<<c, k>>].reacted,
           PromiseShape(<<c, k>>)'
    PROVE  TablesInv'
  <1>1. \A d \in Calls : CallShape(d)' /\ KeyOf(d)' = KeyOf(d)
    BY DEF TablesInv, CallShape, KeyOf, AuthSingleFlightKey
  <1>2. \A d \in Calls, j \in Kinds : <<d, j>> \in PromiseIds
    BY DEF PromiseIds
  <1>3. ASSUME NEW d \in Calls
        PROVE  PromisesAhead(d)' /\ RunnerEntered(d)'
    <2>1. \A j \in Kinds : Runs(d, j)' => Runs(d, j) /\ <<d, j>> # <<c, k>>
      BY <1>2 DEF Runs
    <2>2. Runs(d, "auth")' => issued'[<<d, "auth">>] = Undefined
      BY <1>2, <2>1 DEF TablesInv, PromisesAhead, Kinds
    <2>3. pc[d] = "new" => <<d, "identity">> # <<c, k>> /\ <<d, "auth">> # <<c, k>>
      BY DEF Runs, Kinds
    <2>4. pc[d] = "identity" => <<d, "auth">> # <<c, k>>
      BY DEF Runs, Kinds
    <2>5. PromisesAhead(d)'
      BY <1>2, <2>2, <2>3, <2>4 DEF TablesInv, PromisesAhead, Fresh, Kinds
    <2>6. RunnerEntered(d)'
      BY <1>1, <2>1 DEF TablesInv, RunnerEntered
    <2> QED BY <2>5, <2>6
  <1>4. \A p \in PromiseIds : PromiseShape(p)'
    BY DEF TablesInv, PromiseShape
  <1>5. EntriesAreCleanedUp'
    <2> SUFFICES ASSUME NEW j \in FlightKeys, inFlight[j] # Undefined
                 PROVE  \E d \in Calls : /\ inFlight[j][1] = d
                                         /\ joined[d] = inFlight[j] /\ pc[d] = inFlight[j][2]
                                         /\ KeyOf(d)' = j
                                         /\ ~promises'[inFlight[j]].reacted
      BY EntriesNext
    <2>1. ~promises'[inFlight[j]].reacted
      BY EntryMaker
    <2> QED BY <1>1, <2>1, EntryMaker
  <1> QED BY <1>1, <1>3, <1>4, <1>5 DEF TablesInv

\* The maker's cleanup takes its promise out of the Maps altogether.
LEMMA CleanUpKeepsTables ==
    ASSUME ClientTsAssumption, TablesInv, TypeOK', NEW c \in Calls, CleanUp(c)
    PROVE  TablesInv'
  <1>1. /\ pc[c] \in Kinds /\ joined[c] = <<c, pc[c]>> /\ joined[c] \in PromiseIds
        /\ promises[joined[c]].state # "pending"
        /\ UNCHANGED <<issued, pc, request, identity, joined, session>>
    BY DEF CleanUp, TablesInv, CallShape
  <1>2. /\ \A p \in PromiseIds : /\ promises'[p].state = promises[p].state
                                 /\ promises'[p].value = promises[p].value
                                 /\ p # joined[c] => promises'[p] = promises[p]
    <2>1. /\ promises \in [PromiseIds -> Promises]
          /\ promises' = [promises EXCEPT ![joined[c]].reacted = TRUE]
      BY DEF CleanUp, TablesInv, TypeOK
    <2>2. \A p \in PromiseIds : p # joined[c] => promises'[p] = promises[p]
      BY <2>1
    <2>3. promises'[joined[c]] = [promises[joined[c]] EXCEPT !.reacted = TRUE]
      BY <1>1, <2>1
    <2>4. promises[joined[c]] \in Promises
      BY <1>1, <2>1
    <2>5. /\ promises'[joined[c]].state = promises[joined[c]].state
          /\ promises'[joined[c]].value = promises[joined[c]].value
      BY <2>3, <2>4 DEF Promises
    <2> QED BY <2>2, <2>5
  <1>3. /\ \A k \in FlightKeys : inFlight'[k] # Undefined => inFlight'[k] = inFlight[k]
        /\ \A k \in FlightKeys : inFlight[k] # joined[c] => inFlight'[k] = inFlight[k]
        /\ KeyOf(c) \in FlightKeys /\ inFlight[KeyOf(c)] = joined[c]
              => inFlight'[KeyOf(c)] = Undefined
    BY DEF CleanUp, TablesInv, TypeOK
  <1>4. \A d \in Calls : CallShape(d)' /\ KeyOf(d)' = KeyOf(d)
    BY <1>1 DEF TablesInv, CallShape, KeyOf, AuthSingleFlightKey
  <1>5. \A d \in Calls, k \in Kinds : <<d, k>> \in PromiseIds
    BY DEF PromiseIds
  <1>6. ASSUME NEW d \in Calls
        PROVE  PromisesAhead(d)' /\ RunnerEntered(d)'
    <2>1. \A k \in Kinds : Runs(d, k)' => Runs(d, k) /\ <<d, k>> # joined[c]
      BY <1>1, <1>2, <1>5 DEF Runs
    <2>2. pc[d] = "new" => <<d, "identity">> # joined[c] /\ <<d, "auth">> # joined[c]
      BY <1>1 DEF Kinds
    <2>3. pc[d] = "identity" => <<d, "auth">> # joined[c]
      BY <1>1 DEF Kinds
    <2>4. PromisesAhead(d)'
      BY <1>1, <1>2, <1>5, <2>1, <2>2, <2>3 DEF TablesInv, PromisesAhead, Fresh, Kinds
    <2>5. ASSUME NEW k \in Kinds, Runs(d, k), <<d, k>> # joined[c], KeyOf(d) # Undefined
          PROVE  inFlight'[KeyOf(d)] = <<d, k>>
      <3>1. inFlight[KeyOf(d)] = <<d, k>>
        BY <2>5 DEF TablesInv, RunnerEntered
      <3>2. KeyOf(d) \in FlightKeys
        BY <2>5, KeyType DEF Runs, KeyOf, FlightKeys, Kinds, TablesInv, CallShape
      <3> QED BY <1>3, <2>5, <3>1, <3>2
    <2> QED BY <1>4, <2>1, <2>4, <2>5 DEF RunnerEntered
  <1>7. \A p \in PromiseIds : PromiseShape(p)'
    BY <1>2 DEF TablesInv, PromiseShape
  <1>8. EntriesAreCleanedUp'
    <2> SUFFICES ASSUME NEW j \in FlightKeys, inFlight'[j] # Undefined
                 PROVE  \E d \in Calls : /\ inFlight'[j][1] = d
                                         /\ joined'[d] = inFlight'[j] /\ pc'[d] = inFlight'[j][2]
                                         /\ KeyOf(d)' = j
                                         /\ ~promises'[inFlight'[j]].reacted
      BY EntriesNext
    <2>1. inFlight'[j] = inFlight[j]
      BY <1>3
    <2>2. inFlight[j] # joined[c]
      <3>1. SUFFICES ASSUME inFlight[j] = joined[c] PROVE FALSE
        OBVIOUS
      <3>2. inFlight[j][1] = c
        BY <1>1, <3>1
      <3>3. KeyOf(c) = j
        BY <2>1, <3>2, EntryMaker
      <3> QED BY <1>3, <3>1, <3>3
    <2>3. promises'[inFlight[j]] = promises[inFlight[j]]
      BY <1>2, <2>1, <2>2, EntryMaker
    <2> QED BY <1>1, <1>4, <2>1, <2>3, EntryMaker
  <1> QED BY <1>4, <1>6, <1>7, <1>8 DEF TablesInv

\* A free call that goes on to a stage without work in flight.
LEMMA LeaveKeepsTables ==
    ASSUME TablesInv, TypeOK', NEW c \in Calls, Free(c), OthersUnchanged(c),
           UNCHANGED <<inFlight, promises, issued>>,
           pc'[c] \in {"bearer", "credentials", "settled"}, CallShape(c)'
    PROVE  TablesInv'
  <1>1. pc'[c] \notin Kinds /\ PromisesAhead(c)'
    BY DEF PromisesAhead, Runs, Kinds
  <1> QED BY <1>1, MoveKeepsTables

\* The call is over.
LEMMA EndKeepsTables ==
    ASSUME TablesInv, TypeOK', NEW c \in Calls, Free(c), EndCall(c),
           UNCHANGED <<inFlight, promises, issued, request>>
    PROVE  TablesInv'
  <1>1. /\ OthersUnchanged(c) /\ pc'[c] = "settled" /\ identity'[c] = Undefined
    BY DEF EndCall, GoTo, OthersUnchanged, TablesInv, TypeOK
  <1>2. CallShape(c)'
    BY <1>1 DEF CallShape, Kinds
  <1> QED BY <1>1, <1>2, LeaveKeepsTables

\* The provider's key leads to a collection.
LEMMA CollectionEntry ==
    ASSUME ClientTsAssumption, TablesInv, inFlight[IdentityKey] # Undefined
    PROVE  inFlight[IdentityKey][2] = "identity"
  <1> DEFINE p == inFlight[IdentityKey]
  <1>1. IdentityKey \in FlightKeys
    BY DEF FlightKeys
  <1>2. p[1] \in Calls /\ p[2] \in Kinds /\ pc[p[1]] = p[2] /\ KeyOf(p[1]) = IdentityKey
    BY <1>1, EntryMaker
  <1>3. pc[p[1]] = "auth" => identity[p[1]] \in Identities
    BY <1>2 DEF TablesInv, CallShape
  <1>4. p[2] # "auth"
    BY <1>2, <1>3, KeyType DEF KeyOf, TablesInv
  <1> QED BY <1>2, <1>4 DEF Kinds

\* A call begins: it joins the collection in flight, or makes one.
LEMMA StartKeepsTables ==
    ASSUME ClientTsAssumption, TablesInv, TypeOK', NEW c \in Calls, StartCall(c)
    PROVE  TablesInv'
  <1>1. pc[c] = "new" /\ Free(c) /\ identity[c] = Undefined /\ UNCHANGED <<promises, issued, identity, session>>
    BY DEF StartCall, Free, Kinds, TablesInv, CallShape
  <1>2. Fresh(<<c, "identity">>) /\ Fresh(<<c, "auth">>)
    BY <1>1 DEF TablesInv, PromisesAhead
  <1>3. "identity" \in Kinds /\ IdentityKey \in FlightKeys
    BY DEF Kinds, FlightKeys
  <1>4. CASE IdentityKey # Undefined /\ inFlight[IdentityKey] # Undefined
    <2> DEFINE p == inFlight[IdentityKey]
    <2>1. p \in PromiseIds /\ p[1] \in Calls /\ p[1] # c /\ p[2] = "identity"
      <3>1. p \in PromiseIds /\ p[1] \in Calls
        BY <1>3, <1>4, EntryMaker
      <3>2. p[1] # c
        BY <1>1, <1>3, <1>4, FreeMakesNoEntry
      <3> QED BY <1>4, <3>1, <3>2, CollectionEntry
    <2>2. UNCHANGED inFlight /\ Await(c, p)
      BY <1>4 DEF StartCall
    <2>3. OthersUnchanged(c) /\ pc'[c] = "identity" /\ joined'[c] = p
      BY <1>1, <2>1, <2>2 DEF StartCall, Await, GoTo, OthersUnchanged, TablesInv, TypeOK
    <2>4. CallShape(c)'
      BY <1>1, <2>1, <2>3 DEF CallShape, Kinds
    <2>5. PromisesAhead(c)'
      BY <1>1, <1>2, <2>3 DEF PromisesAhead, Fresh, Runs
    <2> QED BY <1>1, <2>1, <2>2, <2>3, <2>4, <2>5, MoveKeepsTables
  <1>5. CASE ~(IdentityKey # Undefined /\ inFlight[IdentityKey] # Undefined)
    <2>1. Launch(c, "identity", IdentityKey)
      BY <1>5 DEF StartCall
    <2>2. /\ OthersUnchanged(c) /\ pc'[c] = "identity" /\ joined'[c] = <<c, "identity">>
      BY <1>1, <2>1 DEF StartCall, Launch, Await, GoTo, OthersUnchanged, TablesInv, TypeOK
    <2>3. KeyOf(c)' = IdentityKey
      BY <2>2 DEF KeyOf
    <2>4. CallShape(c)'
      BY <1>1, <2>2 DEF CallShape, Kinds, PromiseIds
    <2>5. PromisesAhead(c)'
      BY <1>1, <1>2, <2>2 DEF PromisesAhead, Fresh, Runs
    <2>6. Launch(c, "identity", KeyOf(c)')
      BY <2>1, <2>3
    <2>7. IdentityKey = Undefined \/ (IdentityKey \in FlightKeys /\ inFlight[IdentityKey] = Undefined)
      BY <1>3, <1>5
    <2>8. KeyOf(c)' = Undefined \/ (KeyOf(c)' \in FlightKeys /\ inFlight[KeyOf(c)'] = Undefined)
      BY <2>3, <2>7, Zenon
    <2> QED BY <1>1, <1>2, <1>3, <2>2, <2>4, <2>5, <2>6, <2>8, LaunchKeepsTables
  <1> QED BY <1>4, <1>5

\* A call with its identity joins the authentication in flight, or makes one.
LEMMA AuthenticateKeepsTables ==
    ASSUME ClientTsAssumption, TablesInv, TypeOK', NEW c \in Calls, Authenticate(c)
    PROVE  TablesInv'
  <1> DEFINE i == promises[joined[c]].value
             key == AuthSingleFlightKey(c, i)
  <1>1. /\ pc[c] = "identity" /\ Free(c) /\ i \in Identities
        /\ identity' = [identity EXCEPT ![c] = i]
        /\ UNCHANGED <<promises, issued, request, session>>
    BY ResumeType DEF Authenticate, Resumes, Free, Kinds
  <1>2. Fresh(<<c, "auth">>)
    BY <1>1 DEF TablesInv, PromisesAhead
  <1>3. key \in FlightKeys /\ key # IdentityKey /\ "auth" \in Kinds
    BY <1>1, KeyType DEF TablesInv, Kinds
  <1>4. identity'[c] = i /\ AuthSingleFlightKey(c, identity[c])' = key
    BY <1>1 DEF TablesInv, TypeOK, AuthSingleFlightKey
  <1>5. CASE inFlight[key] # Undefined
    <2> DEFINE p == inFlight[key]
    <2>1. p \in PromiseIds /\ p[1] \in Calls /\ p[1] # c /\ p[2] = "auth"
      <3>1. /\ p \in PromiseIds /\ p[1] \in Calls /\ p[2] \in Kinds /\ pc[p[1]] = p[2]
            /\ KeyOf(p[1]) = key
        BY <1>3, <1>5, EntryMaker
      <3>2. p[1] # c
        BY <1>1, <1>3, <1>5, FreeMakesNoEntry
      <3> QED BY <1>3, <3>1, <3>2 DEF KeyOf, Kinds
    <2>2. UNCHANGED inFlight /\ Await(c, p)
      BY <1>5 DEF Authenticate
    <2>3. OthersUnchanged(c) /\ pc'[c] = "auth" /\ joined'[c] = p
      BY <1>1, <2>1, <2>2 DEF Await, GoTo, OthersUnchanged, TablesInv, TypeOK
    <2>4. CallShape(c)'
      BY <1>1, <1>4, <2>1, <2>3 DEF CallShape, Kinds
    <2>5. PromisesAhead(c)'
      BY <1>1, <1>2, <2>3 DEF PromisesAhead, Fresh, Runs
    <2> QED BY <1>1, <2>1, <2>2, <2>3, <2>4, <2>5, MoveKeepsTables
  <1>6. CASE inFlight[key] = Undefined
    <2>1. Launch(c, "auth", key)
      BY <1>6 DEF Authenticate
    <2>2. /\ OthersUnchanged(c) /\ pc'[c] = "auth" /\ joined'[c] = <<c, "auth">>
      BY <1>1, <2>1 DEF Launch, Await, GoTo, OthersUnchanged, TablesInv, TypeOK
    <2>3. KeyOf(c)' = key
      BY <1>1, <1>4, <2>2 DEF KeyOf, AuthSingleFlightKey
    <2>4. CallShape(c)'
      BY <1>1, <1>4, <2>2 DEF CallShape, Kinds, PromiseIds
    <2>5. PromisesAhead(c)'
      BY <1>1, <1>2, <2>2 DEF PromisesAhead, Fresh, Runs
    <2>6. Launch(c, "auth", KeyOf(c)')
      BY <2>1, <2>3
    <2> QED BY <1>1, <1>2, <1>3, <1>6, <2>2, <2>3, <2>4, <2>5, <2>6, LaunchKeepsTables
  <1> QED BY <1>5, <1>6

\* A collection or an authentication ends.
LEMMA OutcomeKeepsTables ==
    ASSUME ClientTsAssumption, TablesInv, TypeOK', NEW c \in Calls,
           CollectIdentity(c) \/ AuthSucceeds(c) \/ AuthFails(c)
    PROVE  TablesInv'
  <1>1. ASSUME NEW k \in Kinds, NEW outcome, Runs(c, k),
               promises' = [promises EXCEPT ![<<c, k>>] = outcome],
               \A p \in PromiseIds \ {<<c, k>>} : issued'[p] = issued[p],
               UNCHANGED <<inFlight, pc, request, identity, joined, session>>,
               \/ outcome = Rejected
               \/ \E v \in (IF k = "identity" THEN Identities ELSE CachedTokenStates) :
                    outcome = Fulfilled(v)
        PROVE  TablesInv'
    <2>1. <<c, k>> \in PromiseIds /\ <<c, k>>[2] = k
      BY DEF PromiseIds
    <2>2. /\ promises'[<<c, k>>] = outcome
          /\ \A p \in PromiseIds \ {<<c, k>>} : promises'[p] = promises[p]
      BY <1>1, <2>1 DEF TablesInv, TypeOK
    <2>3. /\ outcome.state # "pending" /\ ~outcome.reacted
          /\ outcome.state = "fulfilled" =>
               outcome.value \in (IF k = "identity" THEN Identities ELSE CachedTokenStates)
      BY <1>1 DEF Fulfilled, Rejected
    <2>4. PromiseShape(<<c, k>>)'
      BY <2>1, <2>2, <2>3 DEF PromiseShape
    <2> QED BY <1>1, <2>2, <2>3, <2>4, SettleKeepsTables
  <1>2. CASE CollectIdentity(c)
    <2>1. PICK outcome \in {Fulfilled(i) : i \in Identities} \cup {Rejected} :
             promises' = [promises EXCEPT ![<<c, "identity">>] = outcome]
      BY <1>2 DEF CollectIdentity
    <2>2. \/ outcome = Rejected
          \/ \E v \in Identities : outcome = Fulfilled(v)
      OBVIOUS
    <2>3. /\ Runs(c, "identity") /\ "identity" \in Kinds
          /\ UNCHANGED <<inFlight, issued, pc, request, identity, joined, session>>
      BY <1>2 DEF CollectIdentity, Kinds
    <2> QED BY <1>1, <2>1, <2>2, <2>3
  <1>3. CASE AuthSucceeds(c)
    <2>1. identity[c] \in Identities
      BY <1>3 DEF AuthSucceeds, Runs, TablesInv, CallShape
    <2>2. PICK s \in SessionsFor(c) : promises' = [promises EXCEPT ![<<c, "auth">>] = Fulfilled(s)]
      BY <1>3 DEF AuthSucceeds
    <2>3. s \in CachedTokenStates
      BY <2>1, SessionType DEF TablesInv
    <2>4. \A p \in PromiseIds \ {<<c, "auth">>} : issued'[p] = issued[p]
      BY <1>3 DEF AuthSucceeds, TablesInv, TypeOK
    <2>5. /\ Runs(c, "auth") /\ "auth" \in Kinds
          /\ UNCHANGED <<inFlight, pc, request, identity, joined, session>>
      BY <1>3 DEF AuthSucceeds, Kinds
    <2> QED BY <1>1, <2>2, <2>3, <2>4, <2>5
  <1>4. CASE AuthFails(c)
    <2>1. /\ Runs(c, "auth") /\ "auth" \in Kinds
          /\ promises' = [promises EXCEPT ![<<c, "auth">>] = Rejected]
          /\ UNCHANGED <<inFlight, issued, pc, request, identity, joined, session>>
      BY <1>4 DEF AuthFails, Kinds
    <2> QED BY <1>1, <2>1
  <1> QED BY <1>2, <1>3, <1>4

\* Nothing is in flight at first.
LEMMA TablesInit == ClientTsAssumption /\ Init => TablesInv
  <1> SUFFICES ASSUME ClientTsAssumption, Init PROVE TablesInv
    OBVIOUS
  <1>1. TypeOK
    BY InitType
  <1>2. \A c \in Calls, k \in Kinds : <<c, k>> \in PromiseIds
    BY DEF PromiseIds
  <1>3. \A c \in Calls : CallShape(c) /\ PromisesAhead(c) /\ RunnerEntered(c)
    BY <1>2 DEF Init, CallShape, PromisesAhead, RunnerEntered, Runs, Fresh, Kinds
  <1>4. \A p \in PromiseIds : PromiseShape(p)
    BY DEF Init, PromiseShape, Pending
  <1>5. EntriesAreCleanedUp
    BY DEF Init, EntriesAreCleanedUp
  <1> QED BY <1>1, <1>3, <1>4, <1>5 DEF TablesInv

\* Every step keeps the Maps' invariant.
LEMMA TablesStep == ClientTsAssumption /\ TablesInv /\ [Next]_vars => TablesInv'
  <1> SUFFICES ASSUME ClientTsAssumption, TablesInv, [Next]_vars PROVE TablesInv'
    OBVIOUS
  <1>1. TypeOK'
    BY StepType
  <1>2. CASE UNCHANGED vars \/ Tick \/ Finished
    <2>1. UNCHANGED <<inFlight, promises, issued, pc, request, identity, joined, session>>
      BY <1>2 DEF vars, Tick, Finished
    <2>2. \A c \in Calls : /\ CallShape(c)' = CallShape(c) /\ PromisesAhead(c)' = PromisesAhead(c)
                          /\ RunnerEntered(c)' = RunnerEntered(c)
      BY <2>1 DEF CallShape, PromisesAhead, RunnerEntered, Runs, Fresh, KeyOf, AuthSingleFlightKey
    <2>3. \A p \in PromiseIds : PromiseShape(p)' = PromiseShape(p)
      BY <2>1 DEF PromiseShape
    <2>4. EntriesAreCleanedUp' = EntriesAreCleanedUp
      BY <2>1 DEF EntriesAreCleanedUp, KeyOf, AuthSingleFlightKey
    <2> QED BY <1>1, <2>2, <2>3, <2>4 DEF TablesInv
  <1>3. ASSUME NEW c \in Calls, RejectEarly(c) \/ RethrowRejection(c) \/ CredentialsAnswered(c)
        PROVE  TablesInv'
    <2>1. Free(c)
      BY <1>3 DEF RejectEarly, RethrowRejection, CredentialsAnswered, Resumes, Free, Kinds
    <2> QED BY <1>1, <1>3, <2>1, EndKeepsTables
            DEF RejectEarly, RethrowRejection, CredentialsAnswered
  <1>4. ASSUME NEW c \in Calls, ReuseSession(c)
        PROVE  TablesInv'
    <2>1. promises[joined[c]].value \in Identities /\ tokenState \in CachedTokenStates
      BY <1>4, ResumeType DEF ReuseSession, CachedSessionFits, IsTokenValid, TablesInv, TypeOK, Kinds
    <2>2. /\ OthersUnchanged(c) /\ pc'[c] = "bearer"
          /\ identity'[c] = promises[joined[c]].value /\ session'[c] = tokenState
      BY <1>4 DEF ReuseSession, GoTo, OthersUnchanged, TablesInv, TypeOK
    <2>3. Free(c) /\ CallShape(c)'
      BY <1>4, <2>1, <2>2 DEF ReuseSession, Resumes, Free, CallShape, Kinds
    <2> QED BY <1>1, <1>4, <2>2, <2>3, LeaveKeepsTables DEF ReuseSession
  <1>5. ASSUME NEW c \in Calls, TakeSession(c)
        PROVE  TablesInv'
    <2>1. promises[joined[c]].value \in CachedTokenStates /\ identity[c] \in Identities
      BY <1>5, ResumeType DEF TakeSession, TablesInv, CallShape, Resumes, Kinds
    <2>2. /\ OthersUnchanged(c) /\ pc'[c] = "bearer"
          /\ identity'[c] = identity[c] /\ session'[c] = promises[joined[c]].value
      BY <1>5 DEF TakeSession, GoTo, OthersUnchanged, TablesInv, TypeOK
    <2>3. Free(c) /\ CallShape(c)'
      BY <1>5, <2>1, <2>2 DEF TakeSession, Resumes, Free, CallShape, Kinds
    <2> QED BY <1>1, <1>5, <2>2, <2>3, LeaveKeepsTables DEF TakeSession
  <1>6. ASSUME NEW c \in Calls, UseSession(c)
        PROVE  TablesInv'
    <2>1. Free(c) /\ identity[c] \in Identities /\ session[c] \in CachedTokenStates
      BY <1>6 DEF UseSession, Free, Kinds, TablesInv, CallShape
    <2>2. CASE EndCall(c)
      BY <1>1, <1>6, <2>1, <2>2, EndKeepsTables DEF UseSession
    <2>3. CASE GoTo(c, "credentials") /\ UNCHANGED <<identity, joined, session>>
      <3>1. OthersUnchanged(c) /\ pc'[c] = "credentials"
        BY <1>6, <2>3 DEF UseSession, GoTo, OthersUnchanged, TablesInv, TypeOK
      <3>2. CallShape(c)'
        BY <2>1, <2>3, <3>1 DEF CallShape, Kinds
      <3> QED BY <1>1, <1>6, <2>1, <3>1, <3>2, LeaveKeepsTables DEF UseSession
    <2> QED BY <1>6, <2>2, <2>3 DEF UseSession
  <1> QED BY <1>1, <1>2, <1>3, <1>4, <1>5, <1>6, StartKeepsTables, AuthenticateKeepsTables,
             OutcomeKeepsTables, CleanUpKeepsTables DEF Next, Step

\* Every reachable state satisfies the Maps' invariant.
THEOREM TablesInvariant == Spec => []TablesInv
  <1>1. Init => TablesInv
    BY ClientTsAssumption, TablesInit
  <1>2. TablesInv /\ [Next]_vars => TablesInv'
    BY ClientTsAssumption, TablesStep
  <1> QED BY <1>1, <1>2, PTL DEF Spec

\* The TypeScript client's variables keep their types.
THEOREM TypeCorrect == Spec => []TypeOK
  <1>1. TablesInv => TypeOK
    BY DEF TablesInv
  <1> QED BY <1>1, TablesInvariant, PTL

\* No Map entry outlives the await of the call that made it.
THEOREM NoEntryLeaks == Spec => []EntriesAreCleanedUp
  <1>1. TablesInv => EntriesAreCleanedUp
    BY DEF TablesInv
  <1> QED BY <1>1, TablesInvariant, PTL

\* Two runners with one key have one entry.
LEMMA RunnersApart ==
    ASSUME TablesInv, NEW c \in Calls, NEW d \in Calls, NEW k \in Kinds,
           Runs(c, k), Runs(d, k), KeyOf(c) = KeyOf(d), KeyOf(c) # Undefined
    PROVE  c = d
  <1>1. inFlight[KeyOf(c)] = <<c, k>> /\ inFlight[KeyOf(d)] = <<d, k>>
    BY DEF TablesInv, RunnerEntered
  <1> QED BY <1>1

\* Overlapping calls never have the same keyed work pending twice.
THEOREM SingleFlight == Spec => []SharedWorkRunsOnce
  <1>1. TablesInv => SharedWorkRunsOnce
    BY RunnersApart DEF SharedWorkRunsOnce
  <1> QED BY <1>1, TablesInvariant, PTL

-----------------------------------------------------------------------------
(* Progress: what is left to fairness is that the loop runs what is ready.  *)

\* No reaction runs before its promise has settled, and work that a call awaits
\* is in its maker's hands until the maker has cleaned up after it: every
\* pending promise has somebody to settle it, and every settled one somebody to
\* let its reactions run.
NoAwaiterStranded ==
    /\ \A p \in PromiseIds : promises[p].reacted => promises[p].state # "pending"
    /\ \A c \in Calls :
         pc[c] \in Kinds /\ ~promises[joined[c]].reacted =>
             LET maker == joined[c][1] IN
             pc[maker] = joined[c][2] /\ joined[maker] = joined[c]

\* A call that is free moves on: nobody relied on it.
LEMMA MoveStrandsNobody ==
    ASSUME TablesInv, NoAwaiterStranded, NEW c \in Calls, Free(c), OthersUnchanged(c),
           UNCHANGED promises,
           pc'[c] \in Kinds =>
             LET maker == joined'[c][1] IN
             pc'[maker] = joined'[c][2] /\ joined'[maker] = joined'[c]
    PROVE  NoAwaiterStranded'
  <1>1. ASSUME NEW d \in Calls, d # c, pc'[d] \in Kinds, ~promises'[joined'[d]].reacted
        PROVE  LET maker == joined'[d][1] IN
               pc'[maker] = joined'[d][2] /\ joined'[maker] = joined'[d]
    <2>1. /\ pc[d] \in Kinds /\ ~promises[joined[d]].reacted
          /\ joined'[d] = joined[d]
      BY <1>1 DEF OthersUnchanged
    <2>2. /\ joined[d] \in PromiseIds /\ joined[d][1] \in Calls /\ joined[d][2] \in Kinds
          /\ pc[joined[d][1]] = joined[d][2] /\ joined[joined[d][1]] = joined[d]
      BY <2>1 DEF TablesInv, CallShape, PromiseIds, NoAwaiterStranded
    <2>3. joined[d][1] # c
      BY <2>1, <2>2 DEF Free
    <2> QED BY <2>1, <2>2, <2>3 DEF OthersUnchanged
  <1> QED BY <1>1 DEF NoAwaiterStranded

\* A promise settles, or its maker cleans up.
LEMMA PromiseStrandsNobody ==
    ASSUME TablesInv, NoAwaiterStranded, UNCHANGED <<pc, joined>>, NEW p \in PromiseIds,
           \A q \in PromiseIds \ {p} : promises'[q] = promises[q],
           promises'[p].state # "pending", promises[p].reacted => promises'[p].reacted
    PROVE  NoAwaiterStranded'
  <1>1. \A c \in Calls : pc[c] \in Kinds => joined[c] \in PromiseIds
    BY DEF TablesInv, CallShape
  <1>2. \A q \in PromiseIds : promises[q].reacted => promises'[q].reacted
    OBVIOUS
  <1>3. \A q \in PromiseIds : promises'[q].reacted => promises'[q].state # "pending"
    BY DEF NoAwaiterStranded
  <1> QED BY <1>1, <1>2, <1>3 DEF NoAwaiterStranded

\* A call that starts to await work awaits its own, or what an entry offers.
LEMMA AwaitedHasMaker ==
    ASSUME ClientTsAssumption, TablesInv, NEW c \in Calls, Free(c), OthersUnchanged(c),
           \/ \E k \in Kinds : Await(c, <<c, k>>)
           \/ \E key \in FlightKeys : inFlight[key] # Undefined /\ Await(c, inFlight[key])
    PROVE  LET maker == joined'[c][1] IN
           pc'[maker] = joined'[c][2] /\ joined'[maker] = joined'[c]
  <1> DEFINE maker == joined'[c][1]
  <1>1. ASSUME NEW k \in Kinds, Await(c, <<c, k>>)
        PROVE  pc'[maker] = joined'[c][2] /\ joined'[maker] = joined'[c]
    <2>1. pc'[c] = k /\ joined'[c] = <<c, k>>
      BY <1>1 DEF Await, GoTo, TablesInv, TypeOK
    <2> QED BY <2>1
  <1>2. ASSUME NEW key \in FlightKeys, inFlight[key] # Undefined, Await(c, inFlight[key])
        PROVE  pc'[maker] = joined'[c][2] /\ joined'[maker] = joined'[c]
    <2>1. /\ inFlight[key][1] \in Calls /\ inFlight[key][1] # c
          /\ joined[inFlight[key][1]] = inFlight[key]
          /\ pc[inFlight[key][1]] = inFlight[key][2]
      BY <1>2, EntryMaker, FreeMakesNoEntry
    <2>2. joined'[c] = inFlight[key]
      BY <1>2 DEF Await, TablesInv, TypeOK
    <2> QED BY <2>1, <2>2 DEF OthersUnchanged
  <1> HIDE DEF maker
  <1>3. pc'[maker] = joined'[c][2] /\ joined'[maker] = joined'[c]
    BY <1>1, <1>2
  <1> QED BY <1>3 DEF maker

\* Work in flight ends by settling the promise of its kind.
LEMMA OutcomeSettles ==
    ASSUME NEW c \in Calls, CollectIdentity(c) \/ AuthSucceeds(c) \/ AuthFails(c)
    PROVE  \E k \in Kinds : Runs(c, k) /\ \E outcome :
              /\ promises' = [promises EXCEPT ![<<c, k>>] = outcome]
              /\ outcome.state # "pending"
  <1>1. ASSUME CollectIdentity(c)
        PROVE  \E outcome : /\ promises' = [promises EXCEPT ![<<c, "identity">>] = outcome]
                            /\ outcome.state # "pending"
    <2>1. PICK outcome \in {Fulfilled(i) : i \in Identities} \cup {Rejected} :
             promises' = [promises EXCEPT ![<<c, "identity">>] = outcome]
      BY <1>1 DEF CollectIdentity
    <2>2. outcome.state # "pending"
      BY <2>1 DEF Fulfilled, Rejected
    <2> QED BY <2>1, <2>2
  <1>2. ASSUME AuthSucceeds(c) \/ AuthFails(c)
        PROVE  \E outcome : /\ promises' = [promises EXCEPT ![<<c, "auth">>] = outcome]
                            /\ outcome.state # "pending"
    <2>1. \A v : Fulfilled(v).state # "pending" /\ Rejected.state # "pending"
      BY DEF Fulfilled, Rejected
    <2>2. \/ \E s : promises' = [promises EXCEPT ![<<c, "auth">>] = Fulfilled(s)]
          \/ promises' = [promises EXCEPT ![<<c, "auth">>] = Rejected]
      BY <1>2 DEF AuthSucceeds, AuthFails
    <2> QED BY <2>1, <2>2
  <1>3. /\ CollectIdentity(c) => Runs(c, "identity")
        /\ AuthSucceeds(c) \/ AuthFails(c) => Runs(c, "auth")
    BY DEF CollectIdentity, AuthSucceeds, AuthFails
  <1> QED BY <1>1, <1>2, <1>3 DEF Kinds

\* No step leaves a call awaiting work that nobody does.
LEMMA StrandsNobody ==
    ClientTsAssumption /\ TablesInv /\ NoAwaiterStranded /\ [Next]_vars => NoAwaiterStranded'
  <1> SUFFICES ASSUME ClientTsAssumption, TablesInv, NoAwaiterStranded, [Next]_vars
               PROVE  NoAwaiterStranded'
    OBVIOUS
  <1>1. CASE UNCHANGED vars \/ Tick \/ Finished
    BY <1>1 DEF vars, Tick, Finished, NoAwaiterStranded
  <1>2. ASSUME NEW c \in Calls,
               \/ RejectEarly(c) \/ RethrowRejection(c) \/ ReuseSession(c)
               \/ TakeSession(c) \/ UseSession(c) \/ CredentialsAnswered(c)
        PROVE  NoAwaiterStranded'
    <2>1. Free(c) /\ UNCHANGED promises
      BY <1>2 DEF RejectEarly, RethrowRejection, ReuseSession, TakeSession, UseSession,
                  CredentialsAnswered, Resumes, Free, Kinds
    <2>2. OthersUnchanged(c) /\ pc'[c] \notin Kinds
      BY <1>2 DEF RejectEarly, RethrowRejection, ReuseSession, TakeSession, UseSession,
                  CredentialsAnswered, EndCall, GoTo, OthersUnchanged, TablesInv, TypeOK, Kinds
    <2> QED BY <2>1, <2>2, MoveStrandsNobody
  <1>3. ASSUME NEW c \in Calls, StartCall(c)
        PROVE  NoAwaiterStranded'
    <2>1. Free(c) /\ UNCHANGED promises /\ IdentityKey \in FlightKeys
      BY <1>3 DEF StartCall, Free, Kinds, FlightKeys
    <2>2. OthersUnchanged(c)
      BY <1>3 DEF StartCall, Launch, Await, GoTo, OthersUnchanged, TablesInv, TypeOK
    <2>3. \/ Await(c, <<c, "identity">>)
          \/ inFlight[IdentityKey] # Undefined /\ Await(c, inFlight[IdentityKey])
      BY <1>3 DEF StartCall, Launch
    <2> QED BY <2>1, <2>2, <2>3, AwaitedHasMaker, MoveStrandsNobody DEF Kinds
  <1>4. ASSUME NEW c \in Calls, Authenticate(c)
        PROVE  NoAwaiterStranded'
    <2> DEFINE key == AuthSingleFlightKey(c, promises[joined[c]].value)
    <2>1. key \in FlightKeys
      BY <1>4, ResumeType, KeyType DEF Authenticate, TablesInv, Kinds
    <2>2. Free(c) /\ UNCHANGED promises
      BY <1>4 DEF Authenticate, Resumes, Free
    <2>3. OthersUnchanged(c)
      BY <1>4 DEF Authenticate, Launch, Await, GoTo, OthersUnchanged, TablesInv, TypeOK
    <2>4. \/ Await(c, <<c, "auth">>)
          \/ inFlight[key] # Undefined /\ Await(c, inFlight[key])
      BY <1>4 DEF Authenticate, Launch
    <2> QED BY <2>1, <2>2, <2>3, <2>4, AwaitedHasMaker, MoveStrandsNobody DEF Kinds
  <1>5. ASSUME NEW c \in Calls, CollectIdentity(c) \/ AuthSucceeds(c) \/ AuthFails(c)
        PROVE  NoAwaiterStranded'
    <2>1. PICK k \in Kinds : Runs(c, k) /\ \E outcome :
                               /\ promises' = [promises EXCEPT ![<<c, k>>] = outcome]
                               /\ outcome.state # "pending"
      BY <1>5, OutcomeSettles
    <2>2. /\ <<c, k>> \in PromiseIds /\ promises'[<<c, k>>].state # "pending"
          /\ \A q \in PromiseIds \ {<<c, k>>} : promises'[q] = promises[q]
      BY <2>1 DEF PromiseIds, TablesInv, TypeOK
    <2>3. ~promises[<<c, k>>].reacted
      BY <2>1, <2>2 DEF Runs, NoAwaiterStranded
    <2>4. UNCHANGED <<pc, joined>>
      BY <1>5 DEF CollectIdentity, AuthSucceeds, AuthFails
    <2> QED BY <2>2, <2>3, <2>4, PromiseStrandsNobody
  <1>6. ASSUME NEW c \in Calls, CleanUp(c)
        PROVE  NoAwaiterStranded'
    <2>1. joined[c] \in PromiseIds
      BY <1>6 DEF CleanUp, TablesInv, CallShape
    <2>2. /\ promises'[joined[c]].state # "pending" /\ promises'[joined[c]].reacted
          /\ \A q \in PromiseIds \ {joined[c]} : promises'[q] = promises[q]
      BY <1>6, <2>1 DEF CleanUp, TablesInv, TypeOK, Promises
    <2> QED BY <1>6, <2>1, <2>2, PromiseStrandsNobody DEF CleanUp
  <1> QED BY <1>1, <1>2, <1>3, <1>4, <1>5, <1>6 DEF Next, Step

\* However calls share work and whichever way it ends, no call awaits a promise
\* that nobody will settle or clean up after.
THEOREM NobodyAwaitsInVain == Spec => []NoAwaiterStranded
  <1>1. Init => NoAwaiterStranded
    BY DEF Init, NoAwaiterStranded, Pending, Kinds
  <1>2. TablesInv /\ NoAwaiterStranded /\ [Next]_vars => NoAwaiterStranded'
    BY ClientTsAssumption, StrandsNobody
  <1> QED BY <1>1, <1>2, TablesInvariant, PTL DEF Spec

\* How far a call is from its end, and a promise from letting its reactions run.
Distance == [identity |-> 4, auth |-> 3, bearer |-> 2, credentials |-> 1, settled |-> 0]

WorkLeft(p) ==
    IF promises[p].state = "pending" THEN 2 ELSE IF promises[p].reacted THEN 0 ELSE 1

StepsLeft(c) ==
    Distance[pc[c]] + WorkLeft(<<c, "identity">>) + WorkLeft(<<c, "auth">>)

\* A call that has begun, or a promise it makes, changes only to bring the end
\* nearer: there is no retry, wait or hand-over in which calls go round in
\* circles, and at most eight steps of its own are left when a call has begun.
Dwindles(c) ==
    pc[c] # "new" =>
        \/ UNCHANGED <<pc[c], request[c], identity[c], joined[c], session[c],
                       promises[<<c, "identity">>], promises[<<c, "auth">>]>>
        \/ StepsLeft(c)' \in Nat /\ StepsLeft(c)' < StepsLeft(c)

AllDwindle == \A c \in Calls : Dwindles(c)

CallsDwindle == [][AllDwindle]_vars

\* Both measures are numbers.
LEMMA StepsLeftType ==
    ASSUME TypeOK, NEW c \in Calls, pc[c] # "new"
    PROVE  /\ Distance[pc[c]] \in 0 .. 4
           /\ WorkLeft(<<c, "identity">>) \in 0 .. 2 /\ WorkLeft(<<c, "auth">>) \in 0 .. 2
  <1>1. pc[c] \in {"identity", "auth", "bearer", "credentials", "settled"}
    BY DEF TypeOK, Stages, Kinds
  <1> QED BY <1>1 DEF Distance, WorkLeft

\* A call moves on to a later stage; the others and their promises stay.
LEMMA MovingOnDwindles ==
    ASSUME TypeOK, TypeOK', NEW c \in Calls, OthersUnchanged(c), UNCHANGED promises,
           pc'[c] # "new", pc[c] = "new" \/ Distance[pc'[c]] < Distance[pc[c]],
           NEW d \in Calls
    PROVE  Dwindles(d)
  <1>1. CASE d # c
    BY <1>1 DEF OthersUnchanged, Dwindles
  <1>2. CASE d = c /\ pc[c] # "new"
    <2>1. /\ Distance[pc[c]] \in 0 .. 4 /\ Distance[pc'[c]] \in 0 .. 4
          /\ WorkLeft(<<c, "identity">>) \in 0 .. 2 /\ WorkLeft(<<c, "auth">>) \in 0 .. 2
      <3>1. pc'[c] \in {"identity", "auth", "bearer", "credentials", "settled"}
        BY DEF TypeOK, Stages, Kinds
      <3> QED BY <1>2, <3>1, StepsLeftType DEF Distance
    <2>2. /\ WorkLeft(<<c, "identity">>)' = WorkLeft(<<c, "identity">>)
          /\ WorkLeft(<<c, "auth">>)' = WorkLeft(<<c, "auth">>)
      BY DEF WorkLeft
    <2> QED BY <1>2, <2>1, <2>2 DEF StepsLeft, Dwindles
  <1> QED BY <1>1, <1>2 DEF Dwindles

\* A promise comes closer to its reactions; the calls stay.
LEMMA SettlingDwindles ==
    ASSUME TypeOK, UNCHANGED <<pc, request, identity, joined, session>>,
           NEW p \in PromiseIds, \A q \in PromiseIds \ {p} : promises'[q] = promises[q],
           WorkLeft(p)' \in 0 .. 2, WorkLeft(p)' < WorkLeft(p),
           NEW d \in Calls
    PROVE  Dwindles(d)
  <1>1. <<d, "identity">> \in PromiseIds /\ <<d, "auth">> \in PromiseIds
        /\ <<d, "identity">> # <<d, "auth">>
    BY DEF PromiseIds, Kinds
  <1>2. \A q \in PromiseIds \ {p} : WorkLeft(q)' = WorkLeft(q)
    BY DEF WorkLeft
  <1>3. CASE p \notin {<<d, "identity">>, <<d, "auth">>}
    BY <1>1, <1>3 DEF Dwindles
  <1>4. CASE p \in {<<d, "identity">>, <<d, "auth">>} /\ pc[d] # "new"
    <2>1. /\ Distance[pc[d]] \in 0 .. 4
          /\ WorkLeft(<<d, "identity">>) \in 0 .. 2 /\ WorkLeft(<<d, "auth">>) \in 0 .. 2
      BY <1>4, StepsLeftType
    <2>2. StepsLeft(d)' =
            Distance[pc[d]] + WorkLeft(<<d, "identity">>)' + WorkLeft(<<d, "auth">>)'
      BY DEF StepsLeft
    <2> HIDE DEF WorkLeft
    <2>3. StepsLeft(d)' \in Nat /\ StepsLeft(d)' < StepsLeft(d)
      BY <1>1, <1>2, <1>4, <2>1, <2>2 DEF StepsLeft
    <2> QED BY <2>3 DEF Dwindles
  <1> QED BY <1>3, <1>4 DEF Dwindles

\* Every call settles in so many steps, unless it has to wait for the loop.
THEOREM CallsEndInSight == Spec => CallsDwindle
  <1>1. TablesInv /\ TypeOK' /\ NoAwaiterStranded /\ [Next]_vars
           => [AllDwindle]_vars
    <2> SUFFICES ASSUME TablesInv, TypeOK', NoAwaiterStranded, Next, NEW d \in Calls
                 PROVE  Dwindles(d)
      BY DEF AllDwindle
    <2>0. TypeOK
      BY DEF TablesInv
    <2>1. CASE Tick \/ Finished
      BY <2>1 DEF Tick, Finished, vars, Dwindles
    <2>2. ASSUME NEW c \in Calls,
                 \/ RejectEarly(c) \/ StartCall(c) \/ RethrowRejection(c) \/ ReuseSession(c)
                 \/ Authenticate(c) \/ TakeSession(c) \/ UseSession(c)
                 \/ CredentialsAnswered(c)
          PROVE  Dwindles(d)
      <3>1. OthersUnchanged(c) /\ UNCHANGED promises
        BY <2>0, <2>2 DEF RejectEarly, StartCall, RethrowRejection, ReuseSession, Authenticate,
                    TakeSession, UseSession, CredentialsAnswered, EndCall, Launch, Await,
                    GoTo, OthersUnchanged, TypeOK
      <3>2. CASE RejectEarly(c) \/ StartCall(c)
        <4>1. pc[c] = "new" /\ pc'[c] # "new"
          <5>1. CASE RejectEarly(c)
            BY <2>0, <5>1 DEF RejectEarly, EndCall, GoTo, TypeOK
          <5>2. CASE StartCall(c)
            <6>1. IdentityKey # Undefined /\ inFlight[IdentityKey] # Undefined
                    => inFlight[IdentityKey][2] \in Kinds
              BY EntryMaker DEF FlightKeys
            <6>2. \/ pc'[c] = "identity"
                  \/ /\ IdentityKey # Undefined /\ inFlight[IdentityKey] # Undefined
                     /\ pc'[c] = inFlight[IdentityKey][2]
              BY <2>0, <5>2 DEF StartCall, Launch, Await, GoTo, TypeOK
            <6> QED BY <5>2, <6>1, <6>2 DEF StartCall, Kinds
          <5> QED BY <3>2, <5>1, <5>2
        <4> QED BY <2>0, <3>1, <4>1, MovingOnDwindles
      <3>3. CASE Authenticate(c)
        <4>1. pc[c] = "identity" /\ pc'[c] = "auth"
          <5> DEFINE key == AuthSingleFlightKey(c, promises[joined[c]].value)
          <5>1. pc[c] = "identity" /\ key \in FlightKeys /\ key # IdentityKey
            <6>1. promises[joined[c]].value \in Identities
              BY <3>3, ResumeType DEF Authenticate, Kinds
            <6> QED BY <2>0, <3>3, <6>1, KeyType, ClientTsAssumption DEF Authenticate, Resumes
          <5>2. \/ pc'[c] = "auth"
                \/ inFlight[key] # Undefined /\ pc'[c] = inFlight[key][2]
            BY <2>0, <3>3 DEF Authenticate, Launch, Await, GoTo, TypeOK
          <5>3. inFlight[key] # Undefined => inFlight[key][2] = "auth"
            BY <5>1, EntryMaker DEF KeyOf, Kinds
          <5> QED BY <5>1, <5>2, <5>3
        <4> QED BY <2>0, <3>1, <4>1, MovingOnDwindles DEF Distance
      <3>4. CASE ~(RejectEarly(c) \/ StartCall(c) \/ Authenticate(c))
        <4>1. \/ pc[c] \in Kinds /\ pc'[c] \in {"settled", "bearer"}
              \/ pc[c] = "bearer" /\ pc'[c] \in {"settled", "credentials"}
              \/ pc[c] = "credentials" /\ pc'[c] = "settled"
          BY <2>0, <2>2, <3>4 DEF RethrowRejection, ReuseSession, TakeSession, UseSession,
                      CredentialsAnswered, Resumes, EndCall, GoTo, TypeOK, Kinds
        <4> QED BY <2>0, <3>1, <4>1, MovingOnDwindles DEF Distance, Kinds
      <3> QED BY <3>2, <3>3, <3>4
    <2>3. ASSUME NEW c \in Calls, CollectIdentity(c) \/ AuthSucceeds(c) \/ AuthFails(c)
          PROVE  Dwindles(d)
      <3>1. PICK k \in Kinds : Runs(c, k) /\ \E outcome :
                                 /\ promises' = [promises EXCEPT ![<<c, k>>] = outcome]
                                 /\ outcome.state # "pending"
        BY <2>3, OutcomeSettles
      <3>2. /\ <<c, k>> \in PromiseIds /\ promises'[<<c, k>>].state # "pending"
            /\ promises[<<c, k>>].state = "pending"
            /\ \A q \in PromiseIds \ {<<c, k>>} : promises'[q] = promises[q]
        BY <2>0, <3>1 DEF PromiseIds, TypeOK, Runs
      <3>3. UNCHANGED <<pc, request, identity, joined, session>>
        BY <2>3 DEF CollectIdentity, AuthSucceeds, AuthFails
      <3> QED BY <2>0, <3>2, <3>3, SettlingDwindles DEF WorkLeft
    <2>4. ASSUME NEW c \in Calls, CleanUp(c)
          PROVE  Dwindles(d)
      <3>1. joined[c] \in PromiseIds
        BY <2>4 DEF CleanUp, TablesInv, CallShape
      <3>2. /\ promises'[joined[c]].reacted /\ ~promises[joined[c]].reacted
            /\ promises'[joined[c]].state = promises[joined[c]].state
            /\ promises[joined[c]].state # "pending"
            /\ \A q \in PromiseIds \ {joined[c]} : promises'[q] = promises[q]
        BY <2>0, <2>4, <3>1 DEF CleanUp, TypeOK, Promises
      <3> QED BY <2>0, <2>4, <3>1, <3>2, SettlingDwindles DEF CleanUp, WorkLeft
    <2> QED BY <2>1, <2>2, <2>3, <2>4 DEF Next, Step
  <1> QED BY <1>1, TablesInvariant, TypeCorrect, NobodyAwaitsInVain, PTL
          DEF Spec, CallsDwindle

-----------------------------------------------------------------------------
(* Sessions: what is cached, promised and held was issued for its scope.    *)

\* The Edge API has issued session s for the scope s is kept under.
Sound(s) ==
    /\ s.accessToken[2] = "auth"
    /\ issued[s.accessToken] # Undefined
    /\ <<issued[s.accessToken].resourceSet, AuthCacheKeyOf[issued[s.accessToken].client]>>
         = <<s.resourceSet, s.authCacheKey>>

\* Session s is for what call c does with its identity.
Fits(s, c) == <<s.resourceSet, s.authCacheKey>> = Scope(c, identity[c])

\* A call holds a session of its own scope.
HeldFits(c) ==
    pc[c] \in {"bearer", "credentials"} => Sound(session[c]) /\ Fits(session[c], c)

\* The authentication a call awaits yields a session that fits, or is still run
\* by a call of the same scope.
AwaitedFits(c) ==
    pc[c] = "auth" =>
        LET p == joined[c] IN
        /\ promises[p].state = "fulfilled" => Fits(promises[p].value, c)
        /\ promises[p].state = "pending" =>
              /\ p = <<p[1], "auth">> /\ p[1] \in Calls /\ Runs(p[1], "auth")
              /\ Scope(c, identity[c]) = Scope(p[1], identity[p[1]])

\* A session that the cache can serve meanwhile was got under another policy.
NotSuperseded(c) ==
    Runs(c, "auth") /\ ~request[c].force /\ CachedSessionFits(c, identity[c])
    => request[tokenState.accessToken[1]].retryKey # request[c].retryKey

\* The inductive invariant of sessions.
SessionsInv ==
    /\ tokenState # Undefined => Sound(tokenState)
    /\ \A p \in PromiseIds : p[2] = "auth" /\ promises[p].state = "fulfilled"
                               => Sound(promises[p].value)
    /\ \A c \in Calls : HeldFits(c) /\ AwaitedFits(c) /\ NotSuperseded(c)

\* What a step does to a call: nothing, unless the step is the call's own.
Moved(c) ==
    \/ RejectEarly(c) \/ StartCall(c) \/ RethrowRejection(c) \/ ReuseSession(c)
    \/ Authenticate(c) \/ TakeSession(c) \/ UseSession(c) \/ CredentialsAnswered(c)

StaysPut(c) ==
    /\ pc'[c] = pc[c] /\ request'[c] = request[c] /\ identity'[c] = identity[c]
    /\ joined'[c] = joined[c] /\ session'[c] = session[c]

\* A step moves the call it belongs to, or none.
LEMMA CallsMoveThemselves ==
    ASSUME TypeOK, [Next]_vars, NEW c \in Calls
    PROVE  Moved(c) \/ StaysPut(c)
  <1>1. ASSUME UNCHANGED <<pc, request, identity, joined, session>>
        PROVE  StaysPut(c)
    BY <1>1 DEF StaysPut
  <1>2. CASE UNCHANGED vars \/ Tick \/ Finished
    BY <1>1, <1>2 DEF vars, Tick, Finished
  <1>3. ASSUME NEW d \in Calls,
               CollectIdentity(d) \/ AuthSucceeds(d) \/ AuthFails(d) \/ CleanUp(d)
        PROVE  StaysPut(c)
    BY <1>1, <1>3 DEF CollectIdentity, AuthSucceeds, AuthFails, CleanUp
  <1>4. ASSUME NEW d \in Calls, d # c, Moved(d)
        PROVE  StaysPut(c)
    <2> USE <1>4 DEF StaysPut, GoTo, TypeOK
    <2>1. CASE EndCall(d) /\ UNCHANGED request
      BY <2>1 DEF EndCall
    <2>2. CASE StartCall(d) \/ Authenticate(d)
      BY <2>2 DEF StartCall, Authenticate, Launch, Await
    <2>3. CASE ReuseSession(d) \/ TakeSession(d)
      BY <2>3 DEF ReuseSession, TakeSession
    <2>4. CASE UseSession(d)
      BY <2>1, <2>4 DEF UseSession
    <2> QED BY <2>1, <2>2, <2>3, <2>4
            DEF Moved, RejectEarly, RethrowRejection, CredentialsAnswered
  <1> QED BY <1>2, <1>3, <1>4 DEF Next, Step, Moved

\* The cache and the Edge API's record change only as an authentication ends.
LEMMA CacheWriters ==
    ASSUME [Next]_vars
    PROVE  \/ UNCHANGED <<tokenState, issued>>
           \/ \E c \in Calls : AuthSucceeds(c) \/ AuthFails(c)
  <1>1. CASE UNCHANGED vars \/ Tick \/ Finished
    BY <1>1 DEF vars, Tick, Finished
  <1>2. ASSUME NEW c \in Calls, RejectEarly(c) \/ StartCall(c)
        PROVE  UNCHANGED <<tokenState, issued>>
    BY <1>2 DEF RejectEarly, StartCall
  <1>3. ASSUME NEW c \in Calls, Step(c), ~AuthSucceeds(c), ~AuthFails(c)
        PROVE  UNCHANGED <<tokenState, issued>>
    BY <1>3 DEF Step, CollectIdentity, CleanUp, RethrowRejection, ReuseSession,
                Authenticate, TakeSession, UseSession, CredentialsAnswered
  <1> QED BY <1>1, <1>2, <1>3 DEF Next

\* A promise settles once, by the call that runs it.
LEMMA PromiseWriters ==
    ASSUME TypeOK, [Next]_vars, NEW p \in PromiseIds
    PROVE  \/ promises'[p].state = promises[p].state /\ promises'[p].value = promises[p].value
           \/ \E c \in Calls :
                \/ p = <<c, "identity">> /\ CollectIdentity(c)
                \/ p = <<c, "auth">> /\ (AuthSucceeds(c) \/ AuthFails(c))
  <1>1. CASE UNCHANGED promises
    BY <1>1
  <1>2. CASE UNCHANGED vars \/ Tick \/ Finished
    BY <1>1, <1>2 DEF vars, Tick, Finished
  <1>3. ASSUME NEW c \in Calls, CollectIdentity(c) \/ AuthSucceeds(c) \/ AuthFails(c)
        PROVE  \/ promises'[p] = promises[p]
               \/ p = <<c, "identity">> /\ CollectIdentity(c)
               \/ p = <<c, "auth">> /\ (AuthSucceeds(c) \/ AuthFails(c))
    BY <1>3 DEF CollectIdentity, AuthSucceeds, AuthFails, TypeOK
  <1>4. ASSUME NEW c \in Calls, CleanUp(c)
        PROVE  promises'[p].state = promises[p].state /\ promises'[p].value = promises[p].value
    <2>1. promises' = [promises EXCEPT ![joined[c]].reacted = TRUE] /\ promises[p] \in Promises
      BY <1>4 DEF CleanUp, TypeOK
    <2>2. promises'[p] = promises[p] \/ promises'[p] = [promises[p] EXCEPT !.reacted = TRUE]
      BY <2>1 DEF TypeOK
    <2> QED BY <2>1, <2>2 DEF Promises
  <1>5. ASSUME NEW c \in Calls, Moved(c)
        PROVE  UNCHANGED promises
    BY <1>5 DEF Moved, RejectEarly, StartCall, RethrowRejection, ReuseSession, Authenticate,
                TakeSession, UseSession, CredentialsAnswered
  <1> QED BY <1>1, <1>2, <1>3, <1>4, <1>5 DEF Next, Step, Moved

\* A call that runs an authentication stays at it until it is settled.
LEMMA RunnersStay ==
    ASSUME TypeOK, [Next]_vars, NEW c \in Calls, Runs(c, "auth")
    PROVE  StaysPut(c)
  <1>1. ~Moved(c)
    BY DEF Moved, Runs, RejectEarly, StartCall, RethrowRejection, ReuseSession, Authenticate,
           TakeSession, UseSession, CredentialsAnswered, Resumes
  <1> QED BY <1>1, CallsMoveThemselves

\* What a successful authentication records and yields.
LEMMA SuccessIsSound ==
    ASSUME ClientTsAssumption, TablesInv, NEW c \in Calls, AuthSucceeds(c)
    PROVE  /\ tokenState' \in CachedTokenStates
           /\ tokenState'.accessToken = <<c, "auth">>
           /\ Sound(tokenState)' /\ Fits(tokenState', c)
           /\ promises'[<<c, "auth">>].state = "fulfilled"
           /\ promises'[<<c, "auth">>].value = tokenState'
  <1>1. identity[c] \in Identities /\ <<c, "auth">> \in PromiseIds
    BY DEF AuthSucceeds, Runs, TablesInv, CallShape, PromiseIds, Kinds
  <1>2. PICK s \in SessionsFor(c) :
            /\ tokenState' = s
            /\ promises' = [promises EXCEPT ![<<c, "auth">>] = Fulfilled(s)]
    BY DEF AuthSucceeds
  <1>3. /\ s \in CachedTokenStates /\ s.accessToken = <<c, "auth">>
        /\ <<s.resourceSet, s.authCacheKey>> = Scope(c, identity[c])
    BY <1>1, SessionType DEF TablesInv
  <1>4. promises'[<<c, "auth">>] = Fulfilled(s)
    BY <1>1, <1>2 DEF TablesInv, TypeOK
  <1>5. issued'[<<c, "auth">>] = [client |-> identity[c], resourceSet |-> request[c].resourceSet]
    BY <1>1 DEF AuthSucceeds, TablesInv, TypeOK
  <1>6. issued'[<<c, "auth">>] # Undefined
    BY <1>1, <1>5 DEF ClientTsAssumption, IssuedSessions, TablesInv, TypeOK, Requests
  <1>7. /\ issued'[<<c, "auth">>].client = identity[c]
        /\ issued'[<<c, "auth">>].resourceSet = request[c].resourceSet
    BY <1>5
  <1>8. Sound(tokenState)'
    BY <1>2, <1>3, <1>6, <1>7 DEF Sound, Scope
  <1> QED BY <1>2, <1>3, <1>4, <1>8 DEF Fits, Fulfilled

\* An issued session stays as it was issued.
LEMMA SoundStays ==
    ASSUME ClientTsAssumption, TablesInv, [Next]_vars, NEW s \in CachedTokenStates, Sound(s)
    PROVE  issued'[s.accessToken] = issued[s.accessToken]
  <1>1. s.accessToken \in PromiseIds
    BY DEF CachedTokenStates
  <1>2. CASE UNCHANGED issued
    BY <1>2
  <1>3. ASSUME NEW c \in Calls, AuthSucceeds(c)
        PROVE  issued'[s.accessToken] = issued[s.accessToken]
    <2>1. issued[<<c, "auth">>] = Undefined
      BY <1>3 DEF AuthSucceeds, TablesInv, PromisesAhead
    <2>2. s.accessToken # <<c, "auth">>
      BY <2>1 DEF Sound
    <2> QED BY <1>1, <1>3, <2>2 DEF AuthSucceeds, TablesInv, TypeOK
  <1> QED BY <1>2, <1>3, CacheWriters DEF AuthFails

\* The cached session stays sound.
LEMMA CacheStaysSound ==
    ASSUME ClientTsAssumption, TablesInv, SessionsInv, [Next]_vars, tokenState' # Undefined
    PROVE  Sound(tokenState)'
  <1>1. CASE tokenState' = tokenState
    <2>1. tokenState \in CachedTokenStates /\ Sound(tokenState)
      BY <1>1 DEF TablesInv, TypeOK, SessionsInv
    <2> QED BY <1>1, <2>1, SoundStays DEF Sound
  <1>2. ASSUME NEW c \in Calls, AuthSucceeds(c)
        PROVE  Sound(tokenState)'
    BY <1>2, SuccessIsSound
  <1> QED BY <1>1, <1>2, CacheWriters DEF AuthFails

\* So do the sessions that promises yield.
LEMMA PromisesStaySound ==
    ASSUME ClientTsAssumption, TablesInv, SessionsInv, [Next]_vars, NEW p \in PromiseIds,
           p[2] = "auth", promises'[p].state = "fulfilled"
    PROVE  Sound(promises[p].value)'
  <1>1. CASE promises'[p].state = promises[p].state /\ promises'[p].value = promises[p].value
    <2>1. promises[p].value \in CachedTokenStates /\ Sound(promises[p].value)
      BY <1>1 DEF TablesInv, PromiseShape, SessionsInv
    <2> QED BY <1>1, <2>1, SoundStays DEF Sound
  <1>2. ASSUME NEW c \in Calls, p = <<c, "auth">>, AuthSucceeds(c)
        PROVE  Sound(promises[p].value)'
    BY <1>2, SuccessIsSound DEF Sound
  <1>3. ASSUME NEW c \in Calls, p = <<c, "auth">>, AuthFails(c)
        PROVE  FALSE
    BY <1>3 DEF AuthFails, Rejected, TablesInv, TypeOK
  <1>4. TypeOK
    BY DEF TablesInv
  <1> QED BY <1>1, <1>2, <1>3, <1>4, PromiseWriters

\* What moving does to the call's stage.
LEMMA MoveStages ==
    ASSUME ClientTsAssumption, TablesInv, NEW c \in Calls, Moved(c)
    PROVE  /\ pc'[c] \in {"identity", "settled"}
                \/ ReuseSession(c) \/ Authenticate(c) \/ TakeSession(c) \/ UseSession(c)
           /\ UNCHANGED <<now, tokenState, issued, promises>>
           /\ request'[c] = request[c] \/ StartCall(c)
           /\ ~StartCall(c) => UNCHANGED request
  <1>1. CASE StartCall(c)
    BY <1>1, CollectionEntry DEF StartCall, Launch, Await, GoTo, TablesInv, TypeOK
  <1>2. CASE RejectEarly(c) \/ RethrowRejection(c) \/ CredentialsAnswered(c)
    BY <1>2 DEF RejectEarly, RethrowRejection, CredentialsAnswered, EndCall, GoTo, TablesInv, TypeOK
  <1>3. CASE ReuseSession(c) \/ Authenticate(c) \/ TakeSession(c) \/ UseSession(c)
    BY <1>3 DEF ReuseSession, Authenticate, TakeSession, UseSession
  <1> QED BY <1>1, <1>2, <1>3 DEF Moved

\* A call's held session stays sound, and fits what the call does.
LEMMA HeldStaysFit ==
    ASSUME ClientTsAssumption, TablesInv, SessionsInv, [Next]_vars, NEW c \in Calls
    PROVE  HeldFits(c)'
  <1> USE DEF HeldFits
  <1>1. CASE StaysPut(c)
    <2> SUFFICES ASSUME pc[c] \in {"bearer", "credentials"}
                 PROVE  Sound(session[c])' /\ Fits(session[c], c)'
      BY <1>1 DEF StaysPut
    <2>1. session[c] \in CachedTokenStates /\ Sound(session[c]) /\ Fits(session[c], c)
      BY DEF TablesInv, CallShape, SessionsInv
    <2>2. Sound(session[c])'
      BY <1>1, <2>1, SoundStays DEF Sound, StaysPut
    <2> QED BY <1>1, <2>1, <2>2 DEF Fits, Scope, StaysPut
  <1>2. CASE ReuseSession(c)
    <2>1. /\ session'[c] = tokenState /\ request'[c] = request[c] /\ issued' = issued
          /\ identity'[c] = promises[joined[c]].value
          /\ CachedSessionFits(c, promises[joined[c]].value)
      BY <1>2 DEF ReuseSession, TablesInv, TypeOK
    <2>2. Sound(tokenState)
      BY <2>1 DEF CachedSessionFits, IsTokenValid, SessionsInv
    <2> QED BY <2>1, <2>2 DEF CachedSessionFits, Sound, Fits, Scope
  <1>3. CASE TakeSession(c)
    <2> DEFINE s == promises[joined[c]].value
    <2>1. /\ session'[c] = s /\ request'[c] = request[c] /\ issued' = issued
          /\ identity'[c] = identity[c]
          /\ pc[c] = "auth" /\ promises[joined[c]].state = "fulfilled"
      BY <1>3 DEF TakeSession, Resumes, TablesInv, TypeOK
    <2>2. joined[c] \in PromiseIds /\ joined[c][2] = "auth"
      BY <2>1 DEF TablesInv, CallShape, Kinds
    <2>3. Sound(s) /\ Fits(s, c)
      BY <2>1, <2>2 DEF SessionsInv, AwaitedFits
    <2> QED BY <2>1, <2>3 DEF Sound, Fits, Scope
  <1>4. CASE UseSession(c)
    <2>1. CASE EndCall(c)
      BY <2>1 DEF EndCall, GoTo, TablesInv, TypeOK
    <2>2. CASE UNCHANGED <<identity, joined, session>>
      <3>1. Sound(session[c]) /\ Fits(session[c], c)
        BY <1>4 DEF UseSession, SessionsInv
      <3> QED BY <1>4, <2>2, <3>1 DEF UseSession, Sound, Fits, Scope
    <2> QED BY <1>4, <2>1, <2>2 DEF UseSession
  <1>5. CASE Authenticate(c)
    BY <1>5, ResumeType, EntryMaker, KeyType DEF Authenticate, Launch, Await, GoTo, TablesInv, TypeOK, Kinds
  <1> QED BY <1>1, <1>2, <1>3, <1>4, <1>5, CallsMoveThemselves, MoveStages DEF TablesInv

\* The authentication a call awaits goes on to fit, as it settles too.
LEMMA AwaitedStaysFit ==
    ASSUME ClientTsAssumption, TablesInv, SessionsInv, [Next]_vars, NEW c \in Calls,
           StaysPut(c)
    PROVE  AwaitedFits(c)'
  <1> DEFINE p == joined[c]
  <1> SUFFICES ASSUME pc[c] = "auth"
               PROVE  /\ promises'[p].state = "fulfilled" => Fits(promises'[p].value, c)
                      /\ promises'[p].state = "pending" =>
                            /\ p = <<p[1], "auth">> /\ p[1] \in Calls /\ Runs(p[1], "auth")'
                            /\ Scope(c, identity[c]) = Scope(p[1], identity[p[1]])'
    BY DEF StaysPut, AwaitedFits, Fits, Scope
  <1>1. TypeOK /\ p \in PromiseIds /\ p[2] = "auth" /\ AwaitedFits(c)
    BY DEF TablesInv, CallShape, Kinds, SessionsInv
  <1>2. CASE promises'[p].state = promises[p].state /\ promises'[p].value = promises[p].value
    <2>1. promises'[p].state = "fulfilled" => Fits(promises'[p].value, c)
      BY <1>1, <1>2 DEF AwaitedFits
    <2>2. ASSUME promises[p].state = "pending"
          PROVE  /\ p = <<p[1], "auth">> /\ p[1] \in Calls /\ Runs(p[1], "auth")'
                 /\ Scope(c, identity[c]) = Scope(p[1], identity[p[1]])'
      <3>1. /\ p = <<p[1], "auth">> /\ p[1] \in Calls /\ Runs(p[1], "auth")
            /\ Scope(c, identity[c]) = Scope(p[1], identity[p[1]])
        BY <1>1, <2>2 DEF AwaitedFits
      <3>2. StaysPut(p[1])
        BY <1>1, <3>1, RunnersStay
      <3>3. Runs(p[1], "auth")'
        BY <1>2, <3>1, <3>2 DEF Runs, StaysPut
      <3> QED BY <3>1, <3>2, <3>3 DEF StaysPut, Scope
    <2> QED BY <1>2, <2>1, <2>2
  <1>3. ASSUME NEW d \in Calls, p = <<d, "auth">>, AuthSucceeds(d)
        PROVE  promises'[p].state = "fulfilled" /\ Fits(promises'[p].value, c)
    <2>1. promises[p].state = "pending"
      BY <1>3 DEF AuthSucceeds, Runs
    <2>2. Scope(c, identity[c]) = Scope(d, identity[d])
      BY <1>1, <1>3, <2>1 DEF AwaitedFits
    <2> QED BY <1>3, <2>2, SuccessIsSound DEF Fits
  <1>4. ASSUME NEW d \in Calls, p = <<d, "auth">>, AuthFails(d)
        PROVE  promises'[p].state = "rejected"
    BY <1>1, <1>4 DEF AuthFails, Rejected, TypeOK
  <1>5. p # <<c, "identity">>
    BY <1>1
  <1> QED BY <1>1, <1>2, <1>3, <1>4, <1>5, PromiseWriters

\* A call that turns to an authentication finds one that fits.
LEMMA JoinedAuthFits ==
    ASSUME ClientTsAssumption, TablesInv, SessionsInv, NEW c \in Calls, Authenticate(c)
    PROVE  AwaitedFits(c)'
  <1> DEFINE i == promises[joined[c]].value
             key == AuthSingleFlightKey(c, i)
  <1>1. /\ pc[c] = "identity" /\ Free(c) /\ i \in Identities
        /\ identity' = [identity EXCEPT ![c] = i]
        /\ UNCHANGED <<promises, request>>
    BY ResumeType DEF Authenticate, Resumes, Free, Kinds
  <1>2. key \in FlightKeys /\ key # IdentityKey
    BY <1>1, KeyType DEF TablesInv
  <1>3. identity'[c] = i /\ Scope(c, identity[c])' = Scope(c, i)
    BY <1>1 DEF TablesInv, TypeOK, Scope
  <1>4. CASE inFlight[key] # Undefined
    <2>1. PICK p \in PromiseIds : p = inFlight[key]
      BY <1>2, <1>4, EntryMaker
    <2>2. PICK m \in Calls :
             /\ p = <<m, "auth">> /\ m # c
             /\ joined[m] = p /\ pc[m] = "auth" /\ AuthSingleFlightKey(m, identity[m]) = key
      <3>1. /\ p[1] \in Calls /\ p = <<p[1], p[2]>> /\ p[2] \in Kinds
            /\ joined[p[1]] = p /\ pc[p[1]] = p[2] /\ KeyOf(p[1]) = key
        BY <1>2, <1>4, <2>1, EntryMaker
      <3>2. p[1] # c
        BY <1>1, <1>2, <1>4, <2>1, FreeMakesNoEntry
      <3> QED BY <1>2, <3>1, <3>2 DEF KeyOf, Kinds
    <2>3. Scope(m, identity[m]) = Scope(c, i)
      BY <2>2 DEF AuthSingleFlightKey, Scope
    <2>4. /\ joined'[c] = p /\ joined'[m] = p /\ pc'[m] = "auth"
          /\ identity'[m] = identity[m]
      BY <1>1, <1>4, <2>1, <2>2 DEF Authenticate, Await, GoTo, TablesInv, TypeOK
    <2>5. promises[p].state = "fulfilled" => Fits(promises[p].value, m)
      BY <2>2 DEF SessionsInv, AwaitedFits
    <2>6. promises[p].state = "fulfilled" => Fits(promises[p].value, c)'
      BY <1>1, <1>3, <2>3, <2>5 DEF Fits
    <2>7. promises[p].state = "pending" => Runs(m, "auth")'
      BY <1>1, <2>2, <2>4 DEF Runs
    <2>8. Scope(c, identity[c])' = Scope(m, identity[m])'
      BY <1>1, <1>3, <2>3, <2>4 DEF Scope
    <2>9. p[1] = m
      BY <2>2
    <2> QED BY <1>1, <2>2, <2>4, <2>6, <2>7, <2>8, <2>9 DEF AwaitedFits, Fits, Scope
  <1>5. CASE inFlight[key] = Undefined
    <2>1. joined'[c] = <<c, "auth">> /\ pc'[c] = "auth"
      BY <1>1, <1>5 DEF Authenticate, Launch, Await, GoTo, TablesInv, TypeOK
    <2>2. Fresh(<<c, "auth">>)
      BY <1>1 DEF TablesInv, PromisesAhead
    <2>3. promises[<<c, "auth">>].state = "pending"
      BY <2>2 DEF Fresh, Pending
    <2> QED BY <1>1, <2>1, <2>3 DEF AwaitedFits, Runs
  <1> QED BY <1>4, <1>5

\* Whatever a call does, the authentication it then awaits fits.
LEMMA AwaitedFitsNext ==
    ASSUME ClientTsAssumption, TablesInv, SessionsInv, [Next]_vars, NEW c \in Calls
    PROVE  AwaitedFits(c)'
  <1>1. CASE StaysPut(c)
    BY <1>1, AwaitedStaysFit
  <1>2. CASE Authenticate(c)
    BY <1>2, JoinedAuthFits
  <1>3. CASE ReuseSession(c) \/ TakeSession(c) \/ UseSession(c)
    <2>1. pc'[c] # "auth"
      BY <1>3 DEF ReuseSession, TakeSession, UseSession, EndCall, GoTo, TablesInv, TypeOK
    <2> QED BY <2>1 DEF AwaitedFits
  <1>4. CASE pc'[c] \in {"identity", "settled"}
    BY <1>4 DEF AwaitedFits
  <1> QED BY <1>1, <1>2, <1>3, <1>4, CallsMoveThemselves, MoveStages DEF TablesInv

\* A cached session that is still valid was valid before the clock moved.
LEMMA ValidBefore ==
    ASSUME ClientTsAssumption, TypeOK, [Next]_vars, tokenState' = tokenState,
           IsTokenValid(tokenState)'
    PROVE  IsTokenValid(tokenState)
  <1>1. now \in Nat /\ Skew \in Nat
    BY DEF TypeOK, ClientTsAssumption
  <1>2. now' = now \/ now' = now + 1
    BY DEF Next, Step, vars, Tick, Finished, RejectEarly, StartCall, CollectIdentity,
           AuthSucceeds, AuthFails, CleanUp, RethrowRejection, ReuseSession, Authenticate,
           TakeSession, UseSession, CredentialsAnswered
  <1>3. tokenState # Undefined => tokenState.expiresAtMs \in Instants
    BY DEF TypeOK, CachedTokenStates
  <1> QED BY <1>1, <1>2, <1>3 DEF IsTokenValid, Instants

\* An authentication is not superseded when it begins, and is not later.
LEMMA NotSupersededNext ==
    ASSUME ClientTsAssumption, TablesInv, SessionsInv, [Next]_vars, NEW c \in Calls
    PROVE  NotSuperseded(c)'
  <1> SUFFICES ASSUME Runs(c, "auth")', ~request'[c].force, CachedSessionFits(c, identity[c])'
               PROVE  request'[tokenState'.accessToken[1]].retryKey # request'[c].retryKey
    BY DEF NotSuperseded
  <1>1. TypeOK
    BY DEF TablesInv
  <1>2. CASE Runs(c, "auth") /\ ~(\E d \in Calls : AuthSucceeds(d))
    <2>1. StaysPut(c)
      BY <1>1, <1>2, RunnersStay
    <2>2. tokenState' = tokenState /\ tokenState # Undefined
      BY <1>2, CacheWriters DEF AuthFails, CachedSessionFits, IsTokenValid
    <2>3. CachedSessionFits(c, identity[c])
      BY <1>1, <2>1, <2>2, ValidBefore DEF CachedSessionFits, Scope, StaysPut
    <2>4. request[tokenState.accessToken[1]].retryKey # request[c].retryKey
      BY <1>2, <2>1, <2>3 DEF SessionsInv, NotSuperseded, StaysPut
    <2>5. PICK maker \in Calls : tokenState.accessToken = <<maker, "auth">>
      BY <1>1, <2>2 DEF TypeOK, CachedTokenStates, PromiseIds, SessionsInv, Sound
    <2>6. pc[maker] # "new"
      BY <2>2, <2>5 DEF TablesInv, PromisesAhead, Fresh, SessionsInv, Sound
    <2>7. request'[maker] = request[maker]
      BY <1>1, <2>6, CallsMoveThemselves, MoveStages DEF StaysPut, StartCall
    <2> QED BY <2>1, <2>2, <2>4, <2>5, <2>7 DEF StaysPut
  <1>3. ASSUME NEW d \in Calls, AuthSucceeds(d), Runs(c, "auth")
        PROVE  request'[tokenState'.accessToken[1]].retryKey # request'[c].retryKey
    <2>1. c # d
      BY <1>3, SuccessIsSound DEF Runs
    <2>2. /\ tokenState'.accessToken = <<d, "auth">> /\ Fits(tokenState', d)
          /\ UNCHANGED <<request, identity>>
      BY <1>3, SuccessIsSound DEF AuthSucceeds
    <2>3. Scope(c, identity[c]) = Scope(d, identity[d])
      BY <2>2 DEF CachedSessionFits, Fits, Scope
    <2>4. KeyOf(c) # KeyOf(d)
      <3>1. Runs(d, "auth") /\ "auth" \in Kinds /\ pc[c] = "auth" /\ identity[c] \in Identities
        BY <1>3 DEF AuthSucceeds, Runs, Kinds, TablesInv, CallShape
      <3>2. KeyOf(c) # Undefined
        BY <1>1, <3>1, KeyType DEF KeyOf
      <3> QED BY <1>3, <2>1, <3>1, <3>2, RunnersApart
    <2>5. KeyOf(c) = AuthSingleFlightKey(c, identity[c]) /\ KeyOf(d) = AuthSingleFlightKey(d, identity[d])
      BY <1>3 DEF AuthSucceeds, Runs, KeyOf
    <2>6. request[c].retryKey # request[d].retryKey
      BY <2>3, <2>4, <2>5 DEF Scope, AuthSingleFlightKey
    <2> QED BY <2>2, <2>6
  <1>4. CASE ~Runs(c, "auth")
    <2>1. ~StaysPut(c)
      <3> SUFFICES ASSUME StaysPut(c) PROVE FALSE
        OBVIOUS
      <3>1. pc[c] = "auth" /\ joined[c] = <<c, "auth">> /\ promises'[<<c, "auth">>].state = "pending"
        BY DEF StaysPut, Runs
      <3>2. <<c, "auth">> \in PromiseIds
        BY DEF PromiseIds, Kinds
      <3>3. promises[<<c, "auth">>].state # "pending"
        BY <1>4, <3>1 DEF Runs
      <3>4. \A d \in Calls : <<c, "auth">> = <<d, "auth">> =>
                                ~AuthSucceeds(d) /\ ~AuthFails(d)
        BY <1>4 DEF AuthSucceeds, AuthFails
      <3> QED BY <1>1, <3>1, <3>2, <3>3, <3>4, PromiseWriters
    <2>2. pc'[c] = "auth"
      BY DEF Runs
    <2>3. Authenticate(c)
      <3>1. ~ReuseSession(c) /\ ~TakeSession(c) /\ ~UseSession(c)
        BY <1>1, <2>2 DEF ReuseSession, TakeSession, UseSession, EndCall, GoTo, TypeOK
      <3> QED BY <1>1, <2>1, <2>2, <3>1, CallsMoveThemselves, MoveStages
    <2> DEFINE i == promises[joined[c]].value
    <2>4. /\ request[c].force \/ ~CachedSessionFits(c, i)
          /\ identity'[c] = i /\ UNCHANGED <<now, tokenState, request>>
      BY <1>1, <2>3 DEF Authenticate, TypeOK
    <2>5. ~CachedSessionFits(c, identity[c])'
      BY <2>4 DEF CachedSessionFits, IsTokenValid, Scope
    <2> QED BY <2>5
  <1> QED BY <1>2, <1>3, <1>4

\* The invariant of sessions holds at first, and every step keeps it.
LEMMA SessionsInit == ClientTsAssumption /\ Init => SessionsInv
  BY DEF Init, SessionsInv, HeldFits, AwaitedFits, NotSuperseded, Runs, Pending

LEMMA SessionsStep ==
    ClientTsAssumption /\ TablesInv /\ SessionsInv /\ [Next]_vars => SessionsInv'
  <1> SUFFICES ASSUME ClientTsAssumption, TablesInv, SessionsInv, [Next]_vars
               PROVE  SessionsInv'
    OBVIOUS
  <1>1. tokenState' # Undefined => Sound(tokenState)'
    BY CacheStaysSound
  <1>2. \A p \in PromiseIds : p[2] = "auth" /\ promises'[p].state = "fulfilled"
                                => Sound(promises[p].value)'
    BY PromisesStaySound
  <1>3. \A c \in Calls : HeldFits(c)' /\ AwaitedFits(c)' /\ NotSuperseded(c)'
    BY HeldStaysFit, AwaitedFitsNext, NotSupersededNext
  <1> QED BY <1>1, <1>2, <1>3 DEF SessionsInv

\* Every reachable state satisfies the invariant of sessions.
THEOREM SessionsInvariant == Spec => []SessionsInv
  <1>1. Init => SessionsInv
    BY ClientTsAssumption, SessionsInit
  <1>2. TablesInv /\ SessionsInv /\ [Next]_vars => SessionsInv'
    BY ClientTsAssumption, SessionsStep
  <1> QED BY <1>1, <1>2, TablesInvariant, PTL DEF Spec

\* A valid session leaves the cache only for another one.
THEOREM ValidSessionsStay == Spec => CachedSessionKept
  <1>1. TablesInv /\ [Next]_vars => [IsTokenValid(tokenState) => tokenState' # Undefined]_vars
    <2> SUFFICES ASSUME TablesInv, [Next]_vars, IsTokenValid(tokenState)
                 PROVE  tokenState' # Undefined
      OBVIOUS
    <2>1. tokenState # Undefined
      BY DEF IsTokenValid
    <2>2. ASSUME NEW c \in Calls, AuthSucceeds(c)
          PROVE  tokenState' # Undefined
      BY <2>2, ClientTsAssumption, SuccessIsSound DEF ClientTsAssumption
    <2>3. ASSUME NEW c \in Calls, AuthFails(c)
          PROVE  tokenState' = tokenState
      BY <2>3 DEF AuthFails, MayClear
    <2> QED BY <2>1, <2>2, <2>3, CacheWriters
  <1> QED BY <1>1, TablesInvariant, PTL DEF Spec, CachedSessionKept

\* A session is not fetched anew while the cache can serve its call, but where
\* two retry policies forbade sharing.
THEOREM NothingSuperseded == Spec => NoSupersededSession
  <1>1. SessionsInv =>
          [\A c \in Calls :
             AuthSucceeds(c) /\ ~request[c].force /\ CachedSessionFits(c, identity[c])
             => request[tokenState.accessToken[1]].retryKey # request[c].retryKey]_vars
    BY DEF SessionsInv, NotSuperseded, AuthSucceeds
  <1> QED BY <1>1, SessionsInvariant, PTL DEF NoSupersededSession

\* The bearer belongs to the identity that the request presents, where cache
\* keys tell identities apart.
THEOREM BearersMatchIdentities ==
    ASSUME \A i, j \in Identities : AuthCacheKeyOf[i] = AuthCacheKeyOf[j] => i = j
    PROVE  Spec => []SessionServesItsIdentity
  <1>1. TablesInv /\ SessionsInv => SessionServesItsIdentity
    <2> SUFFICES ASSUME TablesInv, SessionsInv, NEW c \in Calls, pc[c] = "credentials"
                 PROVE  issued[session[c].accessToken] =
                            [client |-> identity[c], resourceSet |-> request[c].resourceSet]
      BY DEF SessionServesItsIdentity
    <2> DEFINE record == issued[session[c].accessToken]
    <2>1. /\ session[c] \in CachedTokenStates /\ Sound(session[c]) /\ Fits(session[c], c)
          /\ identity[c] \in Identities
      BY DEF TablesInv, CallShape, SessionsInv, HeldFits
    <2>2. record \in IssuedSessions
      BY <2>1 DEF CachedTokenStates, Sound, TablesInv, TypeOK
    <2>3. record.resourceSet = request[c].resourceSet
          /\ AuthCacheKeyOf[record.client] = AuthCacheKeyOf[identity[c]]
      BY <2>1 DEF Sound, Fits, Scope
    <2>4. record.client = identity[c]
      BY <2>1, <2>2, <2>3 DEF IssuedSessions
    <2> QED BY <2>2, <2>3, <2>4 DEF IssuedSessions
  <1> QED BY <1>1, TablesInvariant, SessionsInvariant, PTL

-----------------------------------------------------------------------------
(* The client implements SessionBroker.                                     *)

\* What a step does, in the broker's terms.
BrokerStep == [Broker!BrokerNext]_Broker!brokerVars

\* A step that changes no scope, bearer or issued session is no step of it.
LEMMA Unseen ==
    ASSUME \A c \in Calls : Wanted(c)' = Wanted(c) /\ Granted(c)' = Granted(c),
           \A p \in PromiseIds : IssuedFor(p)' = IssuedFor(p)
    PROVE  BrokerStep
  BY DEF BrokerStep, Broker!brokerVars

\* A step of call c leaves what the others want and hold alone.
LEMMA OthersSeenAlike ==
    ASSUME NEW c \in Calls, OthersUnchanged(c)
    PROVE  \A d \in Calls : d # c => Wanted(d)' = Wanted(d) /\ Granted(d)' = Granted(d)
  BY DEF OthersUnchanged, Wanted, Granted, Scope

\* A scope is no Undefined, so a call with an identity wants something.
LEMMA WantedScope ==
    ASSUME ClientTsAssumption, TypeOK, NEW c \in Calls, identity[c] \in Identities
    PROVE  /\ Wanted(c) = Scope(c, identity[c]) /\ Wanted(c) # Undefined
           /\ Scope(c, identity[c]) \in Scopes
  <1>1. identity[c] # Undefined
    BY DEF ClientTsAssumption
  <1>2. Scope(c, identity[c]) \in ResourceSets \X AuthCacheKeys
    BY KeyType
  <1>3. Scope(c, identity[c]) # Undefined
    BY <1>2 DEF ClientTsAssumption
  <1> QED BY <1>1, <1>2, <1>3 DEF Wanted, Scopes

\* A call that comes to know its identity asks for a session.
LEMMA IdentityAsks ==
    ASSUME ClientTsAssumption, TablesInv, NEW c \in Calls,
           ReuseSession(c) \/ Authenticate(c)
    PROVE  BrokerStep
  <1> DEFINE i == promises[joined[c]].value
  <1>1. /\ pc[c] = "identity" /\ i \in Identities /\ identity'[c] = i
        /\ UNCHANGED issued
    BY ResumeType DEF ReuseSession, Authenticate, Resumes, Kinds, TablesInv, TypeOK
  <1>2. OthersUnchanged(c) /\ pc'[c] # "credentials"
    <2>1. CASE ReuseSession(c)
      BY <2>1 DEF ReuseSession, GoTo, OthersUnchanged, TablesInv, TypeOK
    <2>2. CASE Authenticate(c)
      <3>1. OthersUnchanged(c)
        BY <2>2 DEF Authenticate, Launch, Await, GoTo, OthersUnchanged, TablesInv, TypeOK
      <3>2. AuthSingleFlightKey(c, i) \in FlightKeys
        BY <1>1, KeyType DEF TablesInv
      <3>3. pc'[c] \in Kinds
        BY <2>2, <3>2, EntryMaker
           DEF Authenticate, Launch, Await, GoTo, TablesInv, TypeOK, Kinds
      <3> QED BY <3>1, <3>3 DEF Kinds
    <2> QED BY <2>1, <2>2
  <1>3. identity[c] = Undefined /\ identity'[c] \in Identities
    BY <1>1 DEF TablesInv, CallShape
  <1>4. /\ Wanted(c) = Undefined /\ Wanted(c)' = Scope(c, identity[c])'
        /\ Scope(c, identity[c])' \in Scopes
        /\ Granted(c) = Undefined /\ Granted(c)' = Undefined
    <2>1. identity'[c] # Undefined
      BY <1>3 DEF ClientTsAssumption
    <2>2. Scope(c, i) \in Scopes
      BY <1>1, KeyType DEF Scopes, TablesInv
    <2>3. Scope(c, identity[c])' = Scope(c, i)
      BY <1>1 DEF ReuseSession, Authenticate, Scope
    <2> QED BY <1>1, <1>2, <1>3, <2>1, <2>2, <2>3 DEF Wanted, Granted
  <1>5. PICK k \in Scopes : Wanted(c)' = k
    BY <1>4
  <1>6. \A p \in PromiseIds : IssuedFor(p)' = IssuedFor(p)
    BY <1>1 DEF IssuedFor
  <1>7. Broker!Ask(c, k)
    BY <1>2, <1>4, <1>5, <1>6, OthersSeenAlike DEF Broker!Ask
  <1> QED BY <1>7 DEF BrokerStep, Broker!BrokerNext

\* A call that ends leaves the broker, if it ever asked.
LEMMA EndCallLeaves ==
    ASSUME ClientTsAssumption, TablesInv, NEW c \in Calls, EndCall(c),
           UNCHANGED <<issued, request>>
    PROVE  BrokerStep
  <1>1. /\ OthersUnchanged(c)
        /\ Wanted(c)' = Undefined /\ Granted(c)' = Undefined
    BY DEF EndCall, GoTo, OthersUnchanged, TablesInv, TypeOK, Wanted, Granted
  <1>2. \A p \in PromiseIds : IssuedFor(p)' = IssuedFor(p)
    BY DEF IssuedFor
  <1>3. CASE identity[c] = Undefined
    <2>1. pc[c] # "credentials"
      BY <1>3 DEF TablesInv, CallShape, ClientTsAssumption
    <2>2. Wanted(c) = Undefined /\ Granted(c) = Undefined
      BY <1>3, <2>1 DEF Wanted, Granted
    <2> QED BY <1>1, <1>2, <2>2, OthersSeenAlike, Unseen
  <1>4. CASE identity[c] # Undefined
    <2>1. identity[c] \in Identities
      BY <1>4 DEF TablesInv, TypeOK
    <2>2. Wanted(c) # Undefined
      BY <2>1, WantedScope DEF TablesInv
    <2>3. Broker!Leave(c)
      BY <1>1, <1>2, <2>2, OthersSeenAlike DEF Broker!Leave
    <2> QED BY <2>3 DEF BrokerStep, Broker!BrokerNext
  <1> QED BY <1>3, <1>4

\* A call about to use its session is granted it; a forced one returns.
LEMMA UseSessionGrants ==
    ASSUME ClientTsAssumption, TablesInv, SessionsInv, NEW c \in Calls, UseSession(c)
    PROVE  BrokerStep
  <1>1. CASE request[c].force
    BY <1>1, EndCallLeaves DEF UseSession
  <1>2. CASE ~request[c].force
    <2>1. /\ OthersUnchanged(c)
          /\ Wanted(c)' = Wanted(c) /\ Granted(c)' = session[c].accessToken
          /\ Granted(c) = Undefined
          /\ \A p \in PromiseIds : IssuedFor(p)' = IssuedFor(p)
      BY <1>2 DEF UseSession, GoTo, OthersUnchanged, TablesInv, TypeOK, Wanted, Granted,
                  Scope, IssuedFor
    <2>2. /\ session[c] \in CachedTokenStates /\ identity[c] \in Identities
          /\ Sound(session[c]) /\ Fits(session[c], c)
      BY DEF UseSession, TablesInv, CallShape, SessionsInv, HeldFits
    <2>3. PICK p \in PromiseIds : p = session[c].accessToken
      BY <2>2 DEF CachedTokenStates
    <2>4. IssuedFor(p) = <<session[c].resourceSet, session[c].authCacheKey>>
      BY <2>2, <2>3 DEF IssuedFor, Sound
    <2>5. IssuedFor(p) = Wanted(c) /\ Wanted(c) # Undefined
      BY <2>2, <2>4, WantedScope DEF Fits, TablesInv
    <2>6. Broker!Grant(c, p)
      BY <2>1, <2>3, <2>5, OthersSeenAlike DEF Broker!Grant
    <2> QED BY <2>6 DEF BrokerStep, Broker!BrokerNext
  <1> QED BY <1>1, <1>2

\* The Edge API's answer issues a session for the scope of the call that asked.
LEMMA AnswerIssues ==
    ASSUME ClientTsAssumption, TablesInv, NEW c \in Calls, AuthSucceeds(c)
    PROVE  BrokerStep
  <1>1. PICK p \in PromiseIds : p = <<c, "auth">>
    BY DEF PromiseIds, Kinds
  <1>2. /\ pc[c] = "auth" /\ identity[c] \in Identities /\ issued[p] = Undefined
        /\ UNCHANGED <<pc, request, identity, session>>
    BY <1>1 DEF AuthSucceeds, Runs, TablesInv, CallShape, PromisesAhead
  <1>3. /\ issued'[p] = [client |-> identity[c], resourceSet |-> request[c].resourceSet]
        /\ \A q \in PromiseIds : q # p => issued'[q] = issued[q]
    BY <1>1 DEF AuthSucceeds, TablesInv, TypeOK
  <1>4. issued'[p] # Undefined
    BY <1>2, <1>3 DEF ClientTsAssumption, IssuedSessions, TablesInv, TypeOK, Requests
  <1>5. issued'[p].client = identity[c] /\ issued'[p].resourceSet = request[c].resourceSet
    BY <1>3
  <1>6. /\ IssuedFor(p) = Undefined
        /\ IssuedFor(p)' = Scope(c, identity[c])
        /\ \A q \in PromiseIds : q # p => IssuedFor(q)' = IssuedFor(q)
    BY <1>2, <1>3, <1>4, <1>5 DEF IssuedFor, Scope
  <1>7. Wanted(c) = Scope(c, identity[c]) /\ Wanted(c) # Undefined
    BY <1>2, WantedScope DEF TablesInv
  <1>8. /\ \A d \in Calls : Wanted(d)' = Wanted(d) /\ Granted(d)' = Granted(d)
        /\ Granted(c) = Undefined
    BY <1>2 DEF Wanted, Granted, Scope
  <1>9. Broker!Issue(c, p)
    BY <1>6, <1>7, <1>8 DEF Broker!Issue
  <1> QED BY <1>9 DEF BrokerStep, Broker!BrokerNext

\* The Maps, the promises and the cache are invisible to the broker.
LEMMA BookkeepingUnseen ==
    ASSUME ClientTsAssumption, TablesInv, NEW c \in Calls,
           \/ StartCall(c) \/ CollectIdentity(c) \/ AuthFails(c) \/ CleanUp(c)
           \/ TakeSession(c)
    PROVE  BrokerStep
  <1>1. /\ UNCHANGED <<issued, identity>>
        /\ \A d \in Calls : d # c => pc'[d] = pc[d] /\ request'[d] = request[d]
                                    /\ session'[d] = session[d]
        /\ pc[c] # "credentials" /\ pc'[c] # "credentials"
        /\ request'[c] = request[c] \/ identity[c] = Undefined
    <2>1. CASE StartCall(c)
      <3>1. pc'[c] = "identity"
        BY <2>1, CollectionEntry DEF StartCall, Launch, Await, GoTo, TablesInv, TypeOK
      <3> QED BY <2>1, <3>1 DEF StartCall, Launch, Await, GoTo, TablesInv, TypeOK, CallShape
    <2>2. CASE CollectIdentity(c) \/ AuthFails(c) \/ CleanUp(c)
      BY <2>2 DEF CollectIdentity, AuthFails, CleanUp, Runs, Kinds
    <2>3. CASE TakeSession(c)
      BY <2>3 DEF TakeSession, Resumes, GoTo, TablesInv, TypeOK
    <2> QED BY <2>1, <2>2, <2>3
  <1>2. \A d \in Calls : Wanted(d)' = Wanted(d) /\ Granted(d)' = Granted(d)
    BY <1>1 DEF Wanted, Granted, Scope
  <1>3. \A p \in PromiseIds : IssuedFor(p)' = IssuedFor(p)
    BY <1>1 DEF IssuedFor
  <1> QED BY <1>2, <1>3, Unseen

\* Every step of the client is a step of the broker or none.
LEMMA BrokerSimulation ==
    ClientTsAssumption /\ TablesInv /\ SessionsInv /\ [Next]_vars => BrokerStep
  <1> SUFFICES ASSUME ClientTsAssumption, TablesInv, SessionsInv, [Next]_vars
               PROVE  BrokerStep
    OBVIOUS
  <1>1. CASE UNCHANGED vars \/ Tick \/ Finished
    <2>1. UNCHANGED <<issued, identity, request, session, pc>>
      BY <1>1 DEF vars, Tick, Finished
    <2>2. \A c \in Calls : Wanted(c)' = Wanted(c) /\ Granted(c)' = Granted(c)
      BY <2>1 DEF Wanted, Granted, Scope
    <2>3. \A p \in PromiseIds : IssuedFor(p)' = IssuedFor(p)
      BY <2>1 DEF IssuedFor
    <2> QED BY <2>2, <2>3, Unseen
  <1>2. ASSUME NEW c \in Calls, RejectEarly(c) \/ RethrowRejection(c) \/ CredentialsAnswered(c)
        PROVE  BrokerStep
    BY <1>2, EndCallLeaves DEF RejectEarly, RethrowRejection, CredentialsAnswered
  <1> QED BY <1>1, <1>2, IdentityAsks, UseSessionGrants, AnswerIssues, BookkeepingUnseen
          DEF Next, Step

\* The client starts as the broker does.
LEMMA BrokerInitially == ClientTsAssumption /\ Init => Broker!BrokerInit
  BY DEF Init, Broker!BrokerInit, Wanted, Granted, IssuedFor

\* The TypeScript client implements the broker: no interleaving of its calls
\* hands a caller a session that was not issued for the caller's scope.
THEOREM ClientImplementsBroker == Spec => ImplementsBroker
  <1>1. Init => Broker!BrokerInit
    BY ClientTsAssumption, BrokerInitially
  <1>2. TablesInv /\ SessionsInv /\ [Next]_vars => [Broker!BrokerNext]_Broker!brokerVars
    BY ClientTsAssumption, BrokerSimulation DEF BrokerStep
  <1> QED BY <1>1, <1>2, TablesInvariant, SessionsInvariant, PTL
          DEF Spec, ImplementsBroker, Broker!BrokerSpec
=============================================================================
