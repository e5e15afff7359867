---------------------------- MODULE EdgeClientPy ----------------------------
(***************************************************************************)
(* The Python EdgeClient (py/src/aembit_edge/client.py) as its threads run *)
(* it: one client instance, called by several threads at once.  A call     *)
(* collects the workload identity, finds or acquires a bearer session and, *)
(* for get_credential(), sends the credentials request.  The client keeps  *)
(* one cached session and two tables of in-flight work, all guarded by     *)
(* _state_lock; a critical section is short and calls nothing that blocks, *)
(* so each is one action, and everything between two of them is open to    *)
(* the other threads.                                                      *)
(***************************************************************************)
EXTENDS Integers, FiniteSets

CONSTANTS
    Threads,            \* application threads that share the client
    MaxCalls,           \* bound: calls each thread makes
    ResourceSets,       \* effective Resource Sets, "none" among them
    DefaultResourceSet, \* the client's configured one
    RetryKeys,          \* serialized effective retry policies
    DefaultRetryKey,    \* the client's configured one
    Identities,         \* identities the Trust Provider may present
    AuthCacheKeys,      \* values of auth_cache_key, None among them
    AuthCacheKeyOf,     \* the key the provider sends with each identity
    IdentityKey,        \* the provider's single-flight key, or None
    Interruptible,      \* threads a BaseException may reach (the main thread)
    Lifetimes,          \* expiresIn values the Edge API may answer
    NoExpiry,           \* an answer without expiresIn
    Skew,               \* auth_expiry_skew_ms
    MaxNow,             \* bound: the last instant of the clock
    Nothing             \* Python's None

VARIABLES
    now,        \* the wall clock, in ms units
    tokenState, \* _token_state: the one cached session, or Nothing
    inFlight,   \* both in-flight tables: key -> flight, or Nothing
    flights,    \* the _InFlight objects, by name
    issued,     \* the Edge API's record of the sessions it has issued
    pc,         \* where each thread is
    callNo,     \* number of the thread's current or last call
    kind,       \* what the thread coalesces: "identity", then "auth"
    request,    \* what the call asks for
    identity,   \* the identity the call collected
    joined,     \* the _InFlight object the thread leads or waits on
    session     \* the session the call holds

vars == <<now, tokenState, inFlight, flights, issued, pc, callNo, kind, request,
          identity, joined, session>>

\* A call's local variables, and everything that is not local to a call.
callVars == <<kind, request, identity, joined, session>>
sharedVars == <<now, tokenState, inFlight, flights, issued, callNo>>
-----------------------------------------------------------------------------
(* The data *)

Kinds == {"identity", "auth"}

\* An _InFlight object is named after the call that made it, and the session
\* an authentication yields after that authentication.
FlightIds == Threads \X (1 .. MaxCalls) \X Kinds

Instants == Nat \cup {NoExpiry}

\* The session f yields, as the Edge API remembers it and as the client does.
IssuedSessions == [client : Identities, resourceSet : ResourceSets]

CachedTokenStates ==
    [accessToken : FlightIds, expiresAt : Instants, resourceSet : ResourceSets,
     authCacheKey : AuthCacheKeys]

InFlightObjects ==
    [result : Identities \cup CachedTokenStates \cup {Nothing},
     error : BOOLEAN, done : BOOLEAN]

NewInFlight == [result |-> Nothing, error |-> FALSE, done |-> FALSE]

Requests == [force : BOOLEAN, resourceSet : ResourceSets, retryKey : RetryKeys]

AuthKeys == ResourceSets \X AuthCacheKeys \X RetryKeys

FlightKeys == {IdentityKey} \cup AuthKeys

ASSUME ClientAssumption ==
    /\ MaxCalls \in Nat /\ MaxNow \in Nat /\ Skew \in Nat
    /\ DefaultResourceSet \in ResourceSets
    /\ DefaultRetryKey \in RetryKeys
    /\ AuthCacheKeyOf \in [Identities -> AuthCacheKeys]
    /\ IdentityKey \notin AuthKeys
    /\ Interruptible \subseteq Threads
    /\ NoExpiry \notin Nat /\ Lifetimes \subseteq Nat \cup {NoExpiry}
    /\ Nothing \notin Identities \cup FlightIds \cup CachedTokenStates \cup IssuedSessions
    /\ Nothing \notin ResourceSets \X AuthCacheKeys

\* calculate_expires_at_ms: no lifetime, no expiry.
ExpiresAt(lifetime) == IF lifetime = NoExpiry THEN NoExpiry ELSE now + lifetime

\* is_token_valid
IsTokenValid(s) ==
    /\ s # Nothing
    /\ s.expiresAt = NoExpiry \/ now < s.expiresAt - Skew

\* Mutant: the key forgets the identity.
AuthSingleFlightKeyWithoutIdentity(t) ==
    <<request[t].resourceSet, CHOOSE k \in AuthCacheKeys : TRUE, request[t].retryKey>>

\* serialize_auth_single_flight_key
AuthSingleFlightKey(t) ==
    <<request[t].resourceSet, AuthCacheKeyOf[identity[t]], request[t].retryKey>>

KeyOf(t) == IF kind[t] = "identity" THEN IdentityKey ELSE AuthSingleFlightKey(t)

OwnFlight(t) == <<t, callNo[t], kind[t]>>

\* Mutant: the Resource Set is not compared.
CachedSessionFitsAnyResourceSet(t) ==
    /\ IsTokenValid(tokenState)
    /\ tokenState.authCacheKey = AuthCacheKeyOf[identity[t]]

\* The cached session is valid and is for this call's scope.
CachedSessionFits(t) ==
    /\ IsTokenValid(tokenState)
    /\ tokenState.resourceSet = request[t].resourceSet
    /\ tokenState.authCacheKey = AuthCacheKeyOf[identity[t]]

-----------------------------------------------------------------------------
\* The request of a thread that is in no call.
NoRequest == [force |-> TRUE, resourceSet |-> DefaultResourceSet,
              retryKey |-> DefaultRetryKey]

Init ==
    /\ now = 0
    /\ tokenState = Nothing
    /\ inFlight = [k \in FlightKeys |-> Nothing]
    /\ flights = [f \in FlightIds |-> NewInFlight]
    /\ issued = [f \in FlightIds |-> Nothing]
    /\ pc = [t \in Threads |-> "idle"]
    /\ callNo = [t \in Threads |-> 0]
    /\ kind = [t \in Threads |-> "identity"]
    /\ request = [t \in Threads |-> NoRequest]
    /\ identity = [t \in Threads |-> Nothing]
    /\ joined = [t \in Threads |-> Nothing]
    /\ session = [t \in Threads |-> Nothing]

GoTo(t, l) == pc' = [pc EXCEPT ![t] = l]

\* The call is over, by return or by raise; what it held is garbage.
EndCall(t) ==
    /\ GoTo(t, "idle")
    /\ kind' = [kind EXCEPT ![t] = "identity"]
    /\ request' = [request EXCEPT ![t] = NoRequest]
    /\ identity' = [identity EXCEPT ![t] = Nothing]
    /\ joined' = [joined EXCEPT ![t] = Nothing]
    /\ session' = [session EXCEPT ![t] = Nothing]

\* A valid call begins.  authenticate() takes no options: it is forced, for
\* the configured Resource Set and retry policy.  get_credential() may
\* override both.
StartCall(t) ==
    /\ pc[t] = "idle"
    /\ callNo[t] < MaxCalls
    /\ \E r \in Requests :
        /\ r.force => /\ r.resourceSet = DefaultResourceSet
                      /\ r.retryKey = DefaultRetryKey
        /\ request' = [request EXCEPT ![t] = r]
    /\ callNo' = [callNo EXCEPT ![t] = @ + 1]
    /\ GoTo(t, IF IdentityKey = Nothing THEN "collect" ELSE "coalesce")
    /\ UNCHANGED <<now, tokenState, inFlight, flights, issued, kind, identity,
                   joined, session>>

\* The call has its identity: get_credential() looks at the cache without
\* the lock, authenticate() goes straight to acquiring a session.
UseIdentity(t, i) ==
    /\ identity' = [identity EXCEPT ![t] = i]
    /\ kind' = [kind EXCEPT ![t] = "auth"]
    /\ joined' = [joined EXCEPT ![t] = Nothing]
    /\ GoTo(t, IF request[t].force THEN "acquire" ELSE "lookup")
    /\ UNCHANGED <<request, session>>

\* The call has its session: authenticate() returns, get_credential() goes
\* on to the credentials request.
UseSession(t, s) ==
    IF request[t].force
    THEN EndCall(t)
    ELSE /\ session' = [session EXCEPT ![t] = s]
         /\ joined' = [joined EXCEPT ![t] = Nothing]
         /\ GoTo(t, "credentials")
         /\ UNCHANGED <<kind, request, identity>>

\* A provider without a single-flight key is asked once per call, and may
\* present a different identity each time, or fail.
CollectUncached(t) ==
    /\ pc[t] = "collect"
    /\ (\E i \in Identities : UseIdentity(t, i)) \/ EndCall(t)
    /\ UNCHANGED sharedVars

-----------------------------------------------------------------------------
(* _coalesce_concurrent_requests, for identities and for authentications *)

\* Under the lock: the key is in flight, so wait for that flight.
Join(t) ==
    /\ pc[t] = "coalesce"
    /\ inFlight[KeyOf(t)] # Nothing
    /\ joined' = [joined EXCEPT ![t] = inFlight[KeyOf(t)]]
    /\ GoTo(t, "wait")
    /\ UNCHANGED <<kind, request, identity, session, sharedVars>>

\* Mutant: a thread leads without having seen the table under the same lock.
LeadUnchecked(t) ==
    /\ pc[t] = "coalesce"
    /\ inFlight' = [inFlight EXCEPT ![KeyOf(t)] = OwnFlight(t)]
    /\ joined' = [joined EXCEPT ![t] = OwnFlight(t)]
    /\ GoTo(t, "lead")
    /\ UNCHANGED <<now, tokenState, flights, issued, callNo, kind, request,
                   identity, session>>

\* Under the lock: nobody is on it, so enter a new flight and run the action.
Lead(t) ==
    /\ pc[t] = "coalesce"
    /\ inFlight[KeyOf(t)] = Nothing
    /\ inFlight' = [inFlight EXCEPT ![KeyOf(t)] = OwnFlight(t)]
    /\ joined' = [joined EXCEPT ![t] = OwnFlight(t)]
    /\ GoTo(t, "lead")
    /\ UNCHANGED <<now, tokenState, flights, issued, callNo, kind, request,
                   identity, session>>

\* What a finished flight f means to thread t: its error is raised, a flight
\* without a result is an error too, else its result is returned.
TakeOutcome(t, f) ==
    IF flights[f].error \/ flights[f].result = Nothing
    THEN EndCall(t)
    ELSE IF kind[t] = "identity"
         THEN UseIdentity(t, flights[f].result)
         ELSE UseSession(t, flights[f].result)

\* done.wait() returns.
Wake(t) ==
    /\ pc[t] = "wait"
    /\ flights[joined[t]].done
    /\ TakeOutcome(t, joined[t])
    /\ UNCHANGED sharedVars

\* Mutant: waiters are released only by a flight that has an outcome to give.
PublishOutcomeOnly(t) ==
    /\ pc[t] = "publish"
    /\ flights' = [flights EXCEPT ![joined[t]].done =
                     flights[joined[t]].error \/ flights[joined[t]].result # Nothing]
    /\ GoTo(t, "retire")
    /\ UNCHANGED <<now, tokenState, inFlight, issued, callNo, callVars>>

\* The first half of the finally: every waiter is released.
Publish(t) ==
    /\ pc[t] = "publish"
    /\ flights' = [flights EXCEPT ![joined[t]].done = TRUE]
    /\ GoTo(t, "retire")
    /\ UNCHANGED <<now, tokenState, inFlight, issued, callNo, callVars>>

\* Mutant: only a flight that succeeded is removed from the table.
RetireSuccessOnly(t) ==
    /\ pc[t] = "retire"
    /\ inFlight' = IF flights[joined[t]].result # Nothing
                   THEN [inFlight EXCEPT ![KeyOf(t)] = Nothing]
                   ELSE inFlight
    /\ TakeOutcome(t, joined[t])
    /\ UNCHANGED <<now, tokenState, flights, issued, callNo>>

\* The second half, under the lock: the entry is removed if it is still this
\* flight's; then the leader returns or raises as its action did.
Retire(t) ==
    /\ pc[t] = "retire"
    /\ inFlight' = IF inFlight[KeyOf(t)] = joined[t]
                   THEN [inFlight EXCEPT ![KeyOf(t)] = Nothing]
                   ELSE inFlight
    /\ TakeOutcome(t, joined[t])
    /\ UNCHANGED <<now, tokenState, flights, issued, callNo>>

-----------------------------------------------------------------------------
(* The two coalesced actions *)

\* _collect_identity_uncached as a flight's action: an identity or an error.
CollectAsLeader(t) ==
    /\ pc[t] = "lead" /\ kind[t] = "identity"
    /\ \/ \E i \in Identities : flights' = [flights EXCEPT ![joined[t]].result = i]
       \/ flights' = [flights EXCEPT ![joined[t]].error = TRUE]
    /\ GoTo(t, "publish")
    /\ UNCHANGED <<now, tokenState, inFlight, issued, callNo, callVars>>

\* do_auth: the Edge API answers, and the expiry is reckoned from the clock
\* as it stands when the answer is parsed.
AuthAnswered(t) ==
    /\ pc[t] = "lead" /\ kind[t] = "auth"
    /\ \E lifetime \in Lifetimes :
         session' = [session EXCEPT ![t] =
            [accessToken |-> joined[t], expiresAt |-> ExpiresAt(lifetime),
             resourceSet |-> request[t].resourceSet,
             authCacheKey |-> AuthCacheKeyOf[identity[t]]]]
    /\ issued' = [issued EXCEPT ![joined[t]] =
          [client |-> identity[t], resourceSet |-> request[t].resourceSet]]
    /\ GoTo(t, "store")
    /\ UNCHANGED <<now, tokenState, inFlight, flights, callNo, kind, request,
                   identity, joined>>

\* Mutant: the cache key is not stored with the session.
StoreWithoutCacheKey(t) ==
    /\ pc[t] = "store"
    /\ tokenState' = [accessToken |-> session[t].accessToken,
                      expiresAt |-> session[t].expiresAt,
                      resourceSet |-> session[t].resourceSet]
    /\ GoTo(t, "settle")
    /\ UNCHANGED <<now, inFlight, flights, issued, callNo, callVars>>

\* do_auth, under the lock: the new session replaces whatever is cached.
StoreSession(t) ==
    /\ pc[t] = "store"
    /\ tokenState' = session[t]
    /\ GoTo(t, "settle")
    /\ UNCHANGED <<now, inFlight, flights, issued, callNo, callVars>>

\* do_auth: the request failed after its last attempt, or the answer is not
\* a usable one.
AuthFailed(t) ==
    /\ pc[t] = "lead" /\ kind[t] = "auth"
    /\ GoTo(t, "clear")
    /\ UNCHANGED <<sharedVars, callVars>>

\* Mutant: the cached session goes, valid or not.
MayClearValid(t) ==
    /\ tokenState # Nothing
    /\ tokenState.resourceSet = request[t].resourceSet

\* A failed authentication leaves no dead session of its Resource Set behind.
MayClear(t) ==
    /\ tokenState # Nothing
    /\ tokenState.resourceSet = request[t].resourceSet
    /\ ~IsTokenValid(tokenState)

\* do_auth, under the lock: clear, then raise.
ClearStale(t) ==
    /\ pc[t] = "clear"
    /\ tokenState' = IF MayClear(t) THEN Nothing ELSE tokenState
    /\ GoTo(t, "settle")
    /\ UNCHANGED <<now, inFlight, flights, issued, callNo, callVars>>

\* The flight records how do_auth ended, before anyone may read it.
Settle(t) ==
    /\ pc[t] = "settle"
    /\ flights' = IF session[t] = Nothing
                  THEN [flights EXCEPT ![joined[t]].error = TRUE]
                  ELSE [flights EXCEPT ![joined[t]].result = session[t]]
    /\ GoTo(t, "publish")
    /\ UNCHANGED <<now, tokenState, inFlight, issued, callNo, callVars>>

\* A BaseException (KeyboardInterrupt, SystemExit) leaves the flight's action:
\* no handler runs, so the flight gets neither a result nor an error, and only
\* the finally remains.
InterruptLeader(t) ==
    /\ t \in Interruptible
    /\ pc[t] \in {"lead", "store", "clear", "settle"}
    /\ GoTo(t, "publish")
    /\ UNCHANGED <<sharedVars, callVars>>

\* The same exception anywhere a thread holds no flight just ends its call.
InterruptCall(t) ==
    /\ t \in Interruptible
    /\ pc[t] \in {"collect", "coalesce", "wait", "lookup", "acquire", "credentials"}
    /\ EndCall(t)
    /\ UNCHANGED sharedVars

-----------------------------------------------------------------------------
(* Finding a session *)

\* _get_valid_access_token reads _token_state without the lock.
LookupSession(t) ==
    /\ pc[t] = "lookup"
    /\ IF CachedSessionFits(t)
       THEN UseSession(t, tokenState)
       ELSE GoTo(t, "acquire") /\ UNCHANGED callVars
    /\ UNCHANGED sharedVars

\* _acquire_session_token looks again under the lock, unless forced, and then
\* gives the lock up.
AcquireSession(t) ==
    /\ pc[t] = "acquire"
    /\ IF ~request[t].force /\ CachedSessionFits(t)
       THEN UseSession(t, tokenState)
       ELSE GoTo(t, "coalesce") /\ UNCHANGED callVars
    /\ UNCHANGED sharedVars

\* The credentials request succeeds or fails; neither touches the client.
CredentialsAnswered(t) ==
    /\ pc[t] = "credentials"
    /\ EndCall(t)
    /\ UNCHANGED sharedVars

-----------------------------------------------------------------------------
Tick ==
    /\ now < MaxNow
    /\ now' = now + 1
    /\ UNCHANGED <<tokenState, inFlight, flights, issued, pc, callNo, kind, request,
                   identity, joined, session>>

\* Every thread has made its calls.
Finished ==
    /\ \A t \in Threads : pc[t] = "idle" /\ callNo[t] = MaxCalls
    /\ UNCHANGED vars

\* The steps a running call takes of itself: every request it sends is
\* answered, or fails by its timeout, and the scheduler starves no thread.
Step(t) ==
    \/ CollectUncached(t)
    \/ Join(t) \/ Lead(t) \/ Wake(t) \/ Publish(t) \/ Retire(t)
    \/ CollectAsLeader(t)
    \/ AuthAnswered(t) \/ StoreSession(t) \/ AuthFailed(t) \/ ClearStale(t)
    \/ Settle(t)
    \/ LookupSession(t) \/ AcquireSession(t) \/ CredentialsAnswered(t)

Next ==
    \/ \E t \in Threads :
          StartCall(t) \/ Step(t) \/ InterruptLeader(t) \/ InterruptCall(t)
    \/ Tick
    \/ Finished

Spec == Init /\ [][Next]_vars

FairSpec == Spec /\ \A t \in Threads : WF_vars(Step(t))

-----------------------------------------------------------------------------
(* Properties *)

Locations ==
    {"idle", "collect", "coalesce", "wait", "lead", "store", "clear", "settle",
     "publish", "retire", "lookup", "acquire", "credentials"}

\* Every variable has its type.
TypeOK ==
    /\ now \in 0 .. MaxNow
    /\ tokenState \in CachedTokenStates \cup {Nothing}
    /\ inFlight \in [FlightKeys -> FlightIds \cup {Nothing}]
    /\ flights \in [FlightIds -> InFlightObjects]
    /\ issued \in [FlightIds -> IssuedSessions \cup {Nothing}]
    /\ pc \in [Threads -> Locations]
    /\ callNo \in [Threads -> 0 .. MaxCalls]
    /\ kind \in [Threads -> Kinds]
    /\ request \in [Threads -> Requests]
    /\ identity \in [Threads -> Identities \cup {Nothing}]
    /\ joined \in [Threads -> FlightIds \cup {Nothing}]
    /\ session \in [Threads -> CachedTokenStates \cup {Nothing}]

\* Where a leader's flight is unfinished, and where it is still in the table.
Running == {"lead", "store", "clear", "settle", "publish"}
Leading == Running \cup {"retire"}

Leads(t, f) == joined[t] = f /\ pc[t] \in Leading

\* However threads come and go between the locked check of the table and the
\* finally that clears it, no two of them run the same keyed work at once.
OneFlightPerKey ==
    \A t, u \in Threads :
        /\ pc[t] \in Running /\ pc[u] \in Running
        /\ KeyOf(t) = KeyOf(u)
        => t = u

\* A waiting thread is never stranded: its flight is done, or the thread that
\* leads it has the done.set() of its finally still ahead, whichever way its
\* action ends, a BaseException included.
NoOrphanedWaiter ==
    \A t \in Threads :
        pc[t] = "wait" =>
            \/ flights[joined[t]].done
            \/ \E u \in Threads : joined[u] = joined[t] /\ pc[u] \in Running

\* No entry outlives its leader: one that did would capture every later call
\* with that key.
EntriesHaveLeaders ==
    \A k \in FlightKeys :
        inFlight[k] # Nothing =>
            \E t \in Threads : Leads(t, inFlight[k]) /\ KeyOf(t) = k

\* The bearer of a credentials request is one the Edge API issued for the
\* request's own Resource Set and for an identity with the same cache key,
\* though the cache has a single slot that calls of every scope overwrite and
\* though most bearers were acquired by some other thread.
SessionServesItsCall ==
    \A t \in Threads :
        pc[t] = "credentials" =>
            LET own == issued[session[t].accessToken] IN
            /\ own # Nothing
            /\ own.resourceSet = request[t].resourceSet
            /\ AuthCacheKeyOf[own.client] = AuthCacheKeyOf[identity[t]]

\* What the documentation asks of reuse: the bearer was issued to the very
\* identity the call presents.  It holds where cache keys tell identities apart.
SessionServesItsIdentity ==
    \A t \in Threads :
        pc[t] = "credentials" =>
            issued[session[t].accessToken].client = identity[t]

\* No step of any thread takes a session that is still valid out of the cache
\* without a new one in its place: a failed authentication, whose cleanup runs
\* long after its request was sent, costs no other call its session.
CachedSessionKept ==
    [][IsTokenValid(tokenState) => tokenState' # Nothing]_vars

\* Every call comes back, so that each thread is idle again and again: a lost
\* leader, a failed flight or an entry that stays behind never leaves it blocked
\* for good.
EveryCallReturns ==
    \A t \in Threads : []<>(pc[t] = "idle")

\* get_credential() starts an authentication only if the cache cannot serve it.
NoRedundantAuthentication ==
    [][\A t \in Threads :
         Lead(t) /\ kind[t] = "auth" /\ ~request[t].force => ~CachedSessionFits(t)
      ]_vars

\* A call takes part only in work that is not over yet: once a flight has
\* released its waiters, later requests start fresh.
JoinsOnlyRunningFlights ==
    [][\A t \in Threads : Join(t) => ~flights[inFlight[KeyOf(t)]].done]_vars

-----------------------------------------------------------------------------
(* The client implements SessionBroker.  A call asks once its identity is  *)
(* known, for its Resource Set and cache key; it is granted the session it *)
(* takes to the credentials request.                                       *)

Scopes == ResourceSets \X AuthCacheKeys

Wanted(t) ==
    IF identity[t] = Nothing THEN Nothing
    ELSE <<request[t].resourceSet, AuthCacheKeyOf[identity[t]]>>

Granted(t) == IF pc[t] = "credentials" THEN session[t].accessToken ELSE Nothing

IssuedFor(f) ==
    IF issued[f] = Nothing THEN Nothing
    ELSE <<issued[f].resourceSet, AuthCacheKeyOf[issued[f].client]>>

Broker == INSTANCE SessionBroker WITH
    Callers <- Threads, Sessions <- FlightIds,
    NoScope <- Nothing, NoSession <- Nothing,
    wanted <- [t \in Threads |-> Wanted(t)],
    granted <- [t \in Threads |-> Granted(t)],
    issuedFor <- [f \in FlightIds |-> IssuedFor(f)]

\* Every behaviour of the client is one of the broker's: sessions are issued
\* only to calls that wait for one, and handed only to calls of their scope.
ImplementsBroker == Broker!BrokerSpec
=============================================================================
