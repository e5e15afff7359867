---------------------------- MODULE EdgeClientTs ----------------------------
(***************************************************************************)
(* The TypeScript EdgeClient (ts/src/client/edge-client.ts) as the event   *)
(* loop runs it: calls of one client interleave at their awaits and        *)
(* nowhere else, so an action is what runs between two of them.  Calls     *)
(* share work by awaiting one promise.  When a promise settles, the loop   *)
(* runs its reactions in the order in which they were attached, and the    *)
(* first is always the cleanup of the call that made it: the others        *)
(* resume with the table entry gone.  Between a settling and its reactions *)
(* any other call may run.                                                 *)
(***************************************************************************)
EXTENDS Integers, FiniteSets

CONSTANTS
    Calls,              \* the calls made on the client, each made once
    ResourceSets,       \* effective Resource Sets, one for none at all
    DefaultResourceSet, \* the client's configured one
    RetryKeys,          \* serialized effective retry policies
    DefaultRetryKey,    \* the client's configured one
    Identities,         \* identities the Trust Provider may present
    AuthCacheKeys,      \* values of authCacheKey, Undefined if there is none
    AuthCacheKeyOf,     \* the key the provider sends with each identity
    IdentityKey,        \* the provider's single-flight key, or Undefined
    Lifetimes,          \* expiresIn values the Edge API may answer
    NoExpiry,           \* an answer without expiresIn
    Skew,               \* authExpirySkewMs
    MaxNow,             \* bound: the last instant of the clock
    Undefined           \* JavaScript's undefined

VARIABLES
    now,        \* Date.now()
    tokenState, \* the one cached session, or Undefined
    inFlight,   \* both in-flight Maps: key -> promise, or Undefined
    promises,   \* the promises of collections and authentications
    issued,     \* the Edge API's record of the sessions it has issued
    pc,         \* what each call awaits
    request,    \* what the call asks for
    identity,   \* the identity the call collected
    joined,     \* the promise the call awaits
    session     \* the session the call holds

vars == <<now, tokenState, inFlight, promises, issued, pc, request, identity,
          joined, session>>
-----------------------------------------------------------------------------
(* The data *)

Kinds == {"identity", "auth"}

\* A promise is named after the call that made it and what it promises, and
\* a session after the authentication that yields it.
PromiseIds == Calls \X Kinds

Instants == Nat \cup {NoExpiry}

\* A session as the Edge API remembers it.
IssuedSessions == [client : Identities, resourceSet : ResourceSets]

CachedTokenStates ==
    [accessToken : PromiseIds, expiresAtMs : Instants, resourceSet : ResourceSets,
     authCacheKey : AuthCacheKeys]

\* reacted: the first reaction, the maker's cleanup, has run.
Promises ==
    [state : {"pending", "fulfilled", "rejected"},
     value : Identities \cup CachedTokenStates \cup {Undefined},
     reacted : BOOLEAN]

Pending == [state |-> "pending", value |-> Undefined, reacted |-> FALSE]

Fulfilled(v) == [state |-> "fulfilled", value |-> v, reacted |-> FALSE]

Rejected == [state |-> "rejected", value |-> Undefined, reacted |-> FALSE]

Requests == [force : BOOLEAN, resourceSet : ResourceSets, retryKey : RetryKeys]

AuthKeys == ResourceSets \X AuthCacheKeys \X RetryKeys

FlightKeys == {IdentityKey} \cup AuthKeys

ASSUME ClientTsAssumption ==
    /\ MaxNow \in Nat /\ Skew \in Nat
    /\ DefaultResourceSet \in ResourceSets
    /\ DefaultRetryKey \in RetryKeys
    /\ AuthCacheKeyOf \in [Identities -> AuthCacheKeys]
    /\ IdentityKey \notin AuthKeys /\ Undefined \notin AuthKeys
    /\ NoExpiry \notin Nat /\ Lifetimes \subseteq Nat \cup {NoExpiry}
    /\ Undefined \notin Identities \cup PromiseIds \cup CachedTokenStates
                        \cup IssuedSessions
    /\ Undefined \notin ResourceSets \X AuthCacheKeys

\* calculateExpiresAtMs
ExpiresAtMs(lifetime) == IF lifetime = NoExpiry THEN NoExpiry ELSE now + lifetime

\* isTokenValid
IsTokenValid(s) ==
    /\ s # Undefined
    /\ s.expiresAtMs = NoExpiry \/ now < s.expiresAtMs - Skew

\* What call c does with identity i: the scope it needs a session for, and the
\* key under which it shares an authentication.
Scope(c, i) == <<request[c].resourceSet, AuthCacheKeyOf[i]>>

\* Mutant: the key leaves out the identity.
AuthSingleFlightKeyWithoutIdentity(c, i) ==
    <<request[c].resourceSet, CHOOSE k \in AuthCacheKeys : TRUE, request[c].retryKey>>

\* serializeAuthSingleFlightKey
AuthSingleFlightKey(c, i) ==
    <<request[c].resourceSet, AuthCacheKeyOf[i], request[c].retryKey>>

\* Mutant: only the Resource Set is compared.
CachedSessionFitsAnyIdentity(c, i) ==
    /\ IsTokenValid(tokenState)
    /\ tokenState.resourceSet = request[c].resourceSet

\* The cached session is valid and is for this scope.
CachedSessionFits(c, i) ==
    /\ IsTokenValid(tokenState)
    /\ <<tokenState.resourceSet, tokenState.authCacheKey>> = Scope(c, i)

-----------------------------------------------------------------------------
NoRequest == [force |-> TRUE, resourceSet |-> DefaultResourceSet,
              retryKey |-> DefaultRetryKey]

Init ==
    /\ now = 0
    /\ tokenState = Undefined
    /\ inFlight = [k \in FlightKeys |-> Undefined]
    /\ promises = [p \in PromiseIds |-> Pending]
    /\ issued = [p \in PromiseIds |-> Undefined]
    /\ pc = [c \in Calls |-> "new"]
    /\ request = [c \in Calls |-> NoRequest]
    /\ identity = [c \in Calls |-> Undefined]
    /\ joined = [c \in Calls |-> Undefined]
    /\ session = [c \in Calls |-> Undefined]

GoTo(c, l) == pc' = [pc EXCEPT ![c] = l]

\* The promise of the call itself settles, one way or the other.
EndCall(c) ==
    /\ GoTo(c, "settled")
    /\ identity' = [identity EXCEPT ![c] = Undefined]
    /\ joined' = [joined EXCEPT ![c] = Undefined]
    /\ session' = [session EXCEPT ![c] = Undefined]

\* Call c awaits promise p.
Await(c, p) ==
    /\ joined' = [joined EXCEPT ![c] = p]
    /\ GoTo(c, p[2])

\* Call c makes the promise of kind k, enters it under key if there is one,
\* and awaits it, all before its first await.
Launch(c, k, key) ==
    /\ Await(c, <<c, k>>)
    /\ inFlight' = IF key = Undefined THEN inFlight
                   ELSE [inFlight EXCEPT ![key] = <<c, k>>]

\* The input is invalid, or the provider's key function throws: the call is
\* rejected before it has touched anything.
RejectEarly(c) ==
    /\ pc[c] = "new"
    /\ EndCall(c)
    /\ UNCHANGED <<now, tokenState, inFlight, promises, issued, request>>

\* authenticate() takes no options: it is forced, for the configured Resource
\* Set and retry policy.  getCredential() may override both.  Either goes on
\* to the identity: it joins the collection in flight under the provider's
\* key, or starts one of its own.
StartCall(c) ==
    /\ pc[c] = "new"
    /\ \E r \in Requests :
        /\ r.force => /\ r.resourceSet = DefaultResourceSet
                      /\ r.retryKey = DefaultRetryKey
        /\ request' = [request EXCEPT ![c] = r]
    /\ IF IdentityKey # Undefined /\ inFlight[IdentityKey] # Undefined
       THEN Await(c, inFlight[IdentityKey]) /\ UNCHANGED inFlight
       ELSE Launch(c, "identity", IdentityKey)
    /\ UNCHANGED <<now, tokenState, promises, issued, identity, session>>

-----------------------------------------------------------------------------
(* Work in flight: the call that made promise <<c, k>> still has it pending *)

Runs(c, k) ==
    /\ pc[c] = k /\ joined[c] = <<c, k>>
    /\ promises[<<c, k>>].state = "pending"

\* collectIdentityWithMetadataOnce: the Trust Provider answers or fails.
CollectIdentity(c) ==
    /\ Runs(c, "identity")
    /\ \E outcome \in {Fulfilled(i) : i \in Identities} \cup {Rejected} :
          promises' = [promises EXCEPT ![<<c, "identity">>] = outcome]
    /\ UNCHANGED <<now, tokenState, inFlight, issued, pc, request, identity,
                   joined, session>>

\* Mutant: the session is made without its cache key.
SessionsWithoutCacheKey(c) ==
    {[accessToken |-> <<c, "auth">>, expiresAtMs |-> ExpiresAtMs(lifetime),
      resourceSet |-> request[c].resourceSet] : lifetime \in Lifetimes}

\* The session that c's authentication yields, for some answer of the API.
SessionsFor(c) ==
    {[accessToken |-> <<c, "auth">>, expiresAtMs |-> ExpiresAtMs(lifetime),
      resourceSet |-> request[c].resourceSet,
      authCacheKey |-> AuthCacheKeyOf[identity[c]]] : lifetime \in Lifetimes}

\* runAuthentication: the answer is parsed, the session cached and the promise
\* fulfilled without an await between them.
AuthSucceeds(c) ==
    /\ Runs(c, "auth")
    /\ \E s \in SessionsFor(c) :
        /\ tokenState' = s
        /\ promises' = [promises EXCEPT ![<<c, "auth">>] = Fulfilled(s)]
    /\ issued' = [issued EXCEPT ![<<c, "auth">>] =
                    [client |-> identity[c], resourceSet |-> request[c].resourceSet]]
    /\ UNCHANGED <<now, inFlight, pc, request, identity, joined, session>>

\* Mutant: the cached session goes, valid or not.
MayClearValid(c) ==
    /\ tokenState # Undefined
    /\ tokenState.resourceSet = request[c].resourceSet

MayClear(c) ==
    /\ tokenState # Undefined
    /\ tokenState.resourceSet = request[c].resourceSet
    /\ ~IsTokenValid(tokenState)

\* runAuthentication's catch: a dead session of the Resource Set is dropped,
\* and the promise rejected.
AuthFails(c) ==
    /\ Runs(c, "auth")
    /\ tokenState' = IF MayClear(c) THEN Undefined ELSE tokenState
    /\ promises' = [promises EXCEPT ![<<c, "auth">>] = Rejected]
    /\ UNCHANGED <<now, inFlight, issued, pc, request, identity, joined, session>>

\* The key under which the call's current work is shared.
KeyOf(c) ==
    IF pc[c] = "identity" THEN IdentityKey
    ELSE AuthSingleFlightKey(c, identity[c])

\* Mutant: the cleanup hangs on .then and not on .finally.
CleanUpSuccess(c) ==
    /\ pc[c] \in Kinds /\ joined[c] = <<c, pc[c]>>
    /\ promises[joined[c]].state # "pending"
    /\ ~promises[joined[c]].reacted
    /\ promises' = [promises EXCEPT ![joined[c]].reacted = TRUE]
    /\ inFlight' = IF inFlight[KeyOf(c)] = joined[c] /\ promises[joined[c]].state = "fulfilled"
                   THEN [inFlight EXCEPT ![KeyOf(c)] = Undefined]
                   ELSE inFlight
    /\ UNCHANGED <<now, tokenState, issued, pc, request, identity, joined, session>>

\* The first reaction of a settled promise, its maker's finally: the entry is
\* deleted if it is still this promise's.
CleanUp(c) ==
    /\ pc[c] \in Kinds /\ joined[c] = <<c, pc[c]>>
    /\ promises[joined[c]].state # "pending"
    /\ ~promises[joined[c]].reacted
    /\ promises' = [promises EXCEPT ![joined[c]].reacted = TRUE]
    /\ inFlight' = IF inFlight[KeyOf(c)] = joined[c]
                   THEN [inFlight EXCEPT ![KeyOf(c)] = Undefined]
                   ELSE inFlight
    /\ UNCHANGED <<now, tokenState, issued, pc, request, identity, joined, session>>

-----------------------------------------------------------------------------
(* Resuming after an await *)

\* The loop comes to c's own reaction, c awaiting work of kind k.
Resumes(c, k, state) ==
    /\ pc[c] = k
    /\ promises[joined[c]].state = state
    /\ promises[joined[c]].reacted

\* Mutant: only the call that made the promise hears of its rejection.
RethrowOwnRejection(c) ==
    /\ \E k \in Kinds : Resumes(c, k, "rejected")
    /\ joined[c] = <<c, pc[c]>>
    /\ EndCall(c)
    /\ UNCHANGED <<now, tokenState, inFlight, promises, issued, request>>

\* The awaited promise was rejected, and so is the call's.
RethrowRejection(c) ==
    /\ \E k \in Kinds : Resumes(c, k, "rejected")
    /\ EndCall(c)
    /\ UNCHANGED <<now, tokenState, inFlight, promises, issued, request>>

\* getValidAccessToken, with the identity just collected: a cached session
\* that fits serves the call, unless it is forced.
ReuseSession(c) ==
    /\ Resumes(c, "identity", "fulfilled")
    /\ LET i == promises[joined[c]].value IN
        /\ ~request[c].force /\ CachedSessionFits(c, i)
        /\ identity' = [identity EXCEPT ![c] = i]
    /\ session' = [session EXCEPT ![c] = tokenState]
    /\ joined' = [joined EXCEPT ![c] = Undefined]
    /\ GoTo(c, "bearer")
    /\ UNCHANGED <<now, tokenState, inFlight, promises, issued, request>>

\* Mutant: the authentication in flight is not looked for.
AuthenticateAlone(c) ==
    /\ Resumes(c, "identity", "fulfilled")
    /\ LET i == promises[joined[c]].value
           key == AuthSingleFlightKey(c, i)
       IN /\ request[c].force \/ ~CachedSessionFits(c, i)
          /\ identity' = [identity EXCEPT ![c] = i]
          /\ Launch(c, "auth", key)
    /\ UNCHANGED <<now, tokenState, promises, issued, request, session>>

\* Otherwise, in the same stretch, the call joins the authentication in flight
\* under its key or starts one: no await separates the look at the cache, the
\* look at the table and the new entry.
Authenticate(c) ==
    /\ Resumes(c, "identity", "fulfilled")
    /\ LET i == promises[joined[c]].value
           key == AuthSingleFlightKey(c, i)
       IN /\ request[c].force \/ ~CachedSessionFits(c, i)
          /\ identity' = [identity EXCEPT ![c] = i]
          /\ IF inFlight[key] # Undefined
             THEN Await(c, inFlight[key]) /\ UNCHANGED inFlight
             ELSE Launch(c, "auth", key)
    /\ UNCHANGED <<now, tokenState, promises, issued, request, session>>

\* The authentication the call awaits has a session for it.
TakeSession(c) ==
    /\ Resumes(c, "auth", "fulfilled")
    /\ session' = [session EXCEPT ![c] = promises[joined[c]].value]
    /\ joined' = [joined EXCEPT ![c] = Undefined]
    /\ GoTo(c, "bearer")
    /\ UNCHANGED <<now, tokenState, inFlight, promises, issued, request, identity>>

\* A few microtasks later the session reaches the public method:
\* authenticate() returns, getCredential() sends the credentials request.
UseSession(c) ==
    /\ pc[c] = "bearer"
    /\ IF request[c].force THEN EndCall(c)
       ELSE GoTo(c, "credentials") /\ UNCHANGED <<identity, joined, session>>
    /\ UNCHANGED <<now, tokenState, inFlight, promises, issued, request>>

\* The credentials request succeeds or fails; neither touches the client.
CredentialsAnswered(c) ==
    /\ pc[c] = "credentials"
    /\ EndCall(c)
    /\ UNCHANGED <<now, tokenState, inFlight, promises, issued, request>>

-----------------------------------------------------------------------------
Tick ==
    /\ now < MaxNow
    /\ now' = now + 1
    /\ UNCHANGED <<tokenState, inFlight, promises, issued, pc, request, identity,
                   joined, session>>

Finished == (\A c \in Calls : pc[c] = "settled") /\ UNCHANGED vars

\* What happens of itself once a call is made: its requests are answered or
\* fail by their timeout, and the loop runs every reaction.
Step(c) ==
    \/ CollectIdentity(c) \/ AuthSucceeds(c) \/ AuthFails(c) \/ CleanUp(c)
    \/ RethrowRejection(c)
    \/ ReuseSession(c) \/ Authenticate(c) \/ TakeSession(c) \/ UseSession(c)
    \/ CredentialsAnswered(c)

Next ==
    \/ \E c \in Calls : RejectEarly(c) \/ StartCall(c) \/ Step(c)
    \/ Tick
    \/ Finished

Spec == Init /\ [][Next]_vars

FairSpec == Spec /\ \A c \in Calls : WF_vars(Step(c))

-----------------------------------------------------------------------------
(* Properties *)

Stages == Kinds \cup {"new", "bearer", "credentials", "settled"}

\* Every variable has its type.
TypeOK ==
    /\ now \in 0 .. MaxNow
    /\ tokenState \in CachedTokenStates \cup {Undefined}
    /\ inFlight \in [FlightKeys -> PromiseIds \cup {Undefined}]
    /\ promises \in [PromiseIds -> Promises]
    /\ issued \in [PromiseIds -> IssuedSessions \cup {Undefined}]
    /\ pc \in [Calls -> Stages]
    /\ request \in [Calls -> Requests]
    /\ identity \in [Calls -> Identities \cup {Undefined}]
    /\ joined \in [Calls -> PromiseIds \cup {Undefined}]
    /\ session \in [Calls -> CachedTokenStates \cup {Undefined}]

\* A Map entry always belongs to work whose maker is still there to delete it:
\* whichever way the work ends, no later call is caught by a settled promise.
EntriesAreCleanedUp ==
    \A k \in FlightKeys :
        inFlight[k] # Undefined =>
            LET maker == inFlight[k][1] IN
            /\ joined[maker] = inFlight[k] /\ pc[maker] = inFlight[k][2]
            /\ KeyOf(maker) = k
            /\ ~promises[inFlight[k]].reacted

\* Calls that overlap share their keyed work, whatever ran between their
\* awaits: no two collections or authentications with one key are pending.
SharedWorkRunsOnce ==
    \A c, d \in Calls : \A k \in Kinds :
        Runs(c, k) /\ Runs(d, k) /\ KeyOf(c) = KeyOf(d) /\ KeyOf(c) # Undefined
        => c = d

\* A call that is not forced never has a session issued for a scope that the
\* cache can serve by then, unless that session came from an authentication
\* with another retry policy, which was not to be shared.
NoSupersededSession ==
    [][\A c \in Calls :
         AuthSucceeds(c) /\ ~request[c].force /\ CachedSessionFits(c, identity[c])
         => request[tokenState.accessToken[1]].retryKey # request[c].retryKey
      ]_vars

\* The bearer of a credentials request was issued, for the request's Resource
\* Set, to the very identity the request presents, though the cache has one
\* slot for all scopes and most sessions come from other calls' work: it holds
\* where cache keys tell identities apart, as those of token providers do.
SessionServesItsIdentity ==
    \A c \in Calls :
        pc[c] = "credentials" =>
            issued[session[c].accessToken] =
                [client |-> identity[c], resourceSet |-> request[c].resourceSet]

\* A failed authentication, whose cleanup runs long after its request was
\* sent, never takes a session that is still valid out of the cache.
CachedSessionKept ==
    [][IsTokenValid(tokenState) => tokenState' # Undefined]_vars

\* Every call that is made settles: promises shared between calls never come
\* to wait for one another, and a failed one releases all that await it.
EveryCallSettles ==
    \A c \in Calls : pc[c] # "new" ~> pc[c] = "settled"

-----------------------------------------------------------------------------
(* This client, too, implements SessionBroker.                             *)

Scopes == ResourceSets \X AuthCacheKeys

Wanted(c) == IF identity[c] = Undefined THEN Undefined ELSE Scope(c, identity[c])

Granted(c) ==
    IF pc[c] = "credentials" THEN session[c].accessToken ELSE Undefined

IssuedFor(p) ==
    IF issued[p] = Undefined THEN Undefined
    ELSE <<issued[p].resourceSet, AuthCacheKeyOf[issued[p].client]>>

Broker == INSTANCE SessionBroker WITH
    Callers <- Calls, Sessions <- PromiseIds,
    NoScope <- Undefined, NoSession <- Undefined,
    wanted <- [c \in Calls |-> Wanted(c)],
    granted <- [c \in Calls |-> Granted(c)],
    issuedFor <- [p \in PromiseIds |-> IssuedFor(p)]

\* Every behaviour of the client is one of the broker's, as for Python.
ImplementsBroker == Broker!BrokerSpec
=============================================================================
