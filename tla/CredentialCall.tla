--------------------------- MODULE CredentialCall ---------------------------
(***************************************************************************)
(* A call of the Python client from its arguments to its result            *)
(* (py/src/aembit_edge/client.py with internal/client and                  *)
(* internal/protocol/edge_api.py): what is validated before anything is    *)
(* asked of anyone, the two requests to the Edge API as they are sent, how *)
(* their answers are taken, and when a cached session counts as alive,     *)
(* while the answers take their time.  The other threads of the program    *)
(* are seen through the one thing they share with the call, _token_state,  *)
(* and through the flights it may join (EdgeClientPy has those in full,    *)
(* interrupted leaders included, which are left out here).                 *)
(***************************************************************************)
EXTENDS Integers

CONSTANTS
    ResourceSets,   \* names of Resource Sets
    ServerRefs,     \* server references: their host is text, blank or no text,
                    \* their port and transport_protocol are anything
    BlankHosts,     \* the hosts that are blank
    Lifetimes,      \* numbers the Edge API may answer as expiresIn
    Countless,      \* those of them that are too large to be a float, or become
                    \* so when counted in milliseconds
    Skew,           \* _auth_expiry_skew_ms
    MaxLatency,     \* how long an answer may take to arrive
    LastInstant,    \* the last instant datetime can represent
    MaxCalls,       \* bound: calls made
    MaxSessions,    \* bound: sessions issued
    MaxNow,         \* bound: the last instant of the clock
    Nothing         \* Python's None; of a host or port, anything
                    \* that is not text or not an integer

VARIABLES
    now,            \* the clock, the client's and the Edge API's
    config,         \* resource_set, and what the retry settings are worth
    tokenState,     \* _token_state
    issued,         \* the Edge API's record of the sessions it has issued
    pc,             \* how far the call is
    calls,          \* number of calls made so far
    call,           \* the current or last call's arguments
    session,        \* the session the call holds
    reply,          \* the answer of /edge/v1/auth on its way: what, of when
    reached,        \* history: whom the call has asked for something
    wire,           \* history: its credentials request as it was sent
    outcome         \* how the last call ended, or Nothing while it runs

vars == <<now, config, tokenState, issued, pc, calls, call, session, reply, reached,
          wire, outcome>>
-----------------------------------------------------------------------------
(* The data *)

SessionIds == 1 .. MaxSessions
Instants == Nat \cup {Nothing}
Scopes == ResourceSets \cup {Nothing}

CachedTokenStates == [accessToken : SessionIds, expiresAt : Instants, resourceSet : Scopes]
IssuedSessions == [expiresAt : Instants, resourceSet : Scopes]

\* Retry settings: usable, not what they have to be, a number too large to be a
\* float, pauses too long to be slept.  A call's own are like the client's.
RetrySettings == {"usable", "invalid", "immeasurable", "endless"}

\* The server as it is sent.
NormalizedServer(server) == [server EXCEPT !.transportProtocol = "TCP"]
SentServers == {NormalizedServer(server) : server \in ServerRefs}

\* No server: the input, the options or their retry policy are not what they
\* have to be.
Calls ==
    [op : {"authenticate"}]
        \cup [op : {"get_credential"}, server : ServerRefs \cup {Nothing},
              resourceSet : Scopes]

\* The body of a 2xx answer to /edge/v1/auth: an object with an access token,
\* its other fields of their types, or not.
AuthAnswers == [wellFormed : BOOLEAN, expiresIn : Lifetimes \cup {Nothing}]

Replies == [session : SessionIds, answer : AuthAnswers, sentAt : Nat]
Wires == [server : SentServers, bearer : SessionIds, resourceSet : Scopes]

\* What a credentials request may come to: 2xx with a body of the right shape or
\* another, an error status (a lapsed bearer's for one), no answer.
CredentialAnswers == {"credential", "malformed", "refusal", "silence"}

Errors == {"credential", "trust_provider", "auth", "transport", "other"}

\* What a flight may fail with, and where it then is.
FlightErrors == {"auth", "transport", "other"}
Clear == [auth |-> "clear auth", transport |-> "clear transport", other |-> "clear other"]

ASSUME CallAssumption ==
    /\ Skew \in Nat /\ MaxLatency \in Nat /\ MaxLatency <= Skew
    /\ MaxCalls \in Nat /\ MaxSessions \in Nat /\ MaxNow \in Nat /\ LastInstant \in Nat
    /\ Lifetimes \subseteq Int /\ Nothing \notin Int /\ Countless \subseteq Lifetimes
    /\ Nothing \notin ResourceSets \cup Calls \cup CachedTokenStates \cup IssuedSessions
                      \cup Replies \cup Wires
    /\ Nothing \notin ServerRefs /\ Nothing \notin Errors \cup {"returned"}
    /\ \A server \in ServerRefs :
          server = [host |-> server.host, port |-> server.port,
                    transportProtocol |-> server.transportProtocol]

-----------------------------------------------------------------------------
(* What is computed *)

MaxPort == 65535

\* Mutant: the lower bound of the port is off by one.
PortFromZero(server) ==
    /\ server.host \notin BlankHosts \cup {Nothing}
    /\ server.port \in 0 .. MaxPort
    /\ server.transportProtocol \in {"TCP", Nothing}

\* normalize_server_ref accepts the server.
ServerIsValid(server) ==
    /\ server.host \notin BlankHosts \cup {Nothing}
    /\ server.port \in 1 .. MaxPort
    /\ server.transportProtocol \in {"TCP", Nothing}

\* _validate_resiliency_settings, _verify_credential_request_parameters and
\* normalize_server_ref: each refuses the call before anyone is asked.
CallIsValid(c) ==
    /\ config.retry \in {"usable", "endless"}
    /\ c.op = "get_credential" => c.server # Nothing /\ ServerIsValid(c.server)

\* How a call that is not valid ends.  math.isfinite fails of itself for a retry
\* setting that is no float, whose turn comes before the server's.
RefusalsOf(c) ==
    IF config.retry # "immeasurable" THEN {"credential"}
    ELSE IF c.op = "get_credential" /\ c.server = Nothing THEN {"credential", "other"}
    ELSE {"other"}

\* resolve_effective_resource_set: the scope under which a session is filed.
EffectiveResourceSet ==
    IF call.op = "get_credential" /\ call.resourceSet # Nothing
    THEN call.resourceSet ELSE config.resourceSet

\* Mutant: the adapter knows no configured Resource Set.
HeaderWithoutDefault(option) == option

\* EdgeApi: the X-Aembit-ResourceSet of a request with this option.
ResourceSetHeader(option) == IF option # Nothing THEN option ELSE config.resourceSet

\* Mutant: the expiry is trusted to the last moment.
ValidToTheEnd(s) == s # Nothing /\ (s.expiresAt = Nothing \/ now < s.expiresAt)

\* is_token_valid
IsTokenValid(s) == s # Nothing /\ (s.expiresAt = Nothing \/ now < s.expiresAt - Skew)

CachedSessionFits ==
    IsTokenValid(tokenState) /\ tokenState.resourceSet = EffectiveResourceSet

\* Mutant: a lifetime below zero is taken.
AnyLifetimeIsUsable(answer) == answer.wellFormed

\* What parse_auth_success_body, parse_access_token and calculate_expires_at_ms
\* raise of an answer: an AuthError, and where math.isfinite or round gives up on
\* the lifetime, Python's own OverflowError; the first to come counts.
AnswerFaults(answer) ==
    {fault \in {"auth", "other"} :
        \/ /\ fault = "auth"
           /\ ~answer.wellFormed \/ (answer.expiresIn # Nothing /\ answer.expiresIn < 0)
        \/ fault = "other" /\ answer.expiresIn \in Countless}

\* Nothing is wrong with the answer.
AnswerIsUsable(answer) == AnswerFaults(answer) = {}

\* calculate_expires_at_ms, and what the Edge API means by its answer.
ExpiresAt(lifetime) == IF lifetime = Nothing THEN Nothing ELSE now + lifetime
GrantedUntil(lifetime) ==
    IF lifetime # Nothing /\ lifetime >= 0 THEN now + lifetime ELSE Nothing

\* The error of a pause that cannot be slept.
FailedPause == IF config.retry = "endless" THEN {"other"} ELSE {}

\* map_http_error, map_transport_error and parse_credential_success_body; the
\* pause before the next attempt may be more than time.sleep takes.
OutcomesOf(answer) ==
    CASE answer = "credential" -> {"returned"}
      [] answer = "malformed" -> {"credential"}
      [] answer = "refusal" -> {"credential"} \cup FailedPause
      [] answer = "silence" -> {"transport"} \cup FailedPause

\* The next session the Edge API issues.
Fresh(s) == issued[s] = Nothing /\ \A r \in SessionIds : r < s => issued[r] # Nothing

-----------------------------------------------------------------------------
Init ==
    /\ now = 0
    /\ config \in [resourceSet : Scopes, retry : RetrySettings]
    /\ tokenState = Nothing
    /\ issued = [s \in SessionIds |-> Nothing]
    /\ pc = "idle"
    /\ calls = 0
    /\ call = [op |-> "authenticate"]
    /\ session = Nothing
    /\ reply = Nothing
    /\ reached = {}
    /\ wire = Nothing
    /\ outcome = Nothing

Raise(error) == pc' = "idle" /\ outcome' = error

Reach(whom) == reached' = reached \cup {whom}

\* The arguments are validated.
StartCall ==
    /\ pc = "idle" /\ calls < MaxCalls
    /\ \E c \in Calls :
        /\ call' = c
        /\ IF CallIsValid(c)
           THEN pc' = "identity" /\ outcome' = Nothing
           ELSE \E error \in RefusalsOf(c) : Raise(error)
    /\ calls' = calls + 1
    /\ session' = Nothing /\ reached' = {} /\ wire' = Nothing
    /\ UNCHANGED <<now, config, tokenState, issued, reply>>

\* The Trust Provider yields an identity or an error; client_workload_details
\* may turn out invalid (IdentityCollection).
CollectIdentity ==
    /\ pc = "identity"
    /\ Reach("provider")
    /\ \/ /\ pc' = IF call.op = "authenticate" THEN "acquire" ELSE "lookup"
          /\ UNCHANGED outcome
       \/ Raise("trust_provider")
       \/ Raise("credential")
    /\ UNCHANGED <<now, config, tokenState, issued, calls, call, session, reply, wire>>

\* _get_valid_access_token, and under the lock _acquire_session_token: reuse the
\* cached session, or go on.
LookupSession ==
    /\ pc \in {"lookup", "acquire"}
    /\ IF call.op = "get_credential" /\ CachedSessionFits
       THEN session' = tokenState /\ pc' = "ask"
       ELSE pc' = (IF pc = "lookup" THEN "acquire" ELSE "auth") /\ UNCHANGED session
    /\ UNCHANGED <<now, config, tokenState, issued, calls, call, reply, reached, wire, outcome>>

\* authenticate() has its session and formats its expiry, which may lie beyond
\* what a datetime can say; get_credential() goes on.
UseSession(s) ==
    IF call.op = "get_credential"
    THEN session' = s /\ pc' = "ask" /\ UNCHANGED outcome
    ELSE /\ UNCHANGED session
         /\ Raise(IF s.expiresAt # Nothing /\ s.expiresAt > LastInstant
                  THEN "other" ELSE "returned")

\* The call joins another thread's flight and gets the session that one is
\* issued for the same Resource Set, or its error.
JoinFlight ==
    /\ pc = "auth"
    /\ \/ \E s \in SessionIds, delay \in 0 .. MaxLatency :
            /\ issued[s] # Nothing
            /\ issued[s].resourceSet = ResourceSetHeader(EffectiveResourceSet)
            /\ UseSession([accessToken |-> s, resourceSet |-> EffectiveResourceSet,
                           expiresAt |-> IF issued[s].expiresAt = Nothing THEN Nothing
                                         ELSE issued[s].expiresAt + delay])
       \/ \E error \in FlightErrors : Raise(error) /\ UNCHANGED session
    /\ UNCHANGED <<now, config, tokenState, issued, calls, call, reply, reached, wire>>

\* The Edge API takes the authentication request and issues a session for its
\* header's Resource Set, from this moment on; the answer is on its way.
SendAuth ==
    /\ pc = "auth"
    /\ Reach("auth")
    /\ \E s \in SessionIds, answer \in AuthAnswers :
        /\ Fresh(s)
        /\ issued' = [issued EXCEPT ![s] =
              [expiresAt |-> GrantedUntil(answer.expiresIn),
               resourceSet |-> ResourceSetHeader(EffectiveResourceSet)]]
        /\ reply' = [session |-> s, answer |-> answer, sentAt |-> now]
    /\ pc' = "answer"
    /\ UNCHANGED <<now, config, tokenState, calls, call, session, wire, outcome>>

\* The request is refused, fails on its way, or ends with a pause that cannot be
\* slept.
AuthRefused ==
    /\ pc = "auth"
    /\ Reach("auth")
    /\ \E error \in {"auth", "transport"} \cup FailedPause : pc' = Clear[error]
    /\ UNCHANGED <<now, config, tokenState, issued, calls, call, session, reply, wire, outcome>>

\* do_auth: the answer is parsed, its lifetime counted from now, and the session
\* cached.
ReceiveAuth ==
    /\ pc = "answer"
    /\ AnswerIsUsable(reply.answer)
    /\ tokenState' = [accessToken |-> reply.session,
                      expiresAt |-> ExpiresAt(reply.answer.expiresIn),
                      resourceSet |-> EffectiveResourceSet]
    /\ UseSession(tokenState')
    /\ reply' = Nothing
    /\ UNCHANGED <<now, config, issued, calls, call, reached, wire>>

\* Mutant: an unusable session is reported as a credential's fault.
RejectAuthAsCredential ==
    /\ pc = "answer"
    /\ ~AnswerIsUsable(reply.answer)
    /\ reply' = Nothing
    /\ Raise("credential")
    /\ UNCHANGED <<now, config, tokenState, issued, calls, call, session, reached, wire>>

\* do_auth: the answer is unusable.
RejectAuth ==
    /\ pc = "answer"
    /\ ~AnswerIsUsable(reply.answer)
    /\ reply' = Nothing
    /\ \E fault \in AnswerFaults(reply.answer) : pc' = Clear[fault]
    /\ UNCHANGED <<now, config, tokenState, issued, calls, call, session, reached, wire, outcome>>

\* do_auth: a lapsed session of the same Resource Set is dropped, and the error
\* raised.
ClearStale ==
    /\ \E error \in FlightErrors : pc = Clear[error] /\ Raise(error)
    /\ tokenState' = IF /\ tokenState # Nothing
                        /\ tokenState.resourceSet = EffectiveResourceSet
                        /\ ~IsTokenValid(tokenState)
                     THEN Nothing ELSE tokenState
    /\ UNCHANGED <<now, config, issued, calls, call, session, reply, reached, wire>>

\* The credentials request goes out with the option's Resource Set, not the
\* effective one, and ends with its answer.
AskCredentials ==
    /\ pc = "ask"
    /\ Reach("credentials")
    /\ wire' = [server |-> NormalizedServer(call.server),
                bearer |-> session.accessToken,
                resourceSet |-> ResourceSetHeader(call.resourceSet)]
    /\ \E answer \in CredentialAnswers : \E end \in OutcomesOf(answer) : Raise(end)
    /\ UNCHANGED <<now, config, tokenState, issued, calls, call, session, reply>>

-----------------------------------------------------------------------------
(* The rest of the program *)

\* Another thread's flight stores the session it was issued some time ago, for
\* any Resource Set, in place of whatever is cached.
OthersStore ==
    /\ \E s \in SessionIds, rs \in ResourceSets \cup {config.resourceSet},
          lifetime \in ((Lifetimes \ Countless) \cap Nat) \cup {Nothing}, delay \in 0 .. MaxLatency :
        /\ Fresh(s) /\ delay <= now
        /\ issued' = [issued EXCEPT ![s] =
              [expiresAt |-> IF lifetime = Nothing THEN Nothing ELSE now - delay + lifetime,
               resourceSet |-> rs]]
        /\ tokenState' = [accessToken |-> s, expiresAt |-> ExpiresAt(lifetime),
                          resourceSet |-> rs]
    /\ UNCHANGED <<now, config, pc, calls, call, session, reply, reached, wire, outcome>>

\* Another thread's authentication failed, and it drops a lapsed session.
OthersClear ==
    /\ tokenState # Nothing /\ ~IsTokenValid(tokenState)
    /\ tokenState' = Nothing
    /\ UNCHANGED <<now, config, issued, pc, calls, call, session, reply, reached, wire, outcome>>

\* An answer arrives in time.
Tick ==
    /\ now < MaxNow
    /\ pc = "answer" => now < reply.sentAt + MaxLatency
    /\ now' = now + 1
    /\ UNCHANGED <<config, tokenState, issued, pc, calls, call, session, reply, reached,
                   wire, outcome>>

Finished == pc = "idle" /\ calls = MaxCalls /\ UNCHANGED vars

Next ==
    \/ StartCall \/ CollectIdentity \/ LookupSession \/ JoinFlight
    \/ SendAuth \/ AuthRefused \/ ReceiveAuth \/ RejectAuth \/ ClearStale
    \/ AskCredentials
    \/ OthersStore \/ OthersClear \/ Tick \/ Finished

Spec == Init /\ [][Next]_vars

-----------------------------------------------------------------------------
(* Properties *)

Locations ==
    {"idle", "identity", "lookup", "acquire", "auth", "answer", "clear auth",
     "clear transport", "clear other", "ask"}

\* Every variable has its type.
TypeOK ==
    /\ now \in 0 .. MaxNow
    /\ config \in [resourceSet : Scopes, retry : RetrySettings]
    /\ tokenState \in CachedTokenStates \cup {Nothing}
    /\ issued \in [SessionIds -> IssuedSessions \cup {Nothing}]
    /\ pc \in Locations
    /\ calls \in 0 .. MaxCalls
    /\ call \in Calls
    /\ session \in CachedTokenStates \cup {Nothing}
    /\ reply \in Replies \cup {Nothing}
    /\ reached \subseteq {"provider", "auth", "credentials"}
    /\ wire \in Wires \cup {Nothing}
    /\ outcome \in Errors \cup {"returned", Nothing}

\* A cached session that counts as valid is one the Edge API still honours:
\* though its lifetime is counted from the arrival of the answer, the skew makes
\* up for the time the answer took, as long as that was no longer than the skew.
CachedSessionAlive ==
    IsTokenValid(tokenState) =>
        LET grant == issued[tokenState.accessToken] IN
        /\ grant # Nothing
        /\ grant.expiresAt = Nothing \/ now < grant.expiresAt

\* The client files sessions under the Resource Set it resolves itself, and the
\* adapter resolves the header of each request again: the bearer of a request
\* was issued for the very Resource Set the request names.
ScopesAgree ==
    wire # Nothing =>
        /\ issued[wire.bearer] # Nothing
        /\ issued[wire.bearer].resourceSet = wire.resourceSet

\* A call whose retry settings or whose server cannot be used bothers nobody: when
\* a Trust Provider or the Edge API has been asked for something, the retry
\* settings were accepted and the server is one that exists on a network.  (The
\* code validates neither timeouts nor names of Resource Sets.)
OnlyValidCallsReachOut ==
    reached # {} =>
        /\ config.retry \in {"usable", "endless"}
        /\ call.op = "get_credential" =>
              /\ call.server # Nothing
              /\ call.server.host # Nothing /\ call.server.host \notin BlankHosts
              /\ call.server.port \in Int
              /\ 0 < call.server.port /\ call.server.port < 65536
              /\ wire # Nothing => wire.server.transportProtocol = "TCP"

\* The class of the error tells how far the call came: a TrustProviderError that
\* the Edge API was not asked, an AuthError that no credential was requested,
\* a CredentialError that it was requested or that no session was even sought;
\* and a result that the whole way was gone.  With retry settings of an ordinary
\* size, an error that is not the SDK's own is the session's fault, its lifetime
\* being too large a number: it comes after the Trust Provider was asked and
\* before a credential is.
ErrorsTellTheStage ==
    /\ outcome = "trust_provider" => reached = {"provider"}
    /\ outcome = "auth" => "provider" \in reached /\ wire = Nothing
    /\ outcome = "credential" => wire # Nothing \/ reached \subseteq {"provider"}
    /\ outcome = "other" /\ config.retry = "usable" =>
          "provider" \in reached /\ wire = Nothing
    /\ outcome = "returned" =>
          /\ "provider" \in reached
          /\ call.op = "get_credential" <=> wire # Nothing
=============================================================================
