------------------------- MODULE IdentityCollection -------------------------
(***************************************************************************)
(* How the Python client comes by a workload identity from a Trust         *)
(* Provider that presents a token (py/src/aembit_edge/trust_providers:     *)
(* GitHub, Terraform, GitLab, OIDC, GCP, Kubernetes, or a custom one),     *)
(* while the source of that token goes on changing: a callable may mint    *)
(* another token each time, a mounted token file is rotated under the      *)
(* program.  Several threads collect at once, and share a collection when  *)
(* the provider has a single-flight key.                                   *)
(***************************************************************************)
EXTENDS JsonTrees

CONSTANTS
    Threads,        \* application threads that share the client
    MaxCalls,       \* bound: calls each thread makes
    MaxVersion,     \* bound: how often the token source changes
    Details,        \* values of client_workload_details, None among them
    Collectable,    \* what collect_identity may return as the client data
    Clients,        \* JSON objects: the client data of requests
    Namespace,      \* the provider's key in the client data it makes of a token
    TokenField,     \* the token's key there
    Accepts(_),     \* _sanitize_workload_data accepts it
    Merged(_, _),   \* _merge_client_workload_details
    NodesOf(_),     \* the nodes of an object
    Depth(_),       \* how many objects stand in one another
    Nothing         \* Python's None

VARIABLES
    provider,   \* the configured Trust Provider
    details,    \* config.client_workload_details
    offer,      \* what the provider's source would yield now
    version,    \* number of the source's changes so far
    entry,      \* the in-flight table's entry for the provider's key
    flights,    \* the _InFlight objects: Nothing, or the outcome, and done
    pc,         \* where each thread is
    callNo,     \* number of the thread's current or last call
    joined,     \* the flight a thread leads or waits on
    outcome,    \* what the thread's last collection came to, or Nothing
    seen        \* history: the offers there were during that collection

vars == <<provider, details, offer, version, entry, flights, pc, callNo, joined,
          outcome, seen>>
config == <<provider, details>>
source == <<offer, version>>
-----------------------------------------------------------------------------
(* The data *)

\* GitHub, Terraform and GitLab let an SDK error of the token source through;
\* the other token providers wrap it.  Only Kubernetes reads a file.  A custom
\* provider may have a single-flight key, or fail to say which.
Providers ==
    [family : {"ci"}, source : {"text", "callable"}, key : {"builtin"}]
        \cup [family : {"plain"}, source : {"text", "callable", "file"}, key : {"builtin"}]
        \cup [family : {"custom"}, source : {"tree"},
              key : {"absent", "blank", "text", "invalid", "raises"}]

\* What a source may yield: a token (named after the version of the source that
\* yields it), something that is not one, an error.
TokenOffers(v) == {[kind |-> "token", value |-> v], [kind |-> "blank"]}
RaisedOffers == {[kind |-> "raises"]} \cup [kind : {"raisesSdk"}, retryable : BOOLEAN]

OffersOf(p, v) ==
    CASE p.source = "text" -> TokenOffers(v)
      [] p.source = "callable" -> TokenOffers(v) \cup {[kind |-> "notText"]} \cup RaisedOffers
      [] p.source = "file" -> TokenOffers(v) \cup [kind : {"missing", "unreadable"}]
      [] OTHER -> [kind : {"tree"}, value : Collectable]
                    \cup {[kind |-> "notIdentity"]} \cup RaisedOffers

Offers == UNION {OffersOf(p, v) : p \in Providers, v \in 0 .. MaxVersion}

FlightIds == Threads \X (1 .. MaxCalls)

Succeeded(client) == [ok |-> TRUE, client |-> client]
Failed(error, retryable) == [ok |-> FALSE, error |-> error, retryable |-> retryable]

\* The client data a built-in provider makes of a token.
ProofOf(token) ==
    Object([k \in {Namespace} |-> Object([f \in {TokenField} |-> Scalar(token)])])

Outcomes ==
    [ok : {TRUE}, client : Clients]
        \cup [ok : {FALSE}, error : {"trust_provider", "credential"}, retryable : BOOLEAN]

\* client_workload_details that are taken.
UsableDetails == {d \in Details \ {Nothing} : Accepts(d)}

ASSUME CollectionAssumption ==
    /\ MaxCalls \in Nat /\ MaxVersion \in Nat
    /\ \A v \in 0 .. MaxVersion : ProofOf(v) \in Collectable /\ Accepts(ProofOf(v))
    /\ \A c \in Collectable : Accepts(c) \in BOOLEAN /\ (Accepts(c) => c \in Clients)
    /\ \A d \in Details \ {Nothing} : Accepts(d) \in BOOLEAN
    /\ Nothing \notin Outcomes \cup FlightIds

\* JSON objects are finite trees, and what stands in one is one of its kind.
\* Listing their nodes and merging them goes key by key and level by level.
ASSUME TreeAssumption ==
    /\ \A c \in Clients :
          /\ IsObject(c) /\ Depth(c) \in Nat
          /\ \A k \in DOMAIN c.members : IsObject(c.members[k]) =>
                c.members[k] \in Clients /\ Depth(c.members[k]) < Depth(c)
          /\ NodesOf(c) = NodesByKey(c, NodesOf)
    /\ \A d \in UsableDetails :
          /\ d \in Clients
          /\ \A k \in DOMAIN d.members : IsObject(d.members[k]) =>
                d.members[k] \in UsableDetails
    /\ \A c \in Clients, d \in UsableDetails :
          /\ Merged(c, d) \in Clients
          /\ Merged(c, d) = MergeMappings(c, d,
                [k \in MeetingKeys(c, d) |-> Merged(c.members[k], d.members[k])])

-----------------------------------------------------------------------------
(* What a collection comes to *)

\* Mutant: every built-in provider has a single-flight key.
KeyForEverySource(p) == IF p.family = "custom" THEN p.key ELSE "text"

\* get_identity_single_flight_key: only a static token is safe to share.
SingleFlightKey(p) ==
    IF p.family = "custom" THEN p.key
    ELSE IF p.source = "text" THEN "text" ELSE "absent"

\* _generate_identity_cache_key: an empty key is none.  A factory that raises a
\* TrustProviderError of its own, a retryable one, fails the call with that; one
\* that is not callable, raises anything else or returns no text, for good.
IsShared(p) == SingleFlightKey(p) = "text"
KeyFails(p) == SingleFlightKey(p) \in {"invalid", "raises"}
KeyFailure(p) == Failed("trust_provider", SingleFlightKey(p) = "raises")

\* Mutant: the client data of a custom provider is taken as it is.
CollectedUnsanitised(p, o) ==
    IF o.kind = "token" THEN Succeeded(ProofOf(o.value))
    ELSE IF o.kind = "tree" THEN Succeeded(o.value)
    ELSE Failed("trust_provider",
                o.kind = "raisesSdk" /\ p.family # "plain" /\ o.retryable)

\* collect_identity, as the client takes it: whatever is not a usable answer,
\* the client data of another shape included, is a lasting Trust Provider
\* error, unless the error is the SDK's own and the provider lets it through.
Collected(p, o) ==
    IF o.kind = "token" THEN Succeeded(ProofOf(o.value))
    ELSE IF o.kind = "tree" /\ Accepts(o.value) THEN Succeeded(o.value)
    ELSE Failed("trust_provider",
                o.kind = "raisesSdk" /\ p.family # "plain" /\ o.retryable)

\* _normalize_client_workload_details takes the details.
DetailsAreUsable(d) == d = Nothing \/ Accepts(d)

\* _collect_identity_uncached: the identity is sanitised before the details.
IdentityFrom(p, o, d) ==
    LET collected == Collected(p, o) IN
    IF ~collected.ok THEN collected
    ELSE IF ~DetailsAreUsable(d) THEN Failed("credential", FALSE)
    ELSE IF d = Nothing THEN collected
    ELSE Succeeded(Merged(collected.client, d))

-----------------------------------------------------------------------------
Init ==
    /\ provider \in Providers
    /\ details \in Details
    /\ offer \in OffersOf(provider, 0)
    /\ version = 0
    /\ entry = Nothing
    /\ flights = [f \in FlightIds |-> [outcome |-> Nothing, done |-> FALSE]]
    /\ pc = [t \in Threads |-> "idle"]
    /\ callNo = [t \in Threads |-> 0]
    /\ joined = [t \in Threads |-> Nothing]
    /\ outcome = [t \in Threads |-> Nothing]
    /\ seen = [t \in Threads |-> {}]

GoTo(t, l) == pc' = [pc EXCEPT ![t] = l]

\* The collection is over, with this outcome.
Return(t, o) ==
    /\ GoTo(t, "idle")
    /\ outcome' = [outcome EXCEPT ![t] = o]
    /\ joined' = [joined EXCEPT ![t] = Nothing]

\* _retrieve_workload_identity_proof
StartCall(t) ==
    /\ pc[t] = "idle"
    /\ callNo[t] < MaxCalls
    /\ callNo' = [callNo EXCEPT ![t] = @ + 1]
    /\ seen' = [seen EXCEPT ![t] = {offer}]
    /\ IF KeyFails(provider)
       THEN Return(t, KeyFailure(provider))
       ELSE /\ GoTo(t, IF IsShared(provider) THEN "coalesce" ELSE "collect")
            /\ outcome' = [outcome EXCEPT ![t] = Nothing]
            /\ UNCHANGED joined
    /\ UNCHANGED <<config, source, entry, flights>>

\* _coalesce_concurrent_requests, under the lock: wait for the running flight.
Join(t) ==
    /\ pc[t] = "coalesce"
    /\ entry # Nothing
    /\ joined' = [joined EXCEPT ![t] = entry]
    /\ GoTo(t, "wait")
    /\ UNCHANGED <<config, source, entry, flights, callNo, outcome, seen>>

\* Or, under the same lock, enter a new one.
Lead(t) ==
    /\ pc[t] = "coalesce"
    /\ entry = Nothing
    /\ entry' = <<t, callNo[t]>>
    /\ joined' = [joined EXCEPT ![t] = <<t, callNo[t]>>]
    /\ GoTo(t, "collect")
    /\ UNCHANGED <<config, source, flights, callNo, outcome, seen>>

\* done.wait() returns: the waiter returns or raises what its leader did.
Wake(t) ==
    /\ pc[t] = "wait"
    /\ flights[joined[t]].done
    /\ Return(t, flights[joined[t]].outcome)
    /\ UNCHANGED <<config, source, entry, flights, callNo, seen>>

\* The collection has come to outcome o: a leader notes it on its flight.
Collect(t, o) ==
    /\ IF joined[t] = Nothing
       THEN Return(t, o) /\ UNCHANGED flights
       ELSE /\ flights' = [flights EXCEPT ![joined[t]].outcome = o]
            /\ GoTo(t, "publish")
            /\ UNCHANGED <<outcome, joined>>
    /\ UNCHANGED <<config, source, entry, callNo, seen>>

\* The token source is asked, or the static token taken, and the identity made
\* of what it yields.
ResolveToken(t) ==
    /\ pc[t] = "collect"
    /\ provider.source # "file"
    /\ Collect(t, IdentityFrom(provider, offer, details))

\* os.path.exists, before the file is opened.
FindTokenFile(t) ==
    /\ pc[t] = "collect"
    /\ provider.source = "file"
    /\ IF offer.kind = "missing"
       THEN Collect(t, IdentityFrom(provider, offer, details))
       ELSE /\ GoTo(t, "read")
            /\ UNCHANGED <<config, source, entry, flights, callNo, joined, outcome, seen>>

\* open and read: by then the file may be another one, or none.
ReadTokenFile(t) ==
    /\ pc[t] = "read"
    /\ Collect(t, IdentityFrom(provider, offer, details))

\* The leader's finally: release the waiters, then remove the entry.
Publish(t) ==
    /\ pc[t] = "publish"
    /\ flights' = [flights EXCEPT ![joined[t]].done = TRUE]
    /\ GoTo(t, "retire")
    /\ UNCHANGED <<config, source, entry, callNo, joined, outcome, seen>>

Retire(t) ==
    /\ pc[t] = "retire"
    /\ entry' = IF entry = joined[t] THEN Nothing ELSE entry
    /\ Return(t, flights[joined[t]].outcome)
    /\ UNCHANGED <<config, source, flights, callNo, seen>>

\* The source changes: its next answer is another one.  A static token does not
\* change, nor, in this model, does a custom provider, which alone answers for
\* the key it chooses.
Rotate ==
    /\ version < MaxVersion
    /\ provider.source \in {"callable", "file"}
    /\ version' = version + 1
    /\ offer' \in OffersOf(provider, version')
    /\ seen' = [t \in Threads |->
                  IF pc[t] = "idle" THEN seen[t] ELSE seen[t] \cup {offer'}]
    /\ UNCHANGED <<config, entry, flights, pc, callNo, joined, outcome>>

\* Every thread has made its calls.
Finished ==
    /\ \A t \in Threads : pc[t] = "idle" /\ callNo[t] = MaxCalls
    /\ UNCHANGED vars

Step(t) ==
    \/ StartCall(t) \/ Join(t) \/ Lead(t) \/ Wake(t)
    \/ ResolveToken(t) \/ FindTokenFile(t) \/ ReadTokenFile(t)
    \/ Publish(t) \/ Retire(t)

Next == (\E t \in Threads : Step(t)) \/ Rotate \/ Finished

Spec == Init /\ [][Next]_vars

-----------------------------------------------------------------------------
(* Properties *)

\* Every variable has its type; of client data, that includes that it is JSON.
TypeOK ==
    /\ provider \in Providers
    /\ details \in Details
    /\ offer \in Offers
    /\ version \in 0 .. MaxVersion
    /\ entry \in FlightIds \cup {Nothing}
    /\ flights \in [FlightIds -> [outcome : Outcomes \cup {Nothing}, done : BOOLEAN]]
    /\ pc \in [Threads -> {"idle", "coalesce", "wait", "collect", "read", "publish", "retire"}]
    /\ callNo \in [Threads -> 0 .. MaxCalls]
    /\ joined \in [Threads -> FlightIds \cup {Nothing}]
    /\ outcome \in [Threads -> Outcomes \cup {Nothing}]
    /\ seen \in [Threads -> SUBSET Offers]

\* Whatever a collection comes to, an identity or an error, is what the
\* provider's source offered at some moment of that very collection: sharing
\* never hands a call a token or a failure from before it was made, and a token
\* file replaced between the look for it and its opening does no harm.
AnsweredByItsTime ==
    \A t \in Threads :
        outcome[t] # Nothing =>
            \/ \E o \in seen[t] : outcome[t] = IdentityFrom(provider, o, details)
            \/ KeyFails(provider) /\ outcome[t] = KeyFailure(provider)

\* Whatever client_workload_details says, the request presents the token that
\* the provider read, in the provider's own field.
ProofSurvivesDetails ==
    \A t \in Threads :
        provider.family # "custom" /\ outcome[t] # Nothing /\ outcome[t].ok =>
            LET client == outcome[t].client.members IN
            /\ Namespace \in DOMAIN client
            /\ TokenField \in DOMAIN client[Namespace].members
            /\ \E o \in seen[t] :
                  /\ o.kind = "token"
                  /\ client[Namespace].members[TokenField] = Scalar(o.value)

\* The identity of a request has every node of the collected one, unchanged,
\* and of the details exactly those that stand in nothing's way: the recursive
\* merge agrees with its definition node by node.
MergeIsByLeaves ==
    \A t \in Threads :
        outcome[t] # Nothing /\ outcome[t].ok /\ details # Nothing =>
            \E o \in seen[t] :
                LET collected == Collected(provider, o) IN
                /\ collected.ok
                /\ NodesOf(outcome[t].client)
                     = MergedNodes(NodesOf(collected.client), NodesOf(details))
=============================================================================
