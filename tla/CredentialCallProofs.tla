------------------------ MODULE CredentialCallProofs ------------------------
(***************************************************************************)
(* Theorems about CredentialCall, for any servers, Resource Sets, lifetimes*)
(* and skew, as long as an answer takes no longer than the skew.           *)
(***************************************************************************)
EXTENDS CredentialCall, TLAPS

\* How far a call is, by its location.
Asking == Locations \ {"idle", "identity"}

Stages ==
    /\ pc # "idle" => CallIsValid(call) /\ wire = Nothing /\ outcome = Nothing
    /\ reached # {} => CallIsValid(call)
    /\ pc = "identity" => reached = {}
    /\ pc \in Asking => "provider" \in reached
    /\ pc \in {"lookup", "ask"} => call.op = "get_credential"
    /\ pc = "ask" => session # Nothing
    /\ pc = "answer" => reply # Nothing
    /\ wire # Nothing => /\ call.op = "get_credential"
                         /\ call.server # Nothing
                         /\ wire.server = NormalizedServer(call.server)

LEMMA NormalizedServerType ==
    ASSUME NEW server \in ServerRefs
    PROVE  /\ NormalizedServer(server) \in SentServers
           /\ NormalizedServer(server).transportProtocol = "TCP"
  <1>1. server = [host |-> server.host, port |-> server.port,
                  transportProtocol |-> server.transportProtocol]
    BY CallAssumption
  <1> QED BY <1>1 DEF NormalizedServer, SentServers

LEMMA EffectiveScope ==
    ASSUME TypeOK
    PROVE  /\ EffectiveResourceSet \in Scopes
           /\ ResourceSetHeader(EffectiveResourceSet) = EffectiveResourceSet
           /\ call.op = "get_credential" =>
                 ResourceSetHeader(call.resourceSet) = EffectiveResourceSet
  BY DEF TypeOK, Calls, Scopes, EffectiveResourceSet, ResourceSetHeader

\* What counts as the call's own state of its server.
LEMMA ValidCall ==
    ASSUME TypeOK, CallIsValid(call), call.op = "get_credential"
    PROVE  call.server \in ServerRefs /\ ServerIsValid(call.server)
  BY DEF TypeOK, Calls, CallIsValid

\* A failing flight is somewhere of its own before its error is raised.
Clearing == {"clear auth", "clear transport", "clear other"}

LEMMA ClearingPlaces ==
    /\ \A error \in FlightErrors : Clear[error] \in Clearing
    /\ \A error \in {"auth", "transport"} \cup FailedPause : Clear[error] \in Clearing
    /\ \A answer : \A fault \in AnswerFaults(answer) : Clear[fault] \in Clearing
  <1>1. /\ Clear["auth"] = "clear auth" /\ Clear["transport"] = "clear transport"
        /\ Clear["other"] = "clear other"
    BY DEF Clear
  <1>2. \A error \in FlightErrors : Clear[error] \in Clearing
    BY <1>1 DEF FlightErrors, Clearing
  <1>3. {"auth", "transport"} \cup FailedPause \subseteq FlightErrors
    BY DEF FailedPause, FlightErrors
  <1>4. \A answer : AnswerFaults(answer) \subseteq FlightErrors
    BY DEF AnswerFaults, FlightErrors
  <1> QED BY <1>2, <1>3, <1>4

\* A usable answer's lifetime is none or not below zero.
LEMMA UsableLifetime ==
    ASSUME NEW answer, AnswerIsUsable(answer)
    PROVE  answer.expiresIn = Nothing \/ ~(answer.expiresIn < 0)
  <1>1. "auth" \notin AnswerFaults(answer)
    BY DEF AnswerIsUsable
  <1> QED BY <1>1 DEF AnswerFaults

-----------------------------------------------------------------------------
(* Types and stages *)

Shape == TypeOK /\ Stages

LEMMA ShapeInit == Init => Shape
  BY CallAssumption DEF Init, Shape, TypeOK, Stages, SessionIds, Calls, Locations, Asking

\* A session in the call's hands or on its way to the caller.
LEMMA UseSessionShape ==
    ASSUME TypeOK, NEW s \in CachedTokenStates, UseSession(s)
    PROVE  /\ session' \in CachedTokenStates \cup {Nothing}
           /\ call.op = "get_credential" =>
                 session' # Nothing /\ pc' = "ask" /\ outcome' = outcome
           /\ call.op # "get_credential" => pc' = "idle" /\ outcome' \in {"returned", "other"}
  BY CallAssumption DEF UseSession, Raise, TypeOK

\* The credentials request is one for the call's server.
LEMMA SentRequest ==
    ASSUME TypeOK, Stages, AskCredentials
    PROVE  /\ wire' \in Wires
           /\ wire'.server = NormalizedServer(call.server)
           /\ call.op = "get_credential" /\ call.server \in ServerRefs
  <1>1. call.op = "get_credential" /\ call.server \in ServerRefs
    BY ValidCall DEF AskCredentials, Stages
  <1>2. session.accessToken \in SessionIds
    BY DEF AskCredentials, Stages, TypeOK, CachedTokenStates
  <1>3. ResourceSetHeader(call.resourceSet) \in Scopes
    BY <1>1, EffectiveScope
  <1> QED BY <1>1, <1>2, <1>3, NormalizedServerType DEF AskCredentials, Wires

LEMMA ShapeStep == Shape /\ [Next]_vars => Shape'
  <1> SUFFICES ASSUME Shape, [Next]_vars PROVE Shape'
    OBVIOUS
  <1> USE CallAssumption
  <1>1. CASE UNCHANGED vars \/ Finished
    BY <1>1 DEF vars, Finished, Shape, TypeOK, Stages, CallIsValid
  <1>2. CASE StartCall
    <2>1. PICK c \in Calls : /\ call' = c
                             /\ IF CallIsValid(c)
                                THEN pc' = "identity" /\ outcome' = Nothing
                                ELSE pc' = "idle" /\ outcome' \in {"credential", "other"}
      BY <1>2 DEF StartCall, RefusalsOf, Raise
    <2>2. TypeOK'
      <3>1. calls' \in 0 .. MaxCalls
        BY <1>2 DEF StartCall, Shape, TypeOK
      <3>2. pc' \in Locations /\ outcome' \in Errors \cup {"returned", Nothing}
        BY <2>1 DEF Locations, Errors
      <3> QED BY <1>2, <2>1, <3>1, <3>2 DEF StartCall, Shape, TypeOK
    <2>3. Stages'
      BY <1>2, <2>1 DEF StartCall, Stages, CallIsValid, Asking, Locations
    <2> QED BY <2>2, <2>3 DEF Shape
  <1>3. CASE CollectIdentity
    <2>1. TypeOK'
      BY <1>3 DEF CollectIdentity, Reach, Raise, Shape, TypeOK, Locations, Errors
    <2>2. Stages'
      BY <1>3 DEF CollectIdentity, Reach, Raise, Shape, TypeOK, Calls, Stages, CallIsValid,
                  Asking, Locations
    <2> QED BY <2>1, <2>2 DEF Shape
  <1>4. CASE LookupSession
    <2>1. TypeOK'
      BY <1>4 DEF LookupSession, Shape, TypeOK, Locations
    <2>2. Stages'
      BY <1>4 DEF LookupSession, CachedSessionFits, IsTokenValid, Shape, Stages, CallIsValid,
                  Asking, Locations
    <2> QED BY <2>1, <2>2 DEF Shape
  <1>5. CASE JoinFlight
    <2>1. ASSUME NEW error \in FlightErrors, Raise(error), UNCHANGED session PROVE Shape'
      BY <1>5, <2>1 DEF JoinFlight, FlightErrors, Raise, Shape, TypeOK, Stages, CallIsValid,
                        Asking, Locations, Errors
    <2>2. ASSUME NEW id \in SessionIds, NEW delay \in 0 .. MaxLatency,
                 issued[id] # Nothing,
                 UseSession([accessToken |-> id, resourceSet |-> EffectiveResourceSet,
                             expiresAt |-> IF issued[id].expiresAt = Nothing THEN Nothing
                                           ELSE issued[id].expiresAt + delay])
          PROVE  Shape'
      <3> DEFINE s == [accessToken |-> id, resourceSet |-> EffectiveResourceSet,
                       expiresAt |-> IF issued[id].expiresAt = Nothing THEN Nothing
                                     ELSE issued[id].expiresAt + delay]
      <3>1. issued[id] \in IssuedSessions
        BY <2>2 DEF Shape, TypeOK
      <3>2. s.expiresAt \in Instants
        BY <2>2, <3>1 DEF IssuedSessions, Instants
      <3>3. s \in CachedTokenStates
        BY <2>2, <3>2, EffectiveScope DEF CachedTokenStates, Shape
      <3> HIDE DEF s
      <3>4. UseSession(s)
        BY <2>2 DEF s
      <3> QED BY <1>5, <3>3, <3>4, UseSessionShape
              DEF JoinFlight, Shape, TypeOK, Stages, CallIsValid, Asking, Locations, Errors
    <2> QED BY <1>5, <2>1, <2>2 DEF JoinFlight
  <1>6. CASE SendAuth
    <2>1. PICK s \in SessionIds, answer \in AuthAnswers :
             /\ issued' = [issued EXCEPT ![s] =
                   [expiresAt |-> GrantedUntil(answer.expiresIn),
                    resourceSet |-> ResourceSetHeader(EffectiveResourceSet)]]
             /\ reply' = [session |-> s, answer |-> answer, sentAt |-> now]
      BY <1>6 DEF SendAuth
    <2>2. GrantedUntil(answer.expiresIn) \in Instants
      BY DEF AuthAnswers, GrantedUntil, Instants, Shape, TypeOK
    <2>3. issued' \in [SessionIds -> IssuedSessions \cup {Nothing}]
      BY <2>1, <2>2, EffectiveScope DEF IssuedSessions, Shape, TypeOK
    <2>4. reply' \in Replies /\ reply' # Nothing
      <3>1. now \in Nat
        BY DEF Shape, TypeOK
      <3>2. reply' \in Replies
        BY <2>1, <3>1 DEF Replies
      <3> QED BY <3>2
    <2>5. TypeOK'
      BY <1>6, <2>3, <2>4 DEF SendAuth, Reach, Shape, TypeOK, Locations
    <2>6. Stages'
      BY <1>6, <2>4 DEF SendAuth, Reach, Shape, Stages, CallIsValid, Asking, Locations
    <2> QED BY <2>5, <2>6 DEF Shape
  <1>7. CASE AuthRefused
    <2>1. pc' \in Clearing
      BY <1>7, ClearingPlaces DEF AuthRefused
    <2> QED BY <1>7, <2>1 DEF Clearing, AuthRefused, Reach, Shape, TypeOK, Stages, CallIsValid,
                              Asking, Locations
  <1>8. CASE ReceiveAuth
    <2>1. reply \in [session : SessionIds, answer : AuthAnswers, sentAt : Nat]
      BY <1>8 DEF ReceiveAuth, Replies, Shape, TypeOK, Stages
    <2>2. ExpiresAt(reply.answer.expiresIn) \in Instants
      BY <1>8, <2>1, UsableLifetime DEF ReceiveAuth, AuthAnswers, ExpiresAt, Instants, Shape,
                                        TypeOK
    <2>3. tokenState' \in CachedTokenStates
      BY <1>8, <2>1, <2>2, EffectiveScope DEF ReceiveAuth, CachedTokenStates, Shape
    <2>4. UseSession(tokenState')
      BY <1>8 DEF ReceiveAuth
    <2> QED BY <1>8, <2>3, <2>4, UseSessionShape
            DEF ReceiveAuth, Shape, TypeOK, Stages, CallIsValid, Asking, Locations, Errors
  <1>9. CASE RejectAuth
    <2>1. pc' \in Clearing
      BY <1>9, ClearingPlaces DEF RejectAuth
    <2> QED BY <1>9, <2>1 DEF Clearing, RejectAuth, Shape, TypeOK, Stages, CallIsValid, Asking,
                              Locations
  <1>10. CASE ClearStale
    <2>1. pc \in Clearing
      BY <1>10, ClearingPlaces DEF ClearStale
    <2> QED BY <1>10, <2>1 DEF Clearing, ClearStale, FlightErrors, Raise, Shape, TypeOK, Stages,
                               CallIsValid, Asking, Locations, Errors
  <1>11. CASE AskCredentials
    <2>4. wire' \in Wires /\ wire'.server = NormalizedServer(call.server)
             /\ call.op = "get_credential" /\ call.server \in ServerRefs
      BY <1>11, SentRequest DEF Shape
    <2>5. TypeOK'
      BY <1>11, <2>4 DEF AskCredentials, CredentialAnswers, OutcomesOf, FailedPause, Reach, Raise, Shape, TypeOK, Locations,
                         Errors
    <2>6. Stages'
      BY <1>11, <2>4 DEF AskCredentials, Reach, Raise, Shape, Stages, CallIsValid, Asking,
                         Locations
    <2> QED BY <2>5, <2>6 DEF Shape
  <1>12. CASE OthersStore
    <2>1. PICK s \in SessionIds, rs \in ResourceSets \cup {config.resourceSet},
               lifetime \in ((Lifetimes \ Countless) \cap Nat) \cup {Nothing}, delay \in 0 .. MaxLatency :
             /\ delay <= now
             /\ issued' = [issued EXCEPT ![s] =
                   [expiresAt |-> IF lifetime = Nothing THEN Nothing
                                  ELSE now - delay + lifetime,
                    resourceSet |-> rs]]
             /\ tokenState' = [accessToken |-> s, expiresAt |-> ExpiresAt(lifetime),
                               resourceSet |-> rs]
      BY <1>12 DEF OthersStore
    <2>2. rs \in Scopes
      BY DEF Shape, TypeOK, Scopes
    <2>3. ExpiresAt(lifetime) \in Instants
      BY DEF ExpiresAt, Instants, Shape, TypeOK
    <2>4. (IF lifetime = Nothing THEN Nothing ELSE now - delay + lifetime) \in Instants
      BY <2>1 DEF Instants, Shape, TypeOK
    <2>5. issued' \in [SessionIds -> IssuedSessions \cup {Nothing}]
      BY <2>1, <2>2, <2>4 DEF IssuedSessions, Shape, TypeOK
    <2>6. tokenState' \in CachedTokenStates
      BY <2>1, <2>2, <2>3 DEF CachedTokenStates
    <2> QED BY <1>12, <2>5, <2>6 DEF OthersStore, Shape, TypeOK, Stages, CallIsValid
  <1>13. CASE OthersClear \/ Tick
    BY <1>13 DEF OthersClear, Tick, Shape, TypeOK, Stages, CallIsValid
  <1> QED BY <1>1, <1>2, <1>3, <1>4, <1>5, <1>6, <1>7, <1>8, <1>9, <1>10, <1>11, <1>12, <1>13
          DEF Next

\* The inductive invariant of a call: its variables are well typed, and where it
\* is tells what was validated, what was asked and what it holds.
THEOREM CallInvariant == Spec => []Shape
  BY ShapeInit, ShapeStep, PTL DEF Spec

\* The types of CredentialCall, for every instance.
THEOREM TypeCorrect == Spec => []TypeOK
  BY CallInvariant, PTL DEF Shape

-----------------------------------------------------------------------------
(* What follows from the shape of a call *)

\* A call with unusable arguments asks nobody for anything.
THEOREM InvalidCallsStayIn == Spec => []OnlyValidCallsReachOut
  <1>1. Shape => OnlyValidCallsReachOut
    <2> SUFFICES ASSUME Shape, reached # {} PROVE OnlyValidCallsReachOut
      BY DEF OnlyValidCallsReachOut
    <2>1. CallIsValid(call)
      BY DEF Shape, Stages
    <2>2. ASSUME call.op = "get_credential"
          PROVE  call.server \in ServerRefs /\ call.server # Nothing /\ ServerIsValid(call.server)
      BY <2>1, <2>2, ValidCall, CallAssumption DEF Shape
    <2>3. ASSUME wire # Nothing PROVE wire.server.transportProtocol = "TCP"
      BY <2>2, <2>3, NormalizedServerType DEF Shape, Stages
    <2>4. config.retry \in {"usable", "endless"}
      BY <2>1 DEF CallIsValid
    <2>5. ASSUME call.op = "get_credential"
          PROVE  /\ call.server.host # Nothing /\ call.server.host \notin BlankHosts
                 /\ call.server.port \in Int
                 /\ 0 < call.server.port /\ call.server.port < 65536
      <3>1. call.server.host \notin BlankHosts \cup {Nothing} /\ call.server.port \in 1 .. MaxPort
        BY <2>2, <2>5 DEF ServerIsValid
      <3>2. \A n \in 1 .. MaxPort : n \in Int /\ 0 < n /\ n < 65536
        <4>1. MaxPort \in Int /\ \A n \in Int : n <= MaxPort => n < 65536
          BY DEF MaxPort
        <4> QED BY <4>1
      <3> QED BY <3>1, <3>2
    <2> QED BY <2>2, <2>3, <2>4, <2>5 DEF OnlyValidCallsReachOut
  <1> QED BY <1>1, CallInvariant, PTL

\* Errors tell how far the call came.  The provider is asked first, so a call
\* that stops there has reached nobody else.
LEMMA ErrorsStep ==
    Shape /\ Shape' /\ ErrorsTellTheStage /\ [Next]_vars => ErrorsTellTheStage'
  <1> SUFFICES ASSUME Shape, Shape', ErrorsTellTheStage, [Next]_vars
               PROVE  ErrorsTellTheStage'
    OBVIOUS
  <1> USE CallAssumption
  <1>1. CASE UNCHANGED <<config, call, reached, wire, outcome>>
    BY <1>1 DEF ErrorsTellTheStage
  <1>2. CASE UNCHANGED outcome /\ outcome = Nothing
    BY <1>2 DEF ErrorsTellTheStage, Shape, TypeOK, Errors
  <1>3. CASE StartCall
    BY <1>3 DEF StartCall, RefusalsOf, Raise, ErrorsTellTheStage, Errors
  <1>4. CASE CollectIdentity
    BY <1>4 DEF CollectIdentity, Reach, Raise, Shape, Stages, ErrorsTellTheStage
  <1>5. ASSUME NEW s, UseSession(s), pc \in {"auth", "answer"},
               UNCHANGED <<config, call, reached, wire>>
        PROVE  ErrorsTellTheStage'
    BY <1>5 DEF UseSession, Raise, Shape, TypeOK, Calls, Stages, Asking, Locations, ErrorsTellTheStage
  <1>6. CASE JoinFlight
    <2>1. ASSUME NEW error \in FlightErrors, Raise(error) PROVE ErrorsTellTheStage'
      BY <1>6, <2>1 DEF JoinFlight, FlightErrors, Raise, Shape, Stages, Asking, Locations, ErrorsTellTheStage
    <2> QED BY <1>5, <1>6, <2>1 DEF JoinFlight
  <1>7. CASE ReceiveAuth
    BY <1>5, <1>7 DEF ReceiveAuth
  <1>8. CASE ClearStale
    <2>1. pc \in Clearing
      BY <1>8, ClearingPlaces DEF ClearStale
    <2> QED BY <1>8, <2>1 DEF Clearing, ClearStale, FlightErrors, Raise, Shape, Stages, Asking,
                              Locations, ErrorsTellTheStage
  <1>9. CASE AskCredentials
    <2>1. /\ "provider" \in reached'
          /\ call'.op = "get_credential" /\ wire' # Nothing
          /\ outcome' \in {"returned", "credential", "transport", "other"}
          /\ outcome' = "other" => config'.retry # "usable"
      BY <1>9, SentRequest DEF AskCredentials, CredentialAnswers, OutcomesOf, FailedPause, Reach, Raise, Shape, Stages, Asking,
                              Locations
    <2> QED BY <2>1 DEF ErrorsTellTheStage
  <1>10. CASE SendAuth \/ AuthRefused \/ RejectAuth
    BY <1>2, <1>10 DEF SendAuth, AuthRefused, RejectAuth, Shape, Stages
  <1>11. CASE LookupSession
    BY <1>1, <1>11 DEF LookupSession
  <1>12. CASE OthersStore \/ OthersClear \/ Tick \/ Finished \/ UNCHANGED vars
    BY <1>1, <1>12 DEF OthersStore, OthersClear, Tick, Finished, vars
  <1> QED BY <1>3, <1>4, <1>6, <1>7, <1>8, <1>9, <1>10, <1>11, <1>12 DEF Next

\* The class of an error tells the stage it stems from.
THEOREM ErrorsAreTelling == Spec => []ErrorsTellTheStage
  <1>1. Init => ErrorsTellTheStage
    BY CallAssumption DEF Init, ErrorsTellTheStage, Errors
  <1> QED BY <1>1, CallInvariant, ErrorsStep, PTL DEF Spec

-----------------------------------------------------------------------------
(* Sessions: what the client believes of one, against what was granted *)

\* Session s was issued for the scope it is filed under.
FiledRight(s) ==
    /\ issued[s.accessToken] # Nothing
    /\ issued[s.accessToken].resourceSet = s.resourceSet

\* A lifetime counted late is not much too long.
BelievedNotTooLong(s) ==
    LET granted == issued[s.accessToken].expiresAt IN
    IF s.expiresAt = Nothing THEN granted = Nothing
    ELSE granted # Nothing /\ s.expiresAt <= granted + MaxLatency

\* An answer on its way belongs to a session issued when it was sent.
ReplyFits ==
    pc = "answer" =>
        LET grant == issued[reply.session] IN
        /\ grant # Nothing
        /\ grant.resourceSet = EffectiveResourceSet
        /\ now <= reply.sentAt + MaxLatency
        /\ IF reply.answer.expiresIn = Nothing \/ reply.answer.expiresIn < 0
           THEN grant.expiresAt = Nothing
           ELSE grant.expiresAt = reply.sentAt + reply.answer.expiresIn

Sessions ==
    /\ tokenState # Nothing => FiledRight(tokenState) /\ BelievedNotTooLong(tokenState)
    /\ pc = "ask" => FiledRight(session) /\ session.resourceSet = EffectiveResourceSet
    /\ ReplyFits
    /\ ScopesAgree

\* Nothing the Edge API has issued changes.
IssuedStay == \A s \in SessionIds : issued[s] # Nothing => issued'[s] = issued[s]

LEMMA IssuedStayStep == Shape /\ [Next]_vars => IssuedStay
  <1> SUFFICES ASSUME Shape, [Next]_vars PROVE IssuedStay
    OBVIOUS
  <1>1. CASE UNCHANGED issued
    BY <1>1 DEF IssuedStay
  <1>2. CASE SendAuth
    BY <1>2 DEF SendAuth, Fresh, IssuedStay, Shape, TypeOK
  <1>3. CASE OthersStore
    BY <1>3 DEF OthersStore, Fresh, IssuedStay, Shape, TypeOK
  <1> QED BY <1>1, <1>2, <1>3 DEF Next, StartCall, CollectIdentity, LookupSession, JoinFlight,
          AuthRefused, ReceiveAuth, RejectAuth, ClearStale, AskCredentials, OthersClear, Tick,
          Finished, vars

\* The parts of Sessions hold on as long as what they speak of is left alone.
LEMMA SessionsKept ==
    ASSUME Shape, Shape', Sessions, IssuedStay, UNCHANGED <<config, wire>>
    PROVE  /\ tokenState # Nothing /\ UNCHANGED tokenState =>
                 FiledRight(tokenState)' /\ BelievedNotTooLong(tokenState)'
           /\ pc = "ask" /\ UNCHANGED <<pc, call, session>> =>
                 FiledRight(session)' /\ session'.resourceSet = EffectiveResourceSet'
           /\ pc = "answer" /\ UNCHANGED <<pc, call, reply>> /\ now' <= reply.sentAt + MaxLatency
                 => ReplyFits'
           /\ ScopesAgree'
  <1>1. ASSUME tokenState # Nothing, UNCHANGED tokenState
        PROVE  FiledRight(tokenState)' /\ BelievedNotTooLong(tokenState)'
    <2>1. tokenState.accessToken \in SessionIds
      BY <1>1 DEF Shape, TypeOK, CachedTokenStates
    <2>2. issued'[tokenState.accessToken] = issued[tokenState.accessToken]
      BY <1>1, <2>1 DEF Sessions, FiledRight, IssuedStay
    <2> QED BY <1>1, <2>2 DEF Sessions, FiledRight, BelievedNotTooLong
  <1>2. ASSUME pc = "ask", UNCHANGED <<pc, call, session>>
        PROVE  FiledRight(session)' /\ session'.resourceSet = EffectiveResourceSet'
    <2>1. session.accessToken \in SessionIds
      BY <1>2 DEF Shape, Stages, TypeOK, CachedTokenStates
    <2>2. issued'[session.accessToken] = issued[session.accessToken]
      BY <1>2, <2>1 DEF Sessions, FiledRight, IssuedStay
    <2> QED BY <1>2, <2>2 DEF Sessions, FiledRight, EffectiveResourceSet
  <1>3. ASSUME pc = "answer", UNCHANGED <<pc, call, reply>>, now' <= reply.sentAt + MaxLatency
        PROVE  ReplyFits'
    <2>1. reply.session \in SessionIds
      BY <1>3 DEF Shape, Stages, TypeOK, Replies
    <2>2. issued'[reply.session] = issued[reply.session]
      BY <1>3, <2>1 DEF Sessions, ReplyFits, IssuedStay
    <2> QED BY <1>3, <2>2 DEF Sessions, ReplyFits, EffectiveResourceSet
  <1>4. ScopesAgree'
    <2> SUFFICES ASSUME wire # Nothing PROVE ScopesAgree'
      BY DEF ScopesAgree
    <2>1. wire.bearer \in SessionIds
      BY DEF Shape, TypeOK, Wires
    <2>2. issued'[wire.bearer] = issued[wire.bearer]
      BY <2>1 DEF Sessions, ScopesAgree, IssuedStay
    <2> QED BY <2>2 DEF Sessions, ScopesAgree
  <1> QED BY <1>1, <1>2, <1>3, <1>4

LEMMA SessionsInit == Init => Sessions
  BY CallAssumption DEF Init, Sessions, ReplyFits, ScopesAgree

LEMMA SessionsStep == Shape /\ Shape' /\ Sessions /\ [Next]_vars => Sessions'
  <1> SUFFICES ASSUME Shape, Shape', Sessions, [Next]_vars PROVE Sessions'
    OBVIOUS
  <1> USE CallAssumption
  <1>0. IssuedStay
    BY IssuedStayStep
  \* Whatever takes the call neither to "ask" nor to "answer".
  <1>1. ASSUME UNCHANGED <<config, tokenState, issued>>, pc' \notin {"ask", "answer"},
               UNCHANGED wire \/ wire' = Nothing
        PROVE  Sessions'
    <2>1. tokenState' # Nothing => FiledRight(tokenState)' /\ BelievedNotTooLong(tokenState)'
      BY <1>1 DEF Sessions, FiledRight, BelievedNotTooLong
    <2>2. ScopesAgree' /\ ReplyFits'
      BY <1>1 DEF Sessions, ScopesAgree, ReplyFits
    <2> QED BY <1>1, <2>1, <2>2 DEF Sessions
  <1>2. CASE UNCHANGED vars \/ Finished
    BY <1>2 DEF vars, Finished, Sessions, FiledRight, BelievedNotTooLong, ReplyFits, ScopesAgree,
                EffectiveResourceSet
  <1>3. CASE StartCall \/ CollectIdentity \/ AuthRefused \/ RejectAuth
    <2>1. pc' \notin {"ask", "answer"}
      BY <1>3, ClearingPlaces DEF StartCall, CollectIdentity, AuthRefused, RejectAuth, Clearing,
                                  Raise
    <2> QED BY <1>1, <1>3, <2>1 DEF StartCall, CollectIdentity, AuthRefused, RejectAuth
  <1>4. ASSUME UNCHANGED <<config, call, wire>>,
               tokenState' # Nothing => FiledRight(tokenState)' /\ BelievedNotTooLong(tokenState)',
               pc' = "ask" => FiledRight(session)' /\ session'.resourceSet = EffectiveResourceSet',
               pc' # "answer"
        PROVE  Sessions'
    <2>1. ScopesAgree'
      BY <1>0, <1>4, SessionsKept
    <2> QED BY <1>4, <2>1 DEF Sessions, ReplyFits
  <1>5. CASE LookupSession
    <2>1. /\ UNCHANGED <<config, call, wire, issued, tokenState>>
          /\ pc' # "answer"
          /\ pc' = "ask" => /\ session' = tokenState /\ tokenState # Nothing
                            /\ tokenState.resourceSet = EffectiveResourceSet
      BY <1>5 DEF LookupSession, CachedSessionFits, IsTokenValid
    <2>2. tokenState' # Nothing => FiledRight(tokenState)' /\ BelievedNotTooLong(tokenState)'
      BY <2>1 DEF Sessions, FiledRight, BelievedNotTooLong
    <2>3. pc' = "ask" => FiledRight(session)' /\ session'.resourceSet = EffectiveResourceSet'
      BY <2>1 DEF Sessions, FiledRight, EffectiveResourceSet
    <2> QED BY <1>4, <2>1, <2>2, <2>3
  <1>6. ASSUME NEW s \in CachedTokenStates, UseSession(s),
               s.resourceSet = EffectiveResourceSet, FiledRight(s),
               UNCHANGED <<config, call, issued>>
        PROVE  /\ pc' # "answer"
               /\ pc' = "ask" => /\ FiledRight(session)'
                                 /\ session'.resourceSet = EffectiveResourceSet'
    <2>1. pc' = "ask" => session' = s
      BY <1>6 DEF UseSession, Raise
    <2>2. pc' # "answer"
      BY <1>6 DEF UseSession, Raise
    <2> QED BY <1>6, <2>1, <2>2 DEF FiledRight, EffectiveResourceSet
  <1>7. CASE JoinFlight
    <2>1. UNCHANGED <<config, call, wire, issued, tokenState>>
      BY <1>7 DEF JoinFlight
    <2>2. tokenState' # Nothing => FiledRight(tokenState)' /\ BelievedNotTooLong(tokenState)'
      BY <2>1 DEF Sessions, FiledRight, BelievedNotTooLong
    <2>3. ASSUME NEW error \in FlightErrors, Raise(error) PROVE Sessions'
      BY <1>4, <2>1, <2>2, <2>3 DEF Raise
    <2>4. ASSUME NEW id \in SessionIds, NEW delay \in 0 .. MaxLatency,
                 issued[id] # Nothing,
                 issued[id].resourceSet = ResourceSetHeader(EffectiveResourceSet),
                 UseSession([accessToken |-> id, resourceSet |-> EffectiveResourceSet,
                             expiresAt |-> IF issued[id].expiresAt = Nothing THEN Nothing
                                           ELSE issued[id].expiresAt + delay])
          PROVE  Sessions'
      <3> DEFINE s == [accessToken |-> id, resourceSet |-> EffectiveResourceSet,
                       expiresAt |-> IF issued[id].expiresAt = Nothing THEN Nothing
                                     ELSE issued[id].expiresAt + delay]
      <3>1. issued[id] \in IssuedSessions
        BY <2>4 DEF Shape, TypeOK
      <3>2. s.expiresAt \in Instants
        BY <2>4, <3>1 DEF IssuedSessions, Instants
      <3>3. s \in CachedTokenStates
        BY <2>4, <3>2, EffectiveScope DEF CachedTokenStates, Shape
      <3>4. s.resourceSet = EffectiveResourceSet /\ FiledRight(s)
        BY <2>4, EffectiveScope DEF FiledRight, Shape
      <3>5. UseSession(s)
        BY <2>4
      <3> HIDE DEF s
      <3> QED BY <1>4, <1>6, <2>1, <2>2, <3>3, <3>4, <3>5
    <2> QED BY <1>7, <2>3, <2>4 DEF JoinFlight
  <1>8. CASE SendAuth
    <2>1. PICK s \in SessionIds, answer \in AuthAnswers :
             /\ issued' = [issued EXCEPT ![s] =
                   [expiresAt |-> GrantedUntil(answer.expiresIn),
                    resourceSet |-> ResourceSetHeader(EffectiveResourceSet)]]
             /\ reply' = [session |-> s, answer |-> answer, sentAt |-> now]
      BY <1>8 DEF SendAuth
    <2>2. UNCHANGED <<config, call, wire, tokenState, now>> /\ pc' = "answer"
      BY <1>8 DEF SendAuth
    <2>3. issued'[s] = [expiresAt |-> GrantedUntil(answer.expiresIn),
                        resourceSet |-> EffectiveResourceSet]
      BY <2>1, EffectiveScope DEF Shape, TypeOK
    <2>4. issued'[s] # Nothing
      <3>1. answer.expiresIn \in Int \cup {Nothing}
        BY DEF AuthAnswers
      <3>2. GrantedUntil(answer.expiresIn) \in Instants
        BY <3>1 DEF GrantedUntil, Instants, Shape, TypeOK
      <3>3. issued'[s] \in IssuedSessions
        BY <2>3, <3>2, EffectiveScope DEF IssuedSessions, Shape, TypeOK
      <3> QED BY <3>3
    <2>5. now' <= reply'.sentAt + MaxLatency
      BY <2>1, <2>2 DEF Shape, TypeOK
    <2>6. ReplyFits'
      <3>1. issued'[s].expiresAt = GrantedUntil(answer.expiresIn)
        BY <2>3
      <3>2. answer.expiresIn \in Int \cup {Nothing}
        BY DEF AuthAnswers
      <3>3. IF answer.expiresIn = Nothing \/ answer.expiresIn < 0
            THEN issued'[s].expiresAt = Nothing
            ELSE issued'[s].expiresAt = now + answer.expiresIn
        BY <3>1, <3>2 DEF GrantedUntil
      <3> QED BY <2>1, <2>2, <2>3, <2>4, <2>5, <3>3 DEF ReplyFits, EffectiveResourceSet
    <2>7. tokenState' # Nothing => FiledRight(tokenState)' /\ BelievedNotTooLong(tokenState)'
      BY <1>0, <2>2, SessionsKept
    <2>8. ScopesAgree'
      BY <1>0, <2>2, SessionsKept
    <2> QED BY <2>2, <2>6, <2>7, <2>8 DEF Sessions
  <1>9. CASE ReceiveAuth
    <2>1. /\ UNCHANGED <<config, call, wire, issued>>
          /\ tokenState' = [accessToken |-> reply.session,
                            expiresAt |-> ExpiresAt(reply.answer.expiresIn),
                            resourceSet |-> EffectiveResourceSet]
          /\ UseSession(tokenState')
          /\ pc = "answer" /\ AnswerIsUsable(reply.answer)
      BY <1>9 DEF ReceiveAuth
    <2>2. reply \in [session : SessionIds, answer : AuthAnswers, sentAt : Nat]
      BY <2>1 DEF Shape, TypeOK, Stages, Replies
    <2>3. tokenState' \in CachedTokenStates
      <3>1. ExpiresAt(reply.answer.expiresIn) \in Instants
        BY <2>1, <2>2, UsableLifetime DEF AuthAnswers, ExpiresAt, Instants, Shape, TypeOK
      <3> QED BY <2>1, <2>2, <3>1, EffectiveScope DEF CachedTokenStates, Shape
    <2>4. tokenState'.resourceSet = EffectiveResourceSet /\ FiledRight(tokenState')
      BY <2>1, <2>2 DEF Sessions, ReplyFits, FiledRight
    <2>5. FiledRight(tokenState)'
      BY <2>1, <2>4 DEF FiledRight
    <2>6. BelievedNotTooLong(tokenState)'
      <3>1. reply.answer.expiresIn \in Int \cup {Nothing} /\ now \in Int /\ reply.sentAt \in Int
        BY <2>2 DEF AuthAnswers, Shape, TypeOK
      <3>2. CASE reply.answer.expiresIn = Nothing
        BY <2>1, <3>2 DEF Sessions, ReplyFits, BelievedNotTooLong, ExpiresAt
      <3>3. CASE reply.answer.expiresIn # Nothing
        <4>1. reply.answer.expiresIn >= 0 /\ reply.answer.expiresIn \in Int
          BY <2>1, <3>1, <3>3, UsableLifetime
        <4>2. /\ issued[reply.session].expiresAt = reply.sentAt + reply.answer.expiresIn
              /\ now <= reply.sentAt + MaxLatency
          BY <2>1, <3>3, <4>1 DEF Sessions, ReplyFits
        <4>3. now + reply.answer.expiresIn <= issued[reply.session].expiresAt + MaxLatency
          BY <3>1, <4>1, <4>2
        <4>4. /\ issued[reply.session].expiresAt # Nothing
              /\ now + reply.answer.expiresIn # Nothing
          BY <3>1, <4>1, <4>2
        <4> QED BY <2>1, <3>3, <4>3, <4>4 DEF BelievedNotTooLong, ExpiresAt
      <3> QED BY <3>2, <3>3
    <2>7. /\ pc' # "answer"
          /\ pc' = "ask" => FiledRight(session)' /\ session'.resourceSet = EffectiveResourceSet'
      BY <1>6, <2>1, <2>3, <2>4
    <2> QED BY <1>4, <2>1, <2>5, <2>6, <2>7
  <1>10. CASE ClearStale
    <2>1. /\ UNCHANGED <<config, call, wire, issued>> /\ pc' = "idle"
          /\ tokenState' = tokenState \/ tokenState' = Nothing
      BY <1>10 DEF ClearStale, Raise
    <2>2. tokenState' # Nothing => FiledRight(tokenState)' /\ BelievedNotTooLong(tokenState)'
      BY <2>1 DEF Sessions, FiledRight, BelievedNotTooLong
    <2> QED BY <1>4, <2>1, <2>2
  <1>11. CASE AskCredentials
    <2>1. /\ UNCHANGED <<config, call, issued, tokenState, session>> /\ pc' = "idle"
          /\ wire' = [server |-> NormalizedServer(call.server), bearer |-> session.accessToken,
                      resourceSet |-> ResourceSetHeader(call.resourceSet)]
      BY <1>11 DEF AskCredentials, Raise
    <2>2. call.op = "get_credential"
      BY <1>11, SentRequest DEF Shape
    <2>3. /\ issued[session.accessToken] # Nothing
          /\ issued[session.accessToken].resourceSet = ResourceSetHeader(call.resourceSet)
      BY <1>11, <2>2, EffectiveScope DEF AskCredentials, Sessions, FiledRight, Shape
    <2>4. ScopesAgree'
      BY <2>1, <2>3 DEF ScopesAgree
    <2>5. tokenState' # Nothing => FiledRight(tokenState)' /\ BelievedNotTooLong(tokenState)'
      BY <2>1 DEF Sessions, FiledRight, BelievedNotTooLong
    <2> QED BY <2>1, <2>4, <2>5 DEF Sessions, ReplyFits
  <1>12. CASE OthersStore
    <2>1. PICK s \in SessionIds, rs \in ResourceSets \cup {config.resourceSet},
               lifetime \in ((Lifetimes \ Countless) \cap Nat) \cup {Nothing}, delay \in 0 .. MaxLatency :
             /\ delay <= now
             /\ issued' = [issued EXCEPT ![s] =
                   [expiresAt |-> IF lifetime = Nothing THEN Nothing
                                  ELSE now - delay + lifetime,
                    resourceSet |-> rs]]
             /\ tokenState' = [accessToken |-> s, expiresAt |-> ExpiresAt(lifetime),
                               resourceSet |-> rs]
      BY <1>12 DEF OthersStore
    <2>2. UNCHANGED <<config, call, wire, now, pc, session, reply>>
      BY <1>12 DEF OthersStore
    <2>3. issued'[s] = [expiresAt |-> IF lifetime = Nothing THEN Nothing
                                      ELSE now - delay + lifetime,
                        resourceSet |-> rs]
      BY <2>1 DEF Shape, TypeOK
    <2>4. issued'[s] # Nothing
      <3>1. rs \in Scopes /\ (IF lifetime = Nothing THEN Nothing
                              ELSE now - delay + lifetime) \in Instants
        BY <2>1 DEF Instants, Scopes, Shape, TypeOK
      <3>2. issued'[s] \in IssuedSessions
        BY <2>3, <3>1 DEF IssuedSessions
      <3> QED BY <3>2
    <2>5. FiledRight(tokenState)'
      BY <2>1, <2>3, <2>4 DEF FiledRight
    <2>6. BelievedNotTooLong(tokenState)'
      <3>1. lifetime # Nothing => /\ now - delay + lifetime # Nothing /\ now + lifetime # Nothing
                                  /\ now + lifetime <= now - delay + lifetime + MaxLatency
        BY DEF Shape, TypeOK
      <3> QED BY <2>1, <2>3, <3>1 DEF BelievedNotTooLong, ExpiresAt
    <2>7. pc' = "ask" => FiledRight(session)' /\ session'.resourceSet = EffectiveResourceSet'
      BY <1>0, <2>2, SessionsKept
    <2>8. ReplyFits'
      <3>1. CASE pc = "answer"
        BY <1>0, <2>2, <3>1, SessionsKept DEF Sessions, ReplyFits
      <3>2. CASE pc # "answer"
        BY <2>2, <3>2 DEF ReplyFits
      <3> QED BY <3>1, <3>2
    <2>9. ScopesAgree'
      BY <1>0, <2>2, SessionsKept
    <2> QED BY <2>5, <2>6, <2>7, <2>8, <2>9 DEF Sessions
  <1>13. CASE OthersClear \/ Tick
    <2>1. /\ UNCHANGED <<config, call, wire, issued, pc, session, reply>>
          /\ tokenState' = tokenState \/ tokenState' = Nothing
      BY <1>13 DEF OthersClear, Tick
    <2>2. tokenState' # Nothing => FiledRight(tokenState)' /\ BelievedNotTooLong(tokenState)'
      BY <2>1 DEF Sessions, FiledRight, BelievedNotTooLong
    <2>3. pc' = "ask" => FiledRight(session)' /\ session'.resourceSet = EffectiveResourceSet'
      BY <1>0, <2>1, SessionsKept
    <2>4. ReplyFits'
      <3>1. CASE pc # "answer"
        BY <2>1, <3>1 DEF ReplyFits
      <3>2. CASE pc = "answer"
        <4>1. now' <= reply.sentAt + MaxLatency
          <5>1. reply.sentAt \in Int /\ now \in Int
            BY <3>2 DEF Shape, Stages, TypeOK, Replies
          <5>2. CASE OthersClear
            BY <3>2, <5>2 DEF OthersClear, Sessions, ReplyFits
          <5>3. CASE Tick
            BY <3>2, <5>1, <5>3 DEF Tick
          <5> QED BY <1>13, <5>2, <5>3
        <4> QED BY <1>0, <2>1, <3>2, <4>1, SessionsKept
      <3> QED BY <3>1, <3>2
    <2>5. ScopesAgree'
      BY <1>0, <2>1, SessionsKept
    <2> QED BY <2>2, <2>3, <2>4, <2>5 DEF Sessions
  <1> QED BY <1>2, <1>3, <1>5, <1>7, <1>8, <1>9, <1>10, <1>11, <1>12, <1>13 DEF Next

\* The inductive invariant of sessions: whatever is cached, held or on its way
\* was issued for the scope it is filed under, and is believed to last at most
\* by an answer's delay longer than it was granted.
THEOREM SessionsInvariant == Spec => []Sessions
  BY CallInvariant, SessionsInit, SessionsStep, PTL DEF Spec

\* The bearer and the Resource Set of a credentials request agree.
THEOREM HeadersMatchBearers == Spec => []ScopesAgree
  BY SessionsInvariant, PTL DEF Sessions

\* A session that counts as valid is alive: the skew covers the answer's delay.
THEOREM ValidMeansAlive == Spec => []CachedSessionAlive
  <1>1. Shape /\ Sessions => CachedSessionAlive
    <2> SUFFICES ASSUME Shape, Sessions, IsTokenValid(tokenState)
                 PROVE  LET grant == issued[tokenState.accessToken] IN
                        /\ grant # Nothing
                        /\ grant.expiresAt = Nothing \/ now < grant.expiresAt
      BY DEF CachedSessionAlive
    <2> DEFINE grant == issued[tokenState.accessToken]
    <2>1. grant # Nothing /\ BelievedNotTooLong(tokenState) /\ tokenState \in CachedTokenStates
      BY DEF IsTokenValid, Sessions, FiledRight, Shape, TypeOK
    <2>2. grant \in IssuedSessions
      BY <2>1 DEF Shape, TypeOK, CachedTokenStates
    <2>3. CASE tokenState.expiresAt = Nothing
      BY <2>1, <2>3 DEF BelievedNotTooLong
    <2>4. CASE tokenState.expiresAt # Nothing
      <3>1. /\ grant.expiresAt \in Nat /\ tokenState.expiresAt \in Nat /\ now \in Nat
            /\ tokenState.expiresAt <= grant.expiresAt + MaxLatency
        BY <2>1, <2>2, <2>4 DEF BelievedNotTooLong, IssuedSessions, CachedTokenStates, Instants,
                                 Shape, TypeOK
      <3>2. now < tokenState.expiresAt - Skew
        BY <2>4 DEF IsTokenValid
      <3>3. now < grant.expiresAt
        BY <3>1, <3>2, CallAssumption
      <3> QED BY <2>1, <3>3
    <2> QED BY <2>3, <2>4
  <1> QED BY <1>1, CallInvariant, SessionsInvariant, PTL
=============================================================================
