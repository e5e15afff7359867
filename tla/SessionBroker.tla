--------------------------- MODULE SessionBroker ---------------------------
(***************************************************************************)
(* What an EdgeClient promises its callers, whatever it caches and however *)
(* it shares work between them: a caller asks for a bearer session in a    *)
(* scope (the effective Resource Set and the provider's cache key), and    *)
(* the only sessions it is ever handed are sessions that the Edge API has  *)
(* issued for that very scope, at the request of a caller that wanted it.  *)
(***************************************************************************)
CONSTANTS
    Callers,    \* the threads or tasks that use one client
    Scopes,     \* what a session may be reused for
    Sessions,   \* names of the sessions the Edge API may issue
    NoScope,    \* the scope of a caller that asks for nothing: no member of Scopes
    NoSession   \* what a caller holds before it is handed a session: none of Sessions

VARIABLES
    wanted,     \* wanted[c]: the scope caller c asks for
    granted,    \* granted[c]: the session c has been handed
    issuedFor   \* issuedFor[s]: the scope session s was issued for, if it was

brokerVars == <<wanted, granted, issuedFor>>

BrokerTypeOK ==
    /\ wanted \in [Callers -> Scopes \cup {NoScope}]
    /\ granted \in [Callers -> Sessions \cup {NoSession}]
    /\ issuedFor \in [Sessions -> Scopes \cup {NoScope}]

BrokerInit ==
    /\ wanted = [c \in Callers |-> NoScope]
    /\ granted = [c \in Callers |-> NoSession]
    /\ issuedFor = [s \in Sessions |-> NoScope]

\* Caller c needs a session in scope k.
Ask(c, k) ==
    /\ wanted[c] = NoScope
    /\ wanted' = [wanted EXCEPT ![c] = k]
    /\ UNCHANGED <<granted, issuedFor>>

\* The Edge API issues session s to caller c, for the scope c wants.
Issue(c, s) ==
    /\ wanted[c] # NoScope
    /\ granted[c] = NoSession
    /\ issuedFor[s] = NoScope
    /\ issuedFor' = [issuedFor EXCEPT ![s] = wanted[c]]
    /\ UNCHANGED <<wanted, granted>>

\* Caller c is handed s, its own or one another caller had issued.
Grant(c, s) ==
    /\ wanted[c] # NoScope
    /\ granted[c] = NoSession
    /\ issuedFor[s] = wanted[c]
    /\ granted' = [granted EXCEPT ![c] = s]
    /\ UNCHANGED <<wanted, issuedFor>>

\* Caller c's call ends: it returned, or it raised.
Leave(c) ==
    /\ wanted[c] # NoScope
    /\ wanted' = [wanted EXCEPT ![c] = NoScope]
    /\ granted' = [granted EXCEPT ![c] = NoSession]
    /\ UNCHANGED issuedFor

BrokerNext ==
    \E c \in Callers :
        \/ \E k \in Scopes : Ask(c, k)
        \/ \E s \in Sessions : Issue(c, s) \/ Grant(c, s)
        \/ Leave(c)

BrokerSpec == BrokerInit /\ [][BrokerNext]_brokerVars

-----------------------------------------------------------------------------
\* A caller holds only a session issued for the scope it asked for, so the
\* bearer a credentials request carries fits the request.
GrantedInScope ==
    \A c \in Callers :
        granted[c] # NoSession => issuedFor[granted[c]] = wanted[c]
=============================================================================
