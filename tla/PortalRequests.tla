--------------------------- MODULE PortalRequests ---------------------------
(***************************************************************************)
(* The request/response protocol with xdg-desktop-portal:                  *)
(* PortalSession._call_with_response and the sequence of requests that     *)
(* open() makes (server/ubudesk_server/capture/portal_session.py).         *)
(*                                                                         *)
(* Every start of a stream makes a PortalSession with a token counter of   *)
(* its own, on the one bus connection of the process: the paths of         *)
(* requests and sessions are built from the connection's name and the      *)
(* token, so equal tokens are equal paths.  A path is its token here; 0 is *)
(* a path the portal made up because the wanted one was in use.            *)
(***************************************************************************)
EXTENDS Naturals

CONSTANTS Clients,     \* the clients of the server, each with one start at a time
          MaxOpens,    \* bound: PortalSessions per client
          MayTimeOut   \* whether a request may time out (120 s, the dialog 300 s)

ASSUME RequestsAssumption == MaxOpens \in Nat /\ MayTimeOut \in BOOLEAN

SessionToken == 1  \* the first token of open() names the session
LastToken == 5     \* CreateSession, SelectSources, SelectDevices, Start: 2..5

VARIABLES
    at,       \* [c]: "idle", "next", "subscribed", "calling", "waiting", "open"
    era,      \* [c]: how many PortalSessions c has made
    token,    \* [c]: _token_counter of the current one
    session,  \* [c]: the path of its portal session, 0 for none
    got,      \* [c]: the request whose response on_response received, if any
    pending   \* requests at the portal

requestVars == <<at, era, token, session, got, pending>>

Request == [client : Clients, era : 1..MaxOpens, token : 2..LastToken]
Pending == [req : Request, path : 0..LastToken]
NoRequest == [client |-> "nobody"]

RequestsTypeOK ==
    /\ at \in [Clients -> {"idle", "next", "subscribed", "calling", "waiting", "open"}]
    /\ era \in [Clients -> 0..MaxOpens]
    /\ token \in [Clients -> 0..LastToken]
    /\ session \in [Clients -> {0, SessionToken}]
    /\ got \in [Clients -> Request \cup {NoRequest}]
    /\ pending \subseteq Pending

RequestsInit ==
    /\ at = [c \in Clients |-> "idle"]
    /\ era = [c \in Clients |-> 0]
    /\ token = [c \in Clients |-> 0]
    /\ session = [c \in Clients |-> 0]
    /\ got = [c \in Clients |-> NoRequest]
    /\ pending = {}

Goto(c, label) == at' = [at EXCEPT ![c] = label]

\* A new PortalSession; open() takes a token for the session first.
Open(c) ==
    /\ at[c] = "idle" /\ era[c] < MaxOpens
    /\ era' = [era EXCEPT ![c] = @ + 1]
    /\ token' = [token EXCEPT ![c] = SessionToken]
    /\ Goto(c, "next")
    /\ UNCHANGED <<session, got, pending>>

\* signal_subscribe on the predicted path ...
Subscribe(c) ==
    /\ at[c] = "next"
    /\ token' = [token EXCEPT ![c] = @ + 1]
    /\ got' = [got EXCEPT ![c] = NoRequest]
    /\ Goto(c, "subscribed")
    /\ UNCHANGED <<era, session, pending>>

\* ... is in force until the call returns its results or raises.
\* Variant: the subscription follows the call.
SubscribedLate(c) == at[c] = "waiting"
Subscribed(c) == at[c] \in {"subscribed", "calling", "waiting"}

InUse(path) == \E p \in pending : p.path = path
Call(c) ==
    /\ at[c] = "subscribed"
    /\ LET req == [client |-> c, era |-> era[c], token |-> token[c]]
       IN  pending' = pending \cup
             {[req |-> req, path |-> IF InUse(token[c]) THEN 0 ELSE token[c]]}
    /\ Goto(c, "calling")
    /\ UNCHANGED <<era, token, session, got>>

Returned(c) ==
    /\ at[c] = "calling"
    /\ Goto(c, "waiting")
    /\ UNCHANGED <<era, token, session, got, pending>>

\* The portal answers a request, for the dialog after minutes, whether or
\* not the caller still waits: the signal reaches who is subscribed.
Respond(p) ==
    /\ p \in pending
    /\ pending' = pending \ {p}
    /\ got' = [c \in Clients |-> IF Subscribed(c) /\ token[c] = p.path THEN p.req
                                                                       ELSE got[c]]
    /\ UNCHANGED <<at, era, token, session>>

\* The flag is seen: the next request, or the session is open.  A response
\* with a code other than 0 raises PortalError.
AfterResponse(c) == IF token[c] = LastToken THEN "open" ELSE "next"
Take(c) ==
    /\ at[c] = "waiting" /\ got[c] # NoRequest
    /\ \/ /\ Goto(c, AfterResponse(c))
          /\ session' = [session EXCEPT ![c] = SessionToken]
       \/ Goto(c, "idle") /\ UNCHANGED session
    /\ UNCHANGED <<era, token, got, pending>>

TimeOut(c) ==
    /\ MayTimeOut /\ at[c] = "waiting"
    /\ Goto(c, "idle")
    /\ UNCHANGED <<era, token, session, got, pending>>

CloseSession(c) ==
    /\ at[c] = "open"
    /\ session' = [session EXCEPT ![c] = 0]
    /\ Goto(c, "idle")
    /\ UNCHANGED <<era, token, got, pending>>

RequestsNext ==
    \/ \E c \in Clients :
         Open(c) \/ Subscribe(c) \/ Call(c) \/ Returned(c) \/ Take(c)
         \/ TimeOut(c) \/ CloseSession(c)
    \/ \E p \in pending : Respond(p)

RequestsSpec == RequestsInit /\ [][RequestsNext]_requestVars

-----------------------------------------------------------------------------
(* Properties.                                                             *)

\* A response that is sent on the path a call waits for reaches the call,
\* however early it comes (portal_session.py:104-105).
InCall(c) == at[c] \in {"calling", "waiting"}
NoResponseLost ==
    [][\A p \in pending \ pending' : \A c \in Clients :
          InCall(c) /\ token[c] = p.path => got'[c] = p.req]_requestVars
=============================================================================
