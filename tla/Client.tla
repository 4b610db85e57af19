------------------------------- MODULE Client -------------------------------
(***************************************************************************)
(* The Android app's connections: MainViewModel, the UbuDeskClient objects *)
(* it makes (one per attempt), and of each server session the handshake    *)
(* that Session models in full (server/ubudesk_server/net/session.py).     *)
(*                                                                         *)
(* Every client has a reader thread, a ping loop and a writer, and all of  *)
(* them call back into the one listener of the view model, which answers   *)
(* through whatever client the view model has at that moment.  The user    *)
(* presses buttons meanwhile.                                              *)
(*                                                                         *)
(* Messages are named by what they mean to the other side.  Video, input   *)
(* and pongs carry nothing that matters here but that they were received:  *)
(* silence is what a ping loop or a reader notices, after six seconds.     *)
(***************************************************************************)
EXTENDS Naturals, Sequences

CONSTANT MaxClients  \* bound: attempts to connect

ASSUME ClientAssumption == MaxClients \in Nat

None == 0
Ids == 1..MaxClients

VARIABLES
    ui,     \* MainViewModel.state
    cur,    \* MainViewModel.client, None for null
    token,  \* pendingServer.token is not null
    made,   \* UbuDeskClients made so far
    k,      \* [c]: a client, its socket, and its session at the server
    stale   \* history: a client that is not the view model's called back, or
            \* was replaced while it lived

vars == <<ui, cur, token, made, k, stale>>

Screens == {"Connect", "Connecting", "PairingPin", "Streaming", "Failed"}
ToServer == {"hello", "token", "pin", "start", "ping", "bye"}
ToClient == {"auth_required", "auth_ok", "paired", "unknown_token", "bad_pin",
             "started", "error"}
Clients == [sock : {"none", "connecting", "up", "down",
                    "left"},        \* open, and nobody will close it
            closed : BOOLEAN,   \* UbuDeskClient.closed
            pinging : BOOLEAN,  \* pingJob runs
            reader : {"none", "run", "failing", "done"},
            out : Seq(ToServer), in : Seq(ToClient),
            sess : {"none", "HELLO", "AUTH", "READY", "STARTING", "STREAMING",
                    "CLOSED"}]

TypeOK ==
    /\ ui \in Screens
    /\ cur \in 0..made
    /\ token \in BOOLEAN
    /\ made \in 0..MaxClients
    /\ k \in [Ids -> Clients]
    /\ stale \in BOOLEAN
    /\ cur # None => ~k[cur].closed
    /\ \A c \in Ids : c > made <=> k[c].sock = "none"

Init ==
    /\ ui = "Connect" /\ cur = None /\ token = FALSE /\ made = 0
    /\ k = [c \in Ids |-> [sock |-> "none", closed |-> FALSE, pinging |-> FALSE,
                           reader |-> "none", out |-> <<>>, in |-> <<>>,
                           sess |-> "none"]]
    /\ stale = FALSE

-----------------------------------------------------------------------------
(* The user.                                                               *)

\* client?.send: nothing without a client, and nothing arrives at a session
\* that is over.
Sent(K, c, m) ==
    IF c = None \/ K[c].sess = "CLOSED" THEN K ELSE [K EXCEPT ![c].out = Append(@, m)]

\* The Connect screen is there in these states; a server of the list may have
\* a token.  The client of an earlier attempt is overwritten as it is.
ConnectTo ==
    /\ ui \in {"Connect", "Failed", "Connecting"}
    /\ made < MaxClients
    /\ made' = made + 1 /\ cur' = made + 1
    /\ token' \in BOOLEAN
    /\ ui' = "Connecting"
    /\ k' = [k EXCEPT ![made + 1].sock = "connecting", ![made + 1].out = <<"hello">>]
    /\ stale' = (stale \/ cur # None)

SubmitPin ==
    /\ ui = "PairingPin"
    /\ ui' = "Connecting"
    /\ k' = Sent(k, cur, "pin")
    /\ UNCHANGED <<cur, token, made, stale>>

\* UbuDeskClient.disconnect, up to the callback.
Closing(c) ==
    Sent([k EXCEPT ![c].closed = TRUE, ![c].pinging = FALSE], c, "bye")

\* Variant: the closed client is kept.
DisconnectKeepsIt ==
    /\ ui \in {"Connecting", "PairingPin", "Streaming"}
    /\ ui' = "Connect"
    /\ k' = IF cur = None THEN k ELSE Closing(cur)
    /\ UNCHANGED <<cur, token, made, stale>>
Disconnect ==
    /\ ui \in {"Connecting", "PairingPin", "Streaming"}
    /\ ui' = "Connect" /\ cur' = None
    /\ k' = IF cur = None THEN k ELSE Closing(cur)
    /\ UNCHANGED <<token, made, stale>>

-----------------------------------------------------------------------------
(* A client: openSocketAndRun, reader, ping loop, disconnect.              *)

\* listener.onDisconnected, for whichever client.
\* Variant: the screen stays.
OnDisconnectedQuiet(c) ==
    /\ ui' = IF ui \in {"Connect", "Failed", "Streaming"} THEN ui ELSE "Failed"
    /\ cur' = None
    /\ stale' = (stale \/ cur \notin {None, c})
OnDisconnected(c) ==
    /\ ui' = IF ui \in {"Connect", "Failed"} THEN ui ELSE "Failed"
    /\ cur' = None
    /\ stale' = (stale \/ cur \notin {None, c})

\* Connected, after the TLS handshake; a client closed meanwhile has no
\* coroutines left, its reader loop is not entered, and its delayed close may
\* have found no socket yet.
Opened(c) ==
    /\ k[c].sock = "connecting"
    /\ \E sock \in IF k[c].closed THEN {"up", "left"} ELSE {"up"} :
         k' = [k EXCEPT ![c].sock = sock, ![c].sess = "HELLO",
                        ![c].reader = IF k[c].closed THEN "done" ELSE "run",
                        ![c].pinging = ~k[c].closed,
                        ![c].out = IF k[c].closed THEN <<>> ELSE @]
    /\ UNCHANGED <<ui, cur, token, made, stale>>

\* Variant: the listener is not told.
OpenFailsQuiet(c) ==
    /\ k[c].sock = "connecting"
    /\ k' = [k EXCEPT ![c].sock = "down"]
    /\ UNCHANGED <<ui, cur, token, made, stale>>
OpenFails(c) ==
    /\ k[c].sock = "connecting"
    /\ k' = [k EXCEPT ![c].sock = "down"]
    /\ \/ k[c].closed /\ UNCHANGED <<ui, cur, stale>>
       \/ ~k[c].closed /\ OnDisconnected(c)
    /\ UNCHANGED <<token, made>>

\* handleControl and the listener.  The reader looks at `closed` before it
\* blocks in readFrame, so one message is still handled after disconnect().
Received(c) == [k EXCEPT ![c].in = Tail(@),
                         ![c].reader = IF k[c].closed THEN "done" ELSE "run"]
ReaderTakes(c) ==
    /\ k[c].reader = "run" /\ k[c].in # <<>>
    /\ LET m == Head(k[c].in) IN
       \/ /\ m = "auth_required" /\ token
          /\ k' = Sent(Received(c), cur, "token")
          /\ UNCHANGED <<ui, token>>
       \/ /\ m = "auth_required" /\ ~token
          /\ ui' = "PairingPin"
          /\ k' = Received(c) /\ UNCHANGED token
       \/ /\ m \in {"auth_ok", "paired"}
          /\ token' = (token \/ m = "paired")
          /\ ui' = "Connecting"
          /\ k' = Sent(Received(c), cur, "start")
       \/ /\ m \in {"unknown_token", "bad_pin", "error"}
          /\ token' = (token /\ m # "unknown_token")
          /\ ui' = "Failed"
          /\ k' = Received(c)
       \/ /\ m = "started"
          /\ ui' = "Streaming"
          /\ k' = Received(c) /\ UNCHANGED token
    /\ stale' = (stale \/ cur # c)
    /\ UNCHANGED <<cur, made>>

\* The read fails or times out.  A server that waits for the portal's dialog
\* is silent.
Over(c) == k[c].sock = "down" \/ k[c].sess = "CLOSED"
ReaderEnds(c) ==
    /\ k[c].reader = "run"
    /\ k[c].in = <<>> /\ (Over(c) \/ k[c].sess = "STARTING")
    /\ k' = [k EXCEPT ![c].reader = IF k[c].closed THEN "done" ELSE "failing"]
    /\ UNCHANGED <<ui, cur, token, made, stale>>

\* ... and is reported, whatever happened since `closed` was looked at.
ReaderReports(c) ==
    /\ k[c].reader = "failing"
    /\ k' = [k EXCEPT ![c].reader = "done"]
    /\ OnDisconnected(c)
    /\ UNCHANGED <<token, made>>

\* Bound: one ping waits to be sent.
Ping(c) ==
    /\ k[c].pinging /\ k[c].sock = "up" /\ k[c].sess # "CLOSED"
    /\ \A i \in DOMAIN k[c].out : k[c].out[i] # "ping"
    /\ k' = Sent(k, c, "ping")
    /\ UNCHANGED <<ui, cur, token, made, stale>>

\* Six seconds without anything read: disconnect, a reader that has ended
\* included.
\* Variant: the loop looks at the socket only.
SilentSocket(c) == k[c].sock = "down"
Silent(c) == \/ k[c].reader # "run"
             \/ k[c].in = <<>> /\ (Over(c) \/ k[c].sess = "STARTING")
PingGivesUp(c) ==
    /\ k[c].pinging /\ Silent(c)
    /\ k' = Closing(c)
    /\ OnDisconnected(c)
    /\ UNCHANGED <<token, made>>

\* 150 ms after disconnect() the socket is closed.
SocketCloses(c) ==
    /\ k[c].closed /\ k[c].sock = "up"
    /\ k' = [k EXCEPT ![c].sock = "down", ![c].out = <<>>, ![c].in = <<>>]
    /\ UNCHANGED <<ui, cur, token, made, stale>>

ConnectionLost(c) ==
    /\ k[c].sock = "up"
    /\ k' = [k EXCEPT ![c].sock = "down", ![c].out = <<>>, ![c].in = <<>>]
    /\ UNCHANGED <<ui, cur, token, made, stale>>

-----------------------------------------------------------------------------
(* The server's session of client c.                                       *)

Reply(c, m, sess, answer) ==
    /\ Head(k[c].out) = m
    /\ k' = [k EXCEPT ![c].out = IF sess = "CLOSED" THEN <<>> ELSE Tail(@),
                      ![c].sess = sess,
                      ![c].in = IF k[c].sock = "up" THEN @ \o answer ELSE @]

\* Before auth_ok anything but the one message expected closes the session.
Expected(c) == CASE k[c].sess = "HELLO" -> {"hello"}
                 [] k[c].sess = "AUTH" -> {"token", "pin"}
                 [] OTHER -> ToServer
Violates(c) == k[c].out # <<>> /\ Head(k[c].out) \notin Expected(c)

SessionTakes(c) ==
    /\ k[c].sess \in {"HELLO", "AUTH", "READY", "STREAMING"} /\ k[c].out # <<>>
    /\ LET m == Head(k[c].out) IN
       \/ Violates(c) /\ Reply(c, m, "CLOSED", <<>>)
       \/ k[c].sess = "HELLO" /\ Reply(c, "hello", "AUTH", <<"auth_required">>)
       \/ /\ k[c].sess = "AUTH"
          /\ \/ Reply(c, "token", "READY", <<"auth_ok">>)
             \/ Reply(c, "token", "CLOSED", <<"unknown_token">>)
             \/ Reply(c, "pin", "READY", <<"paired">>)
             \/ Reply(c, "pin", "CLOSED", <<"bad_pin">>)
       \/ /\ k[c].sess \in {"READY", "STREAMING"}
          /\ \/ Reply(c, "start", "STARTING", <<>>)
             \/ Reply(c, "bye", "CLOSED", <<>>)
             \/ m \notin {"start", "bye"} /\ Reply(c, m, k[c].sess, <<>>)
    /\ UNCHANGED <<ui, cur, token, made, stale>>

\* The capture starts, cannot be started, or start() raises.
SessionStarted(c) ==
    /\ k[c].sess = "STARTING"
    /\ \E r \in {<<"STREAMING", <<"started">>>>, <<"READY", <<"error">>>>,
                 <<"CLOSED", <<>>>>} :
         k' = [k EXCEPT ![c].sess = r[1],
                        ![c].out = IF r[1] = "CLOSED" THEN <<>> ELSE @,
                        ![c].in = IF k[c].sock = "up" THEN @ \o r[2] ELSE @]
    /\ UNCHANGED <<ui, cur, token, made, stale>>

\* The server's own six seconds of silence, or the end of the connection.
SessionTimesOut(c) ==
    /\ k[c].sess \in {"HELLO", "AUTH", "READY", "STREAMING"}
    /\ k[c].out = <<>> /\ (k[c].sock = "down" \/ ~k[c].pinging)
    /\ k' = [k EXCEPT ![c].sess = "CLOSED"]
    /\ UNCHANGED <<ui, cur, token, made, stale>>

-----------------------------------------------------------------------------
User == ConnectTo \/ SubmitPin \/ Disconnect
Reader(c) == ReaderTakes(c) \/ ReaderReports(c)
Server(c) == SessionTakes(c) \/ SessionStarted(c)

Next == \/ User
        \/ \E c \in Ids : \/ Opened(c) \/ OpenFails(c) \/ Reader(c) \/ ReaderEnds(c)
                          \/ Ping(c) \/ PingGivesUp(c) \/ SocketCloses(c)
                          \/ ConnectionLost(c) \/ Server(c) \/ SessionTimesOut(c)

Spec == Init /\ [][Next]_vars

\* Threads, coroutines and the server's tasks run, and every wait of theirs
\* has a timeout.  Nothing is assumed of the user and of the network.
FairSpec ==
    /\ Spec
    /\ \A c \in Ids : /\ WF_vars(Opened(c) \/ OpenFails(c))
                      /\ WF_vars(Reader(c)) /\ WF_vars(ReaderEnds(c))
                      /\ WF_vars(PingGivesUp(c)) /\ WF_vars(SocketCloses(c))
                      /\ WF_vars(Server(c)) /\ WF_vars(SessionTimesOut(c))

-----------------------------------------------------------------------------
(* Properties.                                                             *)

Alive(c) == k[c].sess \notin {"none", "CLOSED"}

\* A session that is not the view model's any more ends: the PC is not
\* captured for nobody, as long as no client was orphaned.
UnusedSessionsEnd ==
    \A c \in Ids : Alive(c) /\ cur # c ~> ~Alive(c) \/ stale

\* "Connecting" is not for ever: the app streams, asks for the PIN or fails; and
\* the "App shows the disconnect" (docs/MANUAL_TEST.md:145): the stream screen
\* is left when no session is alive.
ScreensMoveOn ==
    /\ ui = "Connecting" ~> ui # "Connecting" \/ stale
    /\ (ui = "Streaming" /\ \A c \in Ids : ~Alive(c)) ~> (ui # "Streaming" \/ stale)

\* The screen that shows a stream, or asks for a PIN, has a client whose
\* buttons work, and which has not been closed.
ScreenHasClient == ui \in {"Streaming", "PairingPin"} /\ ~stale => cur # None

\* The app can send the PIN the user is asked for: it has not itself broken
\* the rule that only hello and auth come before auth_ok
\* (docs/PROTOCOL.md:53-54).
PinCanBeSent == \A c \in Ids : ui = "PairingPin" /\ cur = c /\ Alive(c) => ~Violates(c)
=============================================================================
