----------------------------- MODULE ClientProofs -----------------------------
(***************************************************************************)
(* What holds of Client for any number of attempts to connect: the types,  *)
(* and that a screen with buttons has the client they need.                *)
(***************************************************************************)
EXTENDS Client, TLAPS

Socks == {"none", "connecting", "up", "down", "left"}
Readers == {"none", "run", "failing", "done"}
Sessions == {"none", "HELLO", "AUTH", "READY", "STARTING", "STREAMING", "CLOSED"}

\* The types, and which client is where.
Typed ==
    /\ ui \in Screens /\ token \in BOOLEAN /\ stale \in BOOLEAN
    /\ made \in 0..MaxClients
    /\ k \in [Ids -> Clients]

Unused(o) == ~o.closed /\ ~o.pinging /\ o.reader = "none" /\ o.sess = "none"

Known ==
    /\ cur \in 0..made
    /\ cur # None => ~k[cur].closed
    /\ \A c \in Ids : c > made <=> k[c].sock = "none"
    /\ \A c \in Ids : k[c].sock = "none" => Unused(k[c])

CInv == Typed /\ Known /\ ScreenHasClient

LEMMA InitCInv == Init => CInv
  <1> SUFFICES ASSUME Init PROVE CInv
    OBVIOUS
  <1> DEFINE new == [sock |-> "none", closed |-> FALSE, pinging |-> FALSE, reader |-> "none",
                     out |-> <<>>, in |-> <<>>, sess |-> "none"]
  <1>1. <<>> \in Seq(ToServer) /\ <<>> \in Seq(ToClient) OBVIOUS
  <1>2. new \in Clients BY <1>1 DEF Clients
  <1>3. /\ ui = "Connect" /\ cur = None /\ made = 0
        /\ token \in BOOLEAN /\ stale \in BOOLEAN
    BY DEF Init
  <1>8. k = [c \in Ids |-> new] BY DEF Init
  <1>4. new.sock = "none" /\ Unused(new) BY DEF Unused
  <1> HIDE DEF new
  <1>5. Typed BY <1>2, <1>3, <1>8, ClientAssumption DEF Typed, Screens
  <1>6. Known BY <1>3, <1>4, <1>8 DEF Known, Ids, None
  <1>7. ScreenHasClient BY <1>3 DEF ScreenHasClient
  <1> QED BY <1>5, <1>6, <1>7 DEF CInv

\* A client with one or the other of its parts replaced.
LEMMA Parts ==
    ASSUME NEW o \in Clients
    PROVE  /\ o.sock \in Socks /\ o.closed \in BOOLEAN /\ o.pinging \in BOOLEAN
           /\ o.reader \in Readers /\ o.out \in Seq(ToServer) /\ o.in \in Seq(ToClient)
           /\ o.sess \in Sessions
  BY DEF Clients, Socks, Readers, Sessions

\* Sent leaves everything but the messages to the server alone.
LEMMA SentParts ==
    ASSUME NEW K \in [Ids -> Clients], NEW c \in Ids \cup {None}, NEW m \in ToServer
    PROVE  /\ Sent(K, c, m) \in [Ids -> Clients]
           /\ \A i \in Ids : /\ i # c => Sent(K, c, m)[i] = K[i]
                             /\ Sent(K, c, m)[i].sock = K[i].sock
                             /\ Sent(K, c, m)[i].closed = K[i].closed
  <1>1. CASE c = None \/ K[c].sess = "CLOSED" BY <1>1 DEF Sent
  <1>2. CASE c # None /\ K[c].sess # "CLOSED"
    <2>1. c \in Ids BY <1>2
    <2>2. K[c] \in Clients BY <2>1
    <2>3. Append(K[c].out, m) \in Seq(ToServer) BY <2>2, Parts
    <2>4. Sent(K, c, m) = [K EXCEPT ![c].out = Append(K[c].out, m)] BY <1>2 DEF Sent
    <2>5. [K[c] EXCEPT !.out = Append(K[c].out, m)] \in Clients
          /\ [K[c] EXCEPT !.out = Append(K[c].out, m)].sock = K[c].sock
          /\ [K[c] EXCEPT !.out = Append(K[c].out, m)].closed = K[c].closed
      BY <2>2, <2>3 DEF Clients
    <2> QED BY <2>1, <2>4, <2>5
  <1> QED BY <1>1, <1>2

\* A step that keeps who is known and who is closed.
LEMMA KeepsKnown ==
    ASSUME CInv, UNCHANGED <<cur, made>>, k' \in [Ids -> Clients],
           \A i \in Ids : /\ k'[i].sock = "none" <=> k[i].sock = "none"
                          /\ i = cur => k'[i].closed = k[i].closed
                          /\ k[i].sock = "none" => k'[i] = k[i]
    PROVE  Known'
  BY ClientAssumption DEF CInv, Typed, Known, Ids, None

\* A step after which the view model has no client.
LEMMA KeepsNone ==
    ASSUME CInv, made' = made, cur' = None, k' \in [Ids -> Clients],
           \A i \in Ids : /\ k'[i].sock = "none" <=> k[i].sock = "none"
                          /\ k[i].sock = "none" => k'[i] = k[i]
    PROVE  Known'
  BY ClientAssumption DEF CInv, Typed, Known, Ids, None

LEMMA ClosingParts ==
    ASSUME CInv, NEW c \in Ids
    PROVE  /\ Closing(c) \in [Ids -> Clients]
           /\ \A i \in Ids : /\ Closing(c)[i].sock = k[i].sock
                             /\ i # c => Closing(c)[i] = k[i]
  <1> DEFINE K == [k EXCEPT ![c].closed = TRUE, ![c].pinging = FALSE]
             o == [k[c] EXCEPT !.closed = TRUE, !.pinging = FALSE]
  <1>1. k \in [Ids -> Clients] /\ k[c] \in Clients BY DEF CInv, Typed
  <1>2. o \in Clients /\ o.sock = k[c].sock BY <1>1 DEF Clients
  <1>3. K = [k EXCEPT ![c] = o] BY <1>1
  <1> HIDE DEF o
  <1>4. /\ K \in [Ids -> Clients]
        /\ \A i \in Ids : K[i].sock = k[i].sock /\ (i # c => K[i] = k[i])
    BY <1>1, <1>2, <1>3
  <1>5. Closing(c) = Sent(K, c, "bye") BY DEF Closing
  <1>6. "bye" \in ToServer BY DEF ToServer
  <1> HIDE DEF K
  <1> QED BY <1>4, <1>5, <1>6, SentParts

LEMMA UserCInv == CInv /\ User => CInv'
  <1> SUFFICES ASSUME CInv, User PROVE CInv'
    OBVIOUS
  <1>0. k \in [Ids -> Clients] /\ cur \in Ids \cup {None} /\ made \in 0..MaxClients
        /\ MaxClients \in Nat
    BY ClientAssumption DEF CInv, Typed, Known, Ids, None
  <1>1. CASE ConnectTo
    <2> DEFINE n == made + 1
               o == [k[n] EXCEPT !.sock = "connecting", !.out = <<"hello">>]
    <2>1. n \in Ids /\ made' = n /\ cur' = n /\ n # None
      BY <1>0, <1>1 DEF ConnectTo, Ids, None
    <2>2. k[n] \in Clients BY <1>0, <2>1
    <2>3. <<"hello">> \in Seq(ToServer) BY DEF ToServer
    <2>4. o \in Clients /\ o.sock = "connecting" /\ o.closed = k[n].closed
      BY <2>2, <2>3 DEF Clients
    <2>5. k' = [k EXCEPT ![n] = o] BY <1>0, <1>1, <2>1 DEF ConnectTo
    <2> HIDE DEF o
    <2>6. Typed' BY <1>0, <1>1, <2>1, <2>4, <2>5 DEF ConnectTo, CInv, Typed, Ids, Screens
    <2>7. \A c \in Ids : c > n <=> k'[c].sock = "none"
      BY <1>0, <2>1, <2>4, <2>5 DEF CInv, Known, Ids
    <2>8. ScreenHasClient' BY <2>1 DEF ScreenHasClient
    <2>9. ~k'[n].closed /\ k'[n].sock # "none"
      <3>1. k[n].sock = "none" BY <1>0, <2>1 DEF CInv, Known, Ids
      <3> QED BY <1>0, <2>1, <2>4, <2>5, <3>1 DEF CInv, Known, Unused
    <2>10. \A c \in Ids : k'[c].sock = "none" => Unused(k'[c])
      BY <1>0, <2>1, <2>5, <2>9 DEF CInv, Known
    <2>11. Known' BY <1>0, <2>1, <2>7, <2>9, <2>10 DEF Known, Ids
    <2> QED BY <2>6, <2>8, <2>11 DEF CInv
  <1>2. CASE SubmitPin
    <2>1. k' = Sent(k, cur, "pin") /\ UNCHANGED <<cur, token, made, stale>>
          /\ ui' = "Connecting"
      BY <1>2 DEF SubmitPin
    <2>2. "pin" \in ToServer BY DEF ToServer
    <2>3. /\ k' \in [Ids -> Clients]
          /\ \A i \in Ids : /\ k'[i].sock = k[i].sock /\ k'[i].closed = k[i].closed
                            /\ i # cur => k'[i] = k[i]
      BY <1>0, <2>1, <2>2, SentParts
    <2>7. \A i \in Ids : k[i].sock = "none" => i # cur BY <1>0 DEF CInv, Known, Ids
    <2>4. Typed' BY <2>1, <2>3 DEF CInv, Typed, Screens
    <2>5. Known' BY <2>1, <2>3, <2>7, KeepsKnown
    <2>6. ScreenHasClient' BY <2>1 DEF ScreenHasClient
    <2> QED BY <2>4, <2>5, <2>6 DEF CInv
  <1>3. CASE Disconnect
    <2>1. /\ ui' = "Connect" /\ cur' = None /\ UNCHANGED <<token, made, stale>>
          /\ k' = IF cur = None THEN k ELSE Closing(cur)
      BY <1>3 DEF Disconnect
    <2>2. /\ k' \in [Ids -> Clients]
          /\ \A i \in Ids : k'[i].sock = k[i].sock /\ (i # cur => k'[i] = k[i])
      BY <1>0, <2>1, ClosingParts
    <2>6. \A i \in Ids : k[i].sock = "none" => i # cur
      BY <1>0 DEF CInv, Known, Ids
    <2>3. Typed' BY <2>1, <2>2 DEF CInv, Typed, Screens
    <2>4. Known' BY <2>1, <2>2, <2>6, KeepsNone
    <2>5. ScreenHasClient' BY <2>1 DEF ScreenHasClient
    <2> QED BY <2>3, <2>4, <2>5 DEF CInv
  <1> QED BY <1>1, <1>2, <1>3 DEF User

\* A client c that lives may be replaced by one that differs in its parts but
\* the flag `closed`.
LEMMA OnePart ==
    ASSUME CInv, NEW c \in Ids, NEW o \in Clients, k' = [k EXCEPT ![c] = o],
           k[c].sock # "none", o.sock # "none", o.closed = k[c].closed
    PROVE  /\ k' \in [Ids -> Clients]
           /\ \A i \in Ids : /\ k'[i].sock = "none" <=> k[i].sock = "none"
                             /\ k'[i].closed = k[i].closed
                             /\ k[i].sock = "none" => k'[i] = k[i]
  BY DEF CInv, Typed

LEMMA KeepsCInv ==
    ASSUME CInv, NEW c \in Ids, NEW o \in Clients, k' = [k EXCEPT ![c] = o],
           k[c].sock # "none", o.sock # "none", o.closed = k[c].closed,
           UNCHANGED <<ui, cur, token, made, stale>>
    PROVE  CInv'
  <1>1. /\ k' \in [Ids -> Clients]
        /\ \A i \in Ids : /\ k'[i].sock = "none" <=> k[i].sock = "none"
                          /\ k'[i].closed = k[i].closed
                          /\ k[i].sock = "none" => k'[i] = k[i]
    BY OnePart
  <1>2. Typed' BY <1>1 DEF CInv, Typed
  <1>3. Known' BY <1>1, KeepsKnown
  <1>4. ScreenHasClient' BY DEF CInv, ScreenHasClient
  <1> QED BY <1>2, <1>3, <1>4 DEF CInv

\* onDisconnected, after which nothing shows a client.
LEMMA DisconnectedCInv ==
    ASSUME CInv, NEW c \in Ids, OnDisconnected(c), UNCHANGED <<token, made>>,
           k' \in [Ids -> Clients],
           \A i \in Ids : /\ k'[i].sock = "none" <=> k[i].sock = "none"
                          /\ k[i].sock = "none" => k'[i] = k[i]
    PROVE  CInv'
  <1>1. cur' = None /\ ui' \in {"Connect", "Failed"} /\ stale' \in BOOLEAN
    BY DEF OnDisconnected, CInv, Typed
  <1>2. Typed' BY <1>1 DEF CInv, Typed, Screens
  <1>3. Known' BY <1>1, KeepsNone
  <1>4. ScreenHasClient' BY <1>1 DEF ScreenHasClient
  <1> QED BY <1>2, <1>3, <1>4 DEF CInv

LEMMA SocketCInv ==
    ASSUME CInv, NEW c \in Ids, Opened(c) \/ OpenFails(c) \/ SocketCloses(c)
                                \/ ConnectionLost(c)
    PROVE  CInv'
  <1>0. k \in [Ids -> Clients] /\ k[c] \in Clients BY DEF CInv, Typed
  <1>empty. <<>> \in Seq(ToServer) /\ <<>> \in Seq(ToClient) OBVIOUS
  <1>1. CASE Opened(c)
    <2>0. PICK sock \in IF k[c].closed THEN {"up", "left"} ELSE {"up"} :
             k' = [k EXCEPT ![c].sock = sock, ![c].sess = "HELLO",
                            ![c].reader = IF k[c].closed THEN "done" ELSE "run",
                            ![c].pinging = ~k[c].closed,
                            ![c].out = IF k[c].closed THEN <<>> ELSE k[c].out]
      BY <1>1 DEF Opened
    <2>sock. sock \in Socks /\ sock # "none" BY DEF Socks
    <2> DEFINE o == [k[c] EXCEPT !.sock = sock, !.sess = "HELLO",
                                 !.reader = IF k[c].closed THEN "done" ELSE "run",
                                 !.pinging = ~k[c].closed,
                                 !.out = IF k[c].closed THEN <<>> ELSE k[c].out]
    <2>1. (~k[c].closed) \in BOOLEAN OBVIOUS
    <2>2. (IF k[c].closed THEN "done" ELSE "run") \in Readers BY DEF Readers
    <2>3. (IF k[c].closed THEN <<>> ELSE k[c].out) \in Seq(ToServer)
      BY <1>0, <1>empty, Parts
    <2>4. o \in Clients /\ o.sock = sock /\ o.closed = k[c].closed
      BY <1>0, <2>1, <2>2, <2>3, <2>sock DEF Clients, Readers, Socks
    <2>5. k' = [k EXCEPT ![c] = o] /\ k[c].sock = "connecting"
          /\ UNCHANGED <<ui, cur, token, made, stale>>
      BY <1>0, <1>1, <2>0 DEF Opened
    <2> HIDE DEF o
    <2> QED BY <2>4, <2>5, <2>sock, KeepsCInv
  <1>2. CASE SocketCloses(c) \/ ConnectionLost(c)
    <2> DEFINE o == [k[c] EXCEPT !.sock = "down", !.out = <<>>, !.in = <<>>]
    <2>1. o \in Clients /\ o.sock = "down" /\ o.closed = k[c].closed
      BY <1>0, <1>empty DEF Clients
    <2>2. k' = [k EXCEPT ![c] = o] /\ k[c].sock = "up"
          /\ UNCHANGED <<ui, cur, token, made, stale>>
      BY <1>0, <1>2 DEF SocketCloses, ConnectionLost
    <2> HIDE DEF o
    <2> QED BY <2>1, <2>2, KeepsCInv
  <1>3. CASE OpenFails(c)
    <2> DEFINE o == [k[c] EXCEPT !.sock = "down"]
    <2>1. o \in Clients /\ o.sock = "down" /\ o.closed = k[c].closed
      BY <1>0 DEF Clients
    <2>2. k' = [k EXCEPT ![c] = o] /\ k[c].sock = "connecting" /\ UNCHANGED <<token, made>>
      BY <1>0, <1>3 DEF OpenFails
    <2> HIDE DEF o
    <2>3. CASE UNCHANGED <<ui, cur, stale>> BY <2>1, <2>2, <2>3, KeepsCInv
    <2>4. CASE OnDisconnected(c)
      <3>1. /\ k' \in [Ids -> Clients]
            /\ \A i \in Ids : /\ k'[i].sock = "none" <=> k[i].sock = "none"
                              /\ k[i].sock = "none" => k'[i] = k[i]
        BY <2>1, <2>2, OnePart
      <3> QED BY <2>2, <2>4, <3>1, DisconnectedCInv
    <2> QED BY <1>3, <2>3, <2>4 DEF OpenFails
  <1> QED BY <1>1, <1>2, <1>3

LEMMA ReaderCInv ==
    ASSUME CInv, NEW c \in Ids, ReaderTakes(c)
    PROVE  CInv'
  <1>0. /\ k \in [Ids -> Clients] /\ k[c] \in Clients /\ token \in BOOLEAN
        /\ stale \in BOOLEAN /\ cur \in Ids \cup {None} /\ c # None
        /\ made \in 0..MaxClients /\ MaxClients \in Nat
    BY ClientAssumption DEF CInv, Typed, Known, Ids, None
  <1> DEFINE o == [k[c] EXCEPT !.in = Tail(k[c].in),
                               !.reader = IF k[c].closed THEN "done" ELSE "run"]
  <1>1. k[c].in # <<>> /\ Tail(k[c].in) \in Seq(ToClient)
    BY <1>0, Parts DEF ReaderTakes
  <1>2. (IF k[c].closed THEN "done" ELSE "run") \in Readers BY DEF Readers
  <1>3. o \in Clients /\ o.sock = k[c].sock /\ o.closed = k[c].closed
    BY <1>0, <1>1, <1>2 DEF Clients, Readers
  <1>4. Received(c) = [k EXCEPT ![c] = o] BY <1>0 DEF Received
  <1> HIDE DEF o
  <1>5. /\ Received(c) \in [Ids -> Clients]
        /\ \A i \in Ids : /\ Received(c)[i].sock = k[i].sock
                          /\ Received(c)[i].closed = k[i].closed
                          /\ i # c => Received(c)[i] = k[i]
    BY <1>0, <1>3, <1>4
  <1>6. "token" \in ToServer /\ "start" \in ToServer BY DEF ToServer
  <1>7. /\ k' = Received(c) \/ k' = Sent(Received(c), cur, "token")
           \/ k' = Sent(Received(c), cur, "start")
        /\ UNCHANGED <<cur, made>> /\ ui' \in Screens /\ token' \in BOOLEAN
        /\ stale' = (stale \/ cur # c)
    BY <1>0 DEF ReaderTakes, Screens, CInv, Typed
  <1>8. /\ k' \in [Ids -> Clients]
        /\ \A i \in Ids : /\ k'[i].sock = k[i].sock /\ k'[i].closed = k[i].closed
                          /\ i \notin {c, cur} => k'[i] = k[i]
    <2> DEFINE K == Received(c)
    <2>1. CASE k' = K BY <1>5, <2>1
    <2>2. ASSUME NEW m \in ToServer, k' = Sent(K, cur, m)
          PROVE  /\ k' \in [Ids -> Clients]
                 /\ \A i \in Ids : /\ k'[i].sock = K[i].sock /\ k'[i].closed = K[i].closed
                                   /\ i # cur => k'[i] = K[i]
      <3> HIDE DEF K
      <3>1. K \in [Ids -> Clients] BY <1>5 DEF K
      <3> QED BY <1>0, <2>2, <3>1, SentParts
    <2>3. CASE k' = Sent(K, cur, "token") BY <1>5, <1>6, <2>2, <2>3
    <2>4. CASE k' = Sent(K, cur, "start") BY <1>5, <1>6, <2>2, <2>4
    <2> QED BY <1>7, <2>1, <2>3, <2>4
  <1>13. \A i \in Ids : k[i].sock = "none" => i \notin {c, cur}
    <2>1. k[c].reader = "run" BY DEF ReaderTakes
    <2> QED BY <1>0, <2>1 DEF CInv, Known, Ids, Unused
  <1>9. stale' \in BOOLEAN BY <1>7
  <1>10. Typed' BY <1>7, <1>8, <1>9 DEF CInv, Typed
  <1>11. Known' BY <1>7, <1>8, <1>13, KeepsKnown
  <1>12. ScreenHasClient'
    <2>1. CASE cur = c BY <1>0, <1>7, <2>1 DEF ScreenHasClient
    <2>2. CASE cur # c BY <1>7, <2>2 DEF ScreenHasClient
    <2> QED BY <2>1, <2>2
  <1> QED BY <1>10, <1>11, <1>12 DEF CInv

LEMMA EndCInv ==
    ASSUME CInv, NEW c \in Ids, ReaderEnds(c) \/ ReaderReports(c) \/ Ping(c) \/ PingGivesUp(c)
    PROVE  CInv'
  <1>0. k \in [Ids -> Clients] /\ k[c] \in Clients BY DEF CInv, Typed
  <1>6. k[c].sock # "none"
    BY <1>0 DEF ReaderEnds, ReaderReports, Ping, PingGivesUp, CInv, Known, Unused
  <1>1. ASSUME NEW r \in Readers
        PROVE  /\ [k[c] EXCEPT !.reader = r] \in Clients
               /\ [k[c] EXCEPT !.reader = r].sock = k[c].sock
               /\ [k[c] EXCEPT !.reader = r].closed = k[c].closed
    BY <1>0 DEF Clients, Readers
  <1>2. CASE ReaderEnds(c)
    <2> DEFINE r == IF k[c].closed THEN "done" ELSE "failing"
    <2>1. r \in Readers BY DEF Readers
    <2>2. k' = [k EXCEPT ![c] = [k[c] EXCEPT !.reader = r]]
          /\ UNCHANGED <<ui, cur, token, made, stale>>
      BY <1>0, <1>2 DEF ReaderEnds
    <2> HIDE DEF r
    <2> QED BY <1>1, <1>6, <2>1, <2>2, KeepsCInv
  <1>3. CASE ReaderReports(c)
    <2>1. k' = [k EXCEPT ![c] = [k[c] EXCEPT !.reader = "done"]]
          /\ OnDisconnected(c) /\ UNCHANGED <<token, made>>
      BY <1>0, <1>3 DEF ReaderReports
    <2>2. "done" \in Readers BY DEF Readers
    <2>3. /\ k' \in [Ids -> Clients]
          /\ \A i \in Ids : /\ k'[i].sock = "none" <=> k[i].sock = "none"
                            /\ k[i].sock = "none" => k'[i] = k[i]
      BY <1>1, <1>6, <2>1, <2>2, OnePart
    <2> QED BY <2>1, <2>3, DisconnectedCInv
  <1>4. CASE Ping(c)
    <2>1. k' = Sent(k, c, "ping") /\ UNCHANGED <<ui, cur, token, made, stale>>
      BY <1>4 DEF Ping
    <2>2. "ping" \in ToServer BY DEF ToServer
    <2>3. /\ k' \in [Ids -> Clients]
          /\ \A i \in Ids : /\ k'[i].sock = k[i].sock /\ k'[i].closed = k[i].closed
                            /\ i # c => k'[i] = k[i]
      BY <1>0, <2>1, <2>2, SentParts
    <2>4. Typed' /\ ScreenHasClient'
      BY <2>1, <2>3 DEF CInv, Typed, ScreenHasClient
    <2>5. Known' BY <1>6, <2>1, <2>3, KeepsKnown
    <2> QED BY <2>4, <2>5 DEF CInv
  <1>5. CASE PingGivesUp(c)
    <2>1. k' = Closing(c) /\ OnDisconnected(c) /\ UNCHANGED <<token, made>>
      BY <1>5 DEF PingGivesUp
    <2>2. /\ k' \in [Ids -> Clients]
          /\ \A i \in Ids : k'[i].sock = k[i].sock /\ (i # c => k'[i] = k[i])
      BY <2>1, ClosingParts
    <2> QED BY <1>6, <2>1, <2>2, DisconnectedCInv
  <1> QED BY <1>2, <1>3, <1>4, <1>5

\* A session is only of a client with a socket, and changes its own queues.
LEMMA ServerCInv ==
    ASSUME CInv, NEW c \in Ids, Server(c) \/ SessionTimesOut(c)
    PROVE  CInv'
  <1>0. k \in [Ids -> Clients] /\ k[c] \in Clients BY DEF CInv, Typed
  <1>1. k[c].sock # "none" /\ UNCHANGED <<ui, cur, token, made, stale>>
    BY <1>0 DEF Server, SessionTakes, SessionStarted, SessionTimesOut, CInv, Known, Unused
  <1>empty. <<>> \in Seq(ToServer) OBVIOUS
  <1>2. ASSUME NEW out \in Seq(ToServer), NEW sess \in Sessions, NEW in \in Seq(ToClient),
               k' = [k EXCEPT ![c].out = out, ![c].sess = sess, ![c].in = in]
        PROVE  CInv'
    <2> DEFINE o == [k[c] EXCEPT !.out = out, !.sess = sess, !.in = in]
    <2>1. o \in Clients /\ o.sock = k[c].sock /\ o.closed = k[c].closed
      BY <1>0 DEF Clients, Sessions
    <2>2. k' = [k EXCEPT ![c] = o] BY <1>0, <1>2
    <2> HIDE DEF o
    <2> QED BY <1>1, <2>1, <2>2, KeepsCInv
  <1>3. ASSUME NEW answer \in Seq(ToClient)
        PROVE  (IF k[c].sock = "up" THEN k[c].in \o answer ELSE k[c].in) \in Seq(ToClient)
    BY <1>0, Parts
  <1>4. CASE SessionTimesOut(c)
    <2> DEFINE o == [k[c] EXCEPT !.sess = "CLOSED"]
    <2>1. o \in Clients /\ o.sock = k[c].sock /\ o.closed = k[c].closed
      BY <1>0 DEF Clients
    <2>2. k' = [k EXCEPT ![c] = o] BY <1>0, <1>4 DEF SessionTimesOut
    <2> HIDE DEF o
    <2> QED BY <1>1, <2>1, <2>2, KeepsCInv
  <1>5. CASE SessionStarted(c)
    <2>1. PICK r \in {<<"STREAMING", <<"started">>>>, <<"READY", <<"error">>>>,
                      <<"CLOSED", <<>>>>} :
            k' = [k EXCEPT ![c].sess = r[1],
                           ![c].out = IF r[1] = "CLOSED" THEN <<>> ELSE k[c].out,
                           ![c].in = IF k[c].sock = "up" THEN k[c].in \o r[2] ELSE k[c].in]
      BY <1>0, <1>5 DEF SessionStarted
    <2> DEFINE out == IF r[1] = "CLOSED" THEN <<>> ELSE k[c].out
               in == IF k[c].sock = "up" THEN k[c].in \o r[2] ELSE k[c].in
    <2>2. r[1] \in Sessions BY DEF Sessions
    <2>3. r[2] \in Seq(ToClient)
      <3>1. /\ <<"started">> \in Seq(ToClient) /\ <<"error">> \in Seq(ToClient)
            /\ <<>> \in Seq(ToClient)
        BY DEF ToClient
      <3>2. r[2] \in {<<"started">>, <<"error">>, <<>>} OBVIOUS
      <3> QED BY <3>1, <3>2
    <2>4. out \in Seq(ToServer) BY <1>0, <1>empty, Parts
    <2>5. in \in Seq(ToClient) BY <1>3, <2>3
    <2>6. k' = [k EXCEPT ![c].out = out, ![c].sess = r[1], ![c].in = in] BY <1>0, <2>1
    <2> HIDE DEF out, in
    <2> QED BY <1>2, <2>2, <2>4, <2>5, <2>6
  <1>6. ASSUME NEW m \in ToServer, NEW sess \in Sessions, NEW answer \in Seq(ToClient),
               k[c].out # <<>>, Reply(c, m, sess, answer)
        PROVE  CInv'
    <2> DEFINE out == IF sess = "CLOSED" THEN <<>> ELSE Tail(k[c].out)
               in == IF k[c].sock = "up" THEN k[c].in \o answer ELSE k[c].in
    <2>1. out \in Seq(ToServer) BY <1>0, <1>empty, <1>6, Parts
    <2>2. in \in Seq(ToClient) BY <1>3
    <2>3. k' = [k EXCEPT ![c].out = out, ![c].sess = sess, ![c].in = in]
      BY <1>0, <1>6 DEF Reply
    <2> HIDE DEF out, in
    <2> QED BY <1>2, <2>1, <2>2, <2>3
  <1>7. CASE SessionTakes(c)
    <2> DEFINE m == Head(k[c].out)
    <2>1. k[c].out # <<>> /\ m \in ToServer
      BY <1>0, <1>7, Parts DEF SessionTakes
    <2>2. {"hello", "token", "pin", "start", "bye"} \subseteq ToServer BY DEF ToServer
    <2>3. {"HELLO", "AUTH", "READY", "STARTING", "STREAMING", "CLOSED"} \subseteq Sessions
      BY DEF Sessions
    <2>4. /\ <<>> \in Seq(ToClient) /\ <<"auth_required">> \in Seq(ToClient)
          /\ <<"auth_ok">> \in Seq(ToClient) /\ <<"unknown_token">> \in Seq(ToClient)
          /\ <<"paired">> \in Seq(ToClient) /\ <<"bad_pin">> \in Seq(ToClient)
      BY DEF ToClient
    <2>5. k[c].sess \in Sessions BY <1>0, Parts
    <2>6. \E n \in ToServer, sess \in Sessions, answer \in Seq(ToClient) :
             Reply(c, n, sess, answer)
      <3>1. CASE Violates(c) /\ Reply(c, m, "CLOSED", <<>>)
        BY <2>1, <2>3, <2>4, <3>1
      <3>2. CASE Reply(c, "hello", "AUTH", <<"auth_required">>)
        BY <2>2, <2>3, <2>4, <3>2
      <3>3. CASE \/ Reply(c, "token", "READY", <<"auth_ok">>)
                 \/ Reply(c, "token", "CLOSED", <<"unknown_token">>)
        BY <2>2, <2>3, <2>4, <3>3
      <3>4. CASE \/ Reply(c, "pin", "READY", <<"paired">>)
                 \/ Reply(c, "pin", "CLOSED", <<"bad_pin">>)
        BY <2>2, <2>3, <2>4, <3>4
      <3>5. CASE \/ Reply(c, "start", "STARTING", <<>>) \/ Reply(c, "bye", "CLOSED", <<>>)
        BY <2>2, <2>3, <2>4, <3>5
      <3>6. CASE Reply(c, m, k[c].sess, <<>>) BY <2>1, <2>4, <2>5, <3>6
      <3> HIDE DEF m
      <3> QED BY <1>7, <3>1, <3>2, <3>3, <3>4, <3>5, <3>6 DEF SessionTakes, m
    <2> QED BY <1>6, <2>1, <2>6
  <1> QED BY <1>4, <1>5, <1>7 DEF Server

LEMMA NextCInv == CInv /\ [Next]_vars => CInv'
  <1> SUFFICES ASSUME CInv, [Next]_vars PROVE CInv'
    OBVIOUS
  <1>1. CASE User BY <1>1, UserCInv
  <1>2. ASSUME NEW c \in Ids,
               \/ Opened(c) \/ OpenFails(c) \/ Reader(c) \/ ReaderEnds(c)
               \/ Ping(c) \/ PingGivesUp(c) \/ SocketCloses(c)
               \/ ConnectionLost(c) \/ Server(c) \/ SessionTimesOut(c)
        PROVE  CInv'
    BY <1>2, SocketCInv, ReaderCInv, EndCInv, ServerCInv DEF Reader
  <1>3. CASE UNCHANGED vars
    BY <1>3 DEF vars, CInv, Typed, Known, ScreenHasClient
  <1> QED BY <1>1, <1>2, <1>3 DEF Next

LEMMA SpecCInv == Spec => []CInv
  BY InitCInv, NextCInv, PTL DEF Spec

\* Types; the view model's client is one that was made and not closed, and
\* those made have a socket.
THEOREM ClientTypes == Spec => []TypeOK
  <1>1. CInv => TypeOK BY DEF CInv, Typed, Known, TypeOK
  <1> QED BY <1>1, SpecCInv, PTL

\* For any number of attempts, as long as no client that is not the view
\* model's called back: the screen of a stream, and the one that asks for a
\* PIN, have a client.
THEOREM ScreensHaveClients == Spec => []ScreenHasClient
  <1>1. CInv => ScreenHasClient BY DEF CInv
  <1> QED BY <1>1, SpecCInv, PTL
===============================================================================
