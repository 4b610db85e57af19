------------------------------ MODULE AuthProofs ------------------------------
(***************************************************************************)
(* What holds of Auth for every set of clients, every number of attempts   *)
(* and every lifetime of a PIN: its types, the bound on PIN guesses, the   *)
(* durability of a pairing across crashes, and that a device revoked while *)
(* the server was down stays out.                                          *)
(***************************************************************************)
EXTENDS Auth, TLAPS

-----------------------------------------------------------------------------
(* Types, and the PIN.                                                     *)

\* The types of everything but the PIN manager.
StoreTypes ==
    /\ up \in BOOLEAN
    /\ mem \in Registry /\ disk \in Registry
    /\ tmp \in [there : BOOLEAN, devices : Registry]
    /\ saving \in Saves \cup {NotSaving}
    /\ cli \in CliRuns \cup {CliIdle, CliDone}
    /\ lastToken \in 0..MaxTokens
    /\ held \in Registry
    /\ untold \in SUBSET Clients /\ forgotten \in SUBSET Clients
    /\ banned \in SUBSET Clients

\* An active PIN has seen no pairing, and each wrong guess is an attempt.
PinInv ==
    /\ pinActive \in BOOLEAN
    /\ pinAge \in 0..(PIN_TTL + 1)
    /\ attempts \in 0..PIN_MAX_ATTEMPTS
    /\ lockLeft \in 0..PIN_LOCKOUT
    /\ guesses \in Nat /\ pairings \in Nat
    /\ pinActive => /\ attempts < PIN_MAX_ATTEMPTS
                    /\ guesses = attempts
                    /\ pairings = 0
    /\ GuessesBounded

\* A record of one shape is none of the other.
LEMMA Shapes == NotSaving \notin Saves /\ CliIdle \notin CliRuns /\ CliDone \notin CliRuns
  BY DEF NotSaving, Saves, CliIdle, CliDone, CliRuns

LEMMA EmptyRegistry == Empty \in Registry
  BY DEF Empty, Registry, NoToken

LEMMA FileTypes ==
    /\ NoFile \in [there : BOOLEAN, devices : Registry]
    /\ \A d \in Registry : File(d) \in [there : BOOLEAN, devices : Registry]
  BY EmptyRegistry DEF NoFile, File

\* What was set to FALSE is a Boolean, and false (pinActive when it is reset).
LEMMA PinInactive ==
    ASSUME NEW active, active = FALSE
    PROVE  active \in BOOLEAN /\ ~active
  OBVIOUS

LEMMA InitTypes == Init => StoreTypes /\ PinInv
  <1> SUFFICES ASSUME Init PROVE StoreTypes /\ PinInv
    OBVIOUS
  <1>1. StoreTypes
    <2>1. 0 \in 0..MaxTokens BY TokenAssumption
    <2> QED BY <2>1, FileTypes, EmptyRegistry DEF Init, StoreTypes
  <1>2. PinInv
    <2>1. /\ 0 \in 0..(PIN_TTL + 1) /\ 0 \in 0..PIN_MAX_ATTEMPTS
          /\ 0 \in 0..PIN_LOCKOUT /\ 0 <= PIN_MAX_ATTEMPTS
      BY PinAssumption
    <2>2. pinActive \in BOOLEAN /\ ~pinActive BY PinInactive DEF Init
    <2>3. /\ pinAge = 0 /\ attempts = 0 /\ lockLeft = 0
          /\ guesses = 0 /\ pairings = 0
      BY DEF Init
    <2> QED BY <2>1, <2>2, <2>3 DEF PinInv, GuessesBounded
  <1> QED BY <1>1, <1>2

LEMMA NextPinInv == PinInv /\ [Server \/ Cli]_vars => PinInv'
  <1> SUFFICES ASSUME PinInv, [Server \/ Cli]_vars PROVE PinInv'
    OBVIOUS
  <1> USE PinAssumption DEF PinInv, GuessesBounded
  <1>1. ASSUME NEW pair \in BOOLEAN, ServerStart(pair) PROVE PinInv'
    <2>1. pinActive' \in BOOLEAN BY <1>1 DEF ServerStart, Loaded, IssuesPin
    <2>2. /\ pinAge' = 0 /\ attempts' = 0 /\ lockLeft' = 0
          /\ guesses' = 0 /\ pairings' = 0
      BY <1>1 DEF ServerStart
    <2> QED BY <2>1, <2>2
  <1>2. CASE ServerEnd
    <2>1. pinActive' \in BOOLEAN /\ ~pinActive'
      BY <1>2, PinInactive DEF ServerEnd
    <2>2. /\ pinAge' = 0 /\ attempts' = 0 /\ lockLeft' = 0
          /\ guesses' = 0 /\ pairings' = 0
      BY <1>2 DEF ServerEnd
    <2> QED BY <2>1, <2>2
  <1>3. CASE Tick BY <1>3 DEF Tick
  <1>4. CASE WrongPin
    <2>1. /\ pinActive /\ attempts < PIN_MAX_ATTEMPTS
          /\ guesses = attempts /\ pairings = 0
      BY <1>4 DEF WrongPin, Comparing
    <2>2. /\ guesses' = guesses + 1 /\ attempts' = attempts + 1
          /\ UNCHANGED <<pinAge, pairings>>
      BY <1>4 DEF WrongPin
    <2>3. CASE attempts' >= PIN_MAX_ATTEMPTS
      <3>1. pinActive' \in BOOLEAN /\ ~pinActive' /\ lockLeft' = PIN_LOCKOUT
        <4>1. pinActive' = FALSE /\ lockLeft' = PIN_LOCKOUT
          BY <1>4, <2>3, PinAssumption DEF WrongPin
        <4> QED BY <4>1, PinInactive
      <3>2. attempts' = PIN_MAX_ATTEMPTS BY <2>1, <2>2, <2>3
      <3> QED BY <2>1, <2>2, <3>1, <3>2
    <2>4. CASE attempts' < PIN_MAX_ATTEMPTS
      <3>1. pinActive' = pinActive /\ lockLeft' = lockLeft
        BY <1>4, <2>4 DEF WrongPin
      <3> QED BY <2>1, <2>2, <2>4, <3>1
    <2> QED BY <2>2, <2>3, <2>4
  <1>5. ASSUME NEW c \in Clients, RightPin(c) PROVE PinInv'
    <2>1. guesses < PIN_MAX_ATTEMPTS /\ pairings = 0
      BY <1>5 DEF RightPin, Comparing
    <2>2. pinActive' \in BOOLEAN /\ ~pinActive'
      BY <1>5, PinInactive DEF RightPin
    <2>3. /\ pairings' = pairings + 1
          /\ UNCHANGED <<pinAge, attempts, lockLeft, guesses>>
      BY <1>5 DEF RightPin
    <2> QED BY <2>1, <2>2, <2>3
  <1>6. CASE UNCHANGED pinVars BY <1>6 DEF pinVars
  <1> QED BY <1>1, <1>2, <1>3, <1>4, <1>5, <1>6
          DEF Server, Cli, TokenAccepted, SaveWrites, SaveRenames, CliLoads,
              CliWrites, CliRenames, vars

LEMMA ServerStoreTypes == StoreTypes /\ Server => StoreTypes'
  <1> SUFFICES ASSUME StoreTypes, Server PROVE StoreTypes'
    OBVIOUS
  <1> USE DEF StoreTypes, files, tokens
  <1>1. ASSUME NEW pair \in BOOLEAN, ServerStart(pair) PROVE StoreTypes'
    <2>1. cli' \in CliRuns \cup {CliIdle, CliDone}
      <3>1. CASE ~Revoking BY <1>1, <3>1 DEF ServerStart
      <3>2. CASE Revoking
        BY <1>1, <3>2 DEF ServerStart, Revoking, CliRuns
      <3> QED BY <3>1, <3>2
    <2> QED BY <1>1, <2>1, EmptyRegistry DEF ServerStart, Loaded
  <1>2. CASE ServerEnd BY <1>2, EmptyRegistry DEF ServerEnd
  <1>3. CASE Tick BY <1>3 DEF Tick
  <1>4. CASE WrongPin BY <1>4 DEF WrongPin
  <1>5. ASSUME NEW c \in Clients, RightPin(c) PROVE StoreTypes'
    <2>1. lastToken + 1 \in Tokens /\ lastToken' \in 0..MaxTokens
      BY <1>5, TokenAssumption DEF RightPin, Tokens
    <2>2. mem' \in Registry BY <1>5, <2>1 DEF RightPin, Registry
    <2>3. saving' \in Saves BY <1>5, <2>1 DEF RightPin, Saves
    <2> QED BY <1>5, <2>1, <2>2, <2>3 DEF RightPin
  <1>6. ASSUME NEW c \in Clients, TokenAccepted(c) PROVE StoreTypes'
    <2>1. saving' \in Saves BY <1>6 DEF TokenAccepted, Saves
    <2> QED BY <1>6, <2>1 DEF TokenAccepted
  <1>7. CASE SaveWrites
    <2>1. saving' \in Saves \cup {NotSaving}
      <3>1. saving \in Saves BY <1>7 DEF SaveWrites
      <3>2. [saving EXCEPT !.step = "rename"] \in Saves BY <3>1 DEF Saves
      <3> QED BY <1>7, <3>2 DEF SaveWrites
    <2>2. tmp' \in [there : BOOLEAN, devices : Registry]
      BY <1>7, FileTypes DEF SaveWrites
    <2> QED BY <1>7, <2>1, <2>2 DEF SaveWrites
  <1>8. CASE SaveRenames
    <2>1. disk' \in Registry BY <1>8 DEF SaveRenames
    <2>2. tmp' \in [there : BOOLEAN, devices : Registry]
      BY <1>8, FileTypes DEF SaveRenames
    <2>3. held' \in Registry
      <3>1. saving \in Saves BY <1>8 DEF SaveRenames
      <3> QED BY <1>8, <3>1 DEF SaveRenames, Saves, Registry
    <2>4. untold' \in SUBSET Clients /\ forgotten' \in SUBSET Clients
      BY <1>8 DEF SaveRenames
    <2> QED BY <1>8, <2>1, <2>2, <2>3, <2>4 DEF SaveRenames
  <1> QED BY <1>1, <1>2, <1>3, <1>4, <1>5, <1>6, <1>7, <1>8 DEF Server

LEMMA CliStoreTypes == StoreTypes /\ Cli => StoreTypes'
  <1> SUFFICES ASSUME StoreTypes, Cli PROVE StoreTypes'
    OBVIOUS
  <1> USE DEF StoreTypes, files, tokens, Revoking
  <1>1. ASSUME NEW c \in Clients, CliLoads(c) PROVE StoreTypes'
    <2>1. [disk EXCEPT ![c] = NoToken] \in Registry BY DEF Registry
    <2>2. cli' \in CliRuns BY <1>1, <2>1 DEF CliLoads, CliRuns
    <2> QED BY <1>1, <2>2 DEF CliLoads
  <1>2. CASE CliWrites
    <2>1. cli \in CliRuns BY <1>2 DEF CliWrites
    <2>2. cli' \in CliRuns BY <1>2, <2>1 DEF CliWrites, CliRuns
    <2>3. tmp' \in [there : BOOLEAN, devices : Registry]
      BY <1>2, <2>1, FileTypes DEF CliWrites, CliRuns
    <2> QED BY <1>2, <2>2, <2>3 DEF CliWrites
  <1>3. CASE CliRenames
    <2>1. cli.client \in Clients BY <1>3 DEF CliRenames, CliRuns
    <2>2. disk' \in Registry BY <1>3 DEF CliRenames
    <2>3. tmp' \in [there : BOOLEAN, devices : Registry]
      BY <1>3, FileTypes DEF CliRenames
    <2>4. banned' \in SUBSET Clients
      BY <1>3, <2>1 DEF CliRenames
    <2> QED BY <1>3, <2>2, <2>3, <2>4 DEF CliRenames
  <1> QED BY <1>1, <1>2, <1>3 DEF Cli

\* The types, for the server alone and with revocations beside it.
TInv == StoreTypes /\ PinInv

LEMMA NextTInv == TInv /\ [Server \/ Cli]_vars => TInv'
  <1>1. StoreTypes /\ UNCHANGED vars => StoreTypes' BY DEF StoreTypes, vars, files, tokens
  <1> QED BY <1>1, NextPinInv, ServerStoreTypes, CliStoreTypes DEF TInv

LEMMA TInvTypeOK == TInv => TypeOK
  BY DEF TInv, StoreTypes, PinInv, TypeOK

\* The registry, its files and the PIN manager keep their types; the attempts
\* never pass PIN_MAX_ATTEMPTS.
THEOREM AuthTypes == RevokeSpec => []TypeOK
  <1>1. Init => TInv BY InitTypes DEF TInv
  <1> QED BY <1>1, NextTInv, TInvTypeOK, PTL DEF RevokeSpec

\* One PIN pairs at most one device, and none after PIN_MAX_ATTEMPTS wrong
\* guesses, whatever else happens to the registry.
THEOREM PinBounded == RevokeSpec => []GuessesBounded
  <1>1. Init => PinInv BY InitTypes
  <1>2. PinInv => GuessesBounded BY DEF PinInv
  <1> QED BY <1>1, <1>2, NextPinInv, PTL DEF RevokeSpec

-----------------------------------------------------------------------------
(* Pairings are durable as long as the server is the only writer.          *)

\* A save under way belongs to a running server; once devices.tmp is written
\* it holds the registry in memory, new token included.
SaveInv ==
    saving # NotSaving =>
      /\ up
      /\ saving.token # NoToken => mem[saving.client] = saving.token
      /\ saving.step = "rename" => tmp.there /\ tmp.devices = mem

\* No token is ahead of the last one drawn.  Unless a start forgot the client,
\* what it holds is on disk, and what is on disk is in the memory of a running
\* server; unless it waits for an answer, all three are the same.
DurableInv ==
    \A c \in Clients :
        /\ disk[c] <= lastToken /\ mem[c] <= lastToken
        /\ c \notin forgotten => /\ held[c] <= disk[c]
                                 /\ up => disk[c] <= mem[c]
                                 /\ c \in untold \/ (disk[c] = held[c] /\ (up => mem[c] = held[c]))

LEMMA NextSaveInv == StoreTypes /\ SaveInv /\ [Server]_vars => SaveInv'
  <1> SUFFICES ASSUME StoreTypes, SaveInv, [Server]_vars, saving' # NotSaving
               PROVE  /\ up'
                      /\ saving'.token # NoToken =>
                           mem'[saving'.client] = saving'.token
                      /\ saving'.step = "rename" => tmp'.there /\ tmp'.devices = mem'
    BY DEF SaveInv
  <1>0. saving \in Saves \cup {NotSaving} /\ mem \in Registry
    BY DEF StoreTypes
  <1>1. ASSUME NEW pair \in BOOLEAN, ServerStart(pair) PROVE FALSE
    BY <1>1 DEF ServerStart, SaveInv
  <1>2. CASE ServerEnd BY <1>2 DEF ServerEnd
  <1>3. ASSUME NEW c \in Clients, RightPin(c)
        PROVE  /\ up' /\ saving'.step = "write"
               /\ mem'[saving'.client] = saving'.token
    BY <1>0, <1>3 DEF RightPin, Serving, Registry
  <1>4. ASSUME NEW c \in Clients, TokenAccepted(c)
        PROVE  up' /\ saving'.step = "write" /\ saving'.token = NoToken
    BY <1>4 DEF TokenAccepted, Serving
  <1>5. CASE SaveWrites
    <2>1. /\ saving \in Saves
          /\ saving' = [saving EXCEPT !.step = "rename"]
          /\ tmp' = File(mem) /\ UNCHANGED <<up, mem>>
      BY <1>0, <1>5 DEF SaveWrites
    <2>2. saving'.token = saving.token /\ saving'.client = saving.client
      BY <2>1 DEF Saves
    <2>3. up /\ (saving.token # NoToken => mem[saving.client] = saving.token)
      BY <1>5 DEF SaveWrites, SaveInv
    <2>4. tmp'.there /\ tmp'.devices = mem BY <2>1 DEF File
    <2> QED BY <2>1, <2>2, <2>3, <2>4
  <1>6. CASE SaveRenames BY <1>6 DEF SaveRenames
  <1>7. CASE UNCHANGED <<saving, up, mem, tmp>> BY <1>7 DEF SaveInv
  <1> QED BY <1>1, <1>2, <1>3, <1>4, <1>5, <1>6, <1>7
          DEF Server, Tick, WrongPin, Serving, vars, files, tokens

\* A client that is told its token has the one in memory, and on disk by now.
LEMMA RenamesDurable ==
    ASSUME StoreTypes, SaveInv, DurableInv, SaveRenames
    PROVE  DurableInv'
  <1> SUFFICES ASSUME NEW d \in Clients
               PROVE  /\ disk'[d] <= lastToken' /\ mem'[d] <= lastToken'
                      /\ d \notin forgotten' =>
                           /\ held'[d] <= disk'[d]
                           /\ up' => disk'[d] <= mem'[d]
                           /\ d \in untold' \/ (disk'[d] = held'[d] /\ (up' => mem'[d] = held'[d]))
    BY DEF DurableInv
  <1>0. /\ disk[d] <= lastToken /\ mem[d] <= lastToken
        /\ d \notin forgotten => /\ held[d] <= disk[d]
                                 /\ up => disk[d] <= mem[d]
                                 /\ d \in untold \/ (disk[d] = held[d] /\ (up => mem[d] = held[d]))
        /\ held[d] \in Nat /\ disk[d] \in Nat /\ mem[d] \in Nat
        /\ mem \in Registry /\ held \in Registry
    BY TokenAssumption DEF DurableInv, StoreTypes, Registry, Tokens, NoToken
  <1>1. UNCHANGED <<up, mem, lastToken>> BY DEF SaveRenames
  <1>2. CASE UNCHANGED <<disk, held, untold, forgotten>>
    BY <1>0, <1>1, <1>2
  <1>3. CASE disk' = tmp.devices /\ UNCHANGED <<held, untold, forgotten>>
    <2>1. disk' = mem /\ up BY <1>3 DEF SaveRenames, SaveInv
    <2> QED BY <1>0, <1>1, <1>3, <2>1
  <1>4. CASE /\ disk' = tmp.devices /\ saving.token # NoToken
             /\ held' = [held EXCEPT ![saving.client] = saving.token]
             /\ untold' = untold \ {saving.client}
             /\ forgotten' = forgotten \ {saving.client}
    <2>1. disk' = mem /\ up /\ mem[saving.client] = saving.token
      BY <1>4 DEF SaveRenames, SaveInv
    <2>2. CASE d = saving.client
      <3>1. held'[d] = mem[d] BY <1>0, <1>4, <2>1, <2>2 DEF Registry
      <3> QED BY <1>0, <1>1, <2>1, <3>1
    <2>3. CASE d # saving.client
      <3>1. /\ held'[d] = held[d] /\ (d \in forgotten' <=> d \in forgotten)
            /\ d \in untold' <=> d \in untold
        BY <1>0, <1>4, <2>3 DEF Registry
      <3> QED BY <1>0, <1>1, <2>1, <3>1
    <2> QED BY <2>2, <2>3
  <1> QED BY <1>2, <1>3, <1>4 DEF SaveRenames, files, tokens

LEMMA NextDurableInv ==
    StoreTypes /\ SaveInv /\ DurableInv /\ [Server]_vars => DurableInv'
  <1> SUFFICES ASSUME StoreTypes, SaveInv, DurableInv, [Server]_vars, ~SaveRenames,
                      NEW d \in Clients
               PROVE  /\ disk'[d] <= lastToken' /\ mem'[d] <= lastToken'
                      /\ d \notin forgotten' =>
                           /\ held'[d] <= disk'[d]
                           /\ up' => disk'[d] <= mem'[d]
                           /\ d \in untold' \/ (disk'[d] = held'[d] /\ (up' => mem'[d] = held'[d]))
    BY RenamesDurable DEF DurableInv
  <1>0. /\ disk[d] <= lastToken /\ mem[d] <= lastToken
        /\ d \notin forgotten => /\ held[d] <= disk[d]
                                 /\ up => disk[d] <= mem[d]
                                 /\ d \in untold \/ (disk[d] = held[d] /\ (up => mem[d] = held[d]))
        /\ held[d] \in Nat /\ disk[d] \in Nat /\ mem[d] \in Nat
        /\ lastToken \in Nat
        /\ mem \in Registry /\ held \in Registry
    BY TokenAssumption DEF DurableInv, StoreTypes, Registry, Tokens, NoToken
  <1>1. ASSUME NEW pair \in BOOLEAN, ServerStart(pair)
        PROVE  /\ mem'[d] = disk[d] \/ (mem'[d] = 0 /\ d \in forgotten')
               /\ d \in forgotten => d \in forgotten'
               /\ UNCHANGED <<held, untold, disk, lastToken>>
    BY <1>1 DEF ServerStart, Loaded, files, Empty, NoToken
  <1>2. CASE ServerEnd
    <2>1. /\ up' = FALSE /\ mem'[d] = 0
          /\ UNCHANGED <<held, untold, forgotten, disk, lastToken>>
      BY <1>2 DEF ServerEnd, files, tokens, Empty, NoToken
    <2> QED BY <1>0, <2>1
  <1>3. ASSUME NEW c \in Clients, RightPin(c)
        PROVE  /\ mem'[d] = mem[d] \/ (mem'[d] = lastToken + 1 /\ d \in untold')
               /\ d \in untold => d \in untold'
               /\ lastToken' = lastToken + 1
               /\ UNCHANGED <<up, held, forgotten, disk>>
    BY <1>0, <1>3 DEF RightPin, Registry, files
  <1>4. CASE UNCHANGED <<held, untold, forgotten, disk, mem, lastToken, up>>
    BY <1>0, <1>4
  <1>5. CASE \E pair \in BOOLEAN : ServerStart(pair)
    <2>1. /\ mem'[d] = disk[d] \/ (mem'[d] = 0 /\ d \in forgotten')
          /\ d \in forgotten => d \in forgotten'
          /\ UNCHANGED <<held, untold, disk, lastToken>>
      BY <1>1, <1>5
    <2> QED BY <1>0, <2>1
  <1>6. CASE \E c \in Clients : RightPin(c)
    <2>1. /\ mem'[d] = mem[d] \/ (mem'[d] = lastToken + 1 /\ d \in untold')
          /\ d \in untold => d \in untold'
          /\ lastToken' = lastToken + 1
          /\ UNCHANGED <<up, held, forgotten, disk>>
      BY <1>3, <1>6
    <2> QED BY <1>0, <2>1
  <1> QED BY <1>2, <1>4, <1>5, <1>6
          DEF Server, Tick, WrongPin, TokenAccepted, SaveWrites, vars, files, tokens

\* Before the first revocation, a client's token is the one the registry has for
\* it, through every crash of the server: only who was paired anew and not told
\* may find a later one, and only a devices.json that could not be read makes the
\* server forget, those paired before.
THEOREM PairingsDurable == RevokeSpec => []PairingDurable
  <1> DEFINE Inv == StoreTypes /\ (cli = CliIdle => SaveInv /\ DurableInv)
  <1>1. Init => Inv
    <2>1. Init => SaveInv BY DEF Init, SaveInv
    <2>2. Init => DurableInv
      <3> SUFFICES ASSUME Init, NEW c \in Clients
                   PROVE  /\ held[c] = 0 /\ disk[c] = 0 /\ mem[c] = 0
                          /\ lastToken = 0
        BY DEF DurableInv
      <3> QED BY DEF Init, Empty, NoToken
    <2> QED BY <2>1, <2>2, InitTypes
  <1>2. Inv /\ [Server \/ Cli]_vars => Inv'
    <2> SUFFICES ASSUME Inv, [Server \/ Cli]_vars PROVE Inv'
      OBVIOUS
    <2>1. StoreTypes'
      <3>1. StoreTypes /\ UNCHANGED vars => StoreTypes'
        BY DEF StoreTypes, vars, files, tokens
      <3> QED BY <3>1, ServerStoreTypes, CliStoreTypes
    <2>2. ASSUME cli' = CliIdle PROVE cli = CliIdle /\ [Server]_vars
      \* The revoking process never goes back to CliIdle.
      <3>0. /\ CliIdle # CliDone /\ \A r \in CliRuns : r # CliIdle
        BY Shapes DEF CliIdle, CliDone
      <3>1. CASE Cli
        <4>1. cli' # CliIdle
          <5>1. StoreTypes' BY <2>1
          <5>2. ASSUME NEW c \in Clients, CliLoads(c) PROVE cli' # CliIdle
            <6>1. cli'.step = "loaded" BY <5>2 DEF CliLoads
            <6> QED BY <6>1 DEF CliIdle
          <5>3. CASE CliWrites
            <6>1. cli' = [cli EXCEPT !.step = "written"] /\ cli \in CliRuns
              BY <5>3 DEF CliWrites, Revoking, StoreTypes
            <6>2. cli'.step = "written" BY <6>1 DEF CliRuns
            <6> QED BY <6>2 DEF CliIdle
          <5>4. CASE CliRenames BY <3>0, <5>4 DEF CliRenames
          <5> QED BY <3>1, <5>2, <5>3, <5>4 DEF Cli
        <4> QED BY <4>1, <2>2
      <3>2. CASE \E pair \in BOOLEAN : ServerStart(pair)
        <4>1. CASE ~Revoking BY <2>2, <3>2, <4>1 DEF ServerStart, Server
        <4>2. CASE Revoking
          <5>1. cli' = [cli EXCEPT !.offline = FALSE] /\ cli \in CliRuns
            BY <3>2, <4>2 DEF ServerStart, Revoking, StoreTypes
          <5>2. cli' \in CliRuns BY <5>1 DEF CliRuns
          <5> QED BY <2>2, <3>0, <5>2
        <4> QED BY <4>1, <4>2
      <3>3. CASE UNCHANGED cli /\ [Server]_vars BY <2>2, <3>3
      <3> QED BY <3>1, <3>2, <3>3
              DEF Server, ServerEnd, Tick, WrongPin, SaveWrites, SaveRenames,
                  RightPin, TokenAccepted, vars, pinVars, files
    <2>3. cli' = CliIdle => SaveInv' /\ DurableInv'
      BY <2>2, NextSaveInv, NextDurableInv
    <2> QED BY <2>1, <2>3
  <1>3. Inv => PairingDurable
    <2> SUFFICES ASSUME Inv, cli = CliIdle, NEW c \in Clients \ forgotten
                 PROVE  /\ disk[c] = held[c] \/ (c \in untold /\ disk[c] > held[c])
                        /\ up => mem[c] = held[c] \/ (c \in untold /\ mem[c] > held[c])
      BY DEF PairingDurable
    <2>1. /\ disk[c] \in Nat /\ held[c] \in Nat /\ mem[c] \in Nat
      BY TokenAssumption DEF StoreTypes, Registry, Tokens, NoToken
    <2>2. /\ held[c] <= disk[c] /\ (up => disk[c] <= mem[c])
          /\ c \in untold \/ (disk[c] = held[c] /\ (up => mem[c] = held[c]))
      BY DEF DurableInv
    <2> QED BY <2>1, <2>2
  <1> QED BY <1>1, <1>2, <1>3, PTL DEF RevokeSpec

-----------------------------------------------------------------------------
(* Revocations made while no server runs are final.                        *)

\* No copy of the registry still has a banned device, and a revocation that
\* runs with the server down works on files nobody else touches.
OutEverywhere(c) ==
    /\ disk[c] = NoToken /\ mem[c] = NoToken
    /\ tmp.there => tmp.devices[c] = NoToken
    /\ Revoking => cli.devices[c] = NoToken
OfflineCli ==
    Revoking =>
      /\ cli.devices[cli.client] = NoToken
      /\ cli.offline =>
           /\ ~up
           /\ cli.step = "written" => tmp.devices = cli.devices
BanInv ==
    /\ \A c \in banned : OutEverywhere(c)
    /\ OfflineCli
    /\ ~up => mem = Empty /\ saving = NotSaving

LEMMA NextBanInv == StoreTypes /\ BanInv /\ [Server \/ Cli]_vars => BanInv'
  <1> SUFFICES ASSUME StoreTypes, BanInv, [Server \/ Cli]_vars PROVE BanInv'
    OBVIOUS
  <1> USE DEF Revoking
  <1>0. /\ mem \in Registry /\ disk \in Registry /\ banned \subseteq Clients
        /\ cli \in CliRuns \cup {CliIdle, CliDone} /\ saving \in Saves \cup {NotSaving}
    BY DEF StoreTypes
  <1>1. ASSUME NEW pair \in BOOLEAN, ServerStart(pair) PROVE BanInv'
    <2>1. /\ \A c \in banned : disk[c] = NoToken => mem'[c] = NoToken
          /\ up' /\ UNCHANGED <<disk, tmp, banned>>
      BY <1>0, <1>1 DEF ServerStart, Loaded, files, Empty
    <2>2. CASE ~Revoking
      BY <1>1, <2>1, <2>2 DEF BanInv, OutEverywhere, OfflineCli, ServerStart, Loaded
    <2>3. CASE Revoking
      <3>1. cli' = [cli EXCEPT !.offline = FALSE] /\ cli \in CliRuns
        BY <1>0, <1>1, <2>3 DEF ServerStart
      <3>2. /\ cli'.devices = cli.devices /\ cli'.client = cli.client
            /\ cli'.offline = FALSE
        BY <3>1 DEF CliRuns
      <3> QED BY <2>1, <2>3, <3>2 DEF BanInv, OutEverywhere, OfflineCli
    <2> QED BY <2>2, <2>3
  <1>2. CASE ServerEnd
    <2>1. /\ up /\ ~up' /\ mem' = Empty /\ saving' = NotSaving
          /\ UNCHANGED <<disk, tmp, cli, banned>>
      BY <1>2, PinInactive DEF ServerEnd, files
    <2>2. OfflineCli' BY <2>1 DEF BanInv, OfflineCli
    <2>3. \A c \in banned : mem'[c] = NoToken BY <1>0, <2>1 DEF Empty
    <2>4. \A c \in banned' : OutEverywhere(c)'
      BY <2>1, <2>3 DEF BanInv, OutEverywhere
    <2> QED BY <2>1, <2>2, <2>4 DEF BanInv
  <1>3. ASSUME NEW c \in Clients, RightPin(c) PROVE BanInv'
    <2>1. /\ up /\ up' /\ UNCHANGED <<disk, tmp, cli>>
          /\ banned' = banned \ {c}
          /\ \A d \in Clients \ {c} : mem'[d] = mem[d]
      BY <1>0, <1>3 DEF RightPin, Serving, files, Registry
    <2> QED BY <1>0, <2>1 DEF BanInv, OutEverywhere, OfflineCli
  <1>4. CASE SaveWrites
    <2>1. up BY <1>4 DEF SaveWrites, BanInv
    <2>2. UNCHANGED <<up, mem, disk, cli, banned>> BY <1>4 DEF SaveWrites
    <2>3. tmp' = tmp \/ tmp'.devices = mem BY <1>4 DEF SaveWrites, File
    <2> QED BY <2>1, <2>2, <2>3 DEF BanInv, OutEverywhere, OfflineCli
  <1>5. CASE SaveRenames
    <2>1. up BY <1>5 DEF SaveRenames, BanInv
    <2>2. UNCHANGED <<up, mem, cli, banned>> BY <1>5 DEF SaveRenames
    <2>3. \/ UNCHANGED <<disk, tmp>>
          \/ tmp.there /\ disk' = tmp.devices /\ tmp'.there = FALSE
      BY <1>5 DEF SaveRenames, files, NoFile
    <2> QED BY <2>1, <2>2, <2>3 DEF BanInv, OutEverywhere, OfflineCli
  <1>6. ASSUME NEW c \in Clients, CliLoads(c) PROVE BanInv'
    <2>1. /\ UNCHANGED <<up, mem, disk, tmp, saving, banned>>
          /\ cli' = [step |-> "loaded", client |-> c,
                     devices |-> [disk EXCEPT ![c] = NoToken], offline |-> ~up]
      BY <1>6 DEF CliLoads, files
    <2>2. /\ cli'.step = "loaded" /\ cli'.client = c /\ cli'.offline = ~up
          /\ cli'.devices = [disk EXCEPT ![c] = NoToken]
      BY <2>1
    <2>3. cli'.devices[c] = NoToken BY <1>0, <2>2 DEF Registry
    <2>4. \A b \in banned : cli'.devices[b] = NoToken
      BY <1>0, <2>2 DEF Registry, BanInv, OutEverywhere
    <2> QED BY <2>1, <2>2, <2>3, <2>4 DEF BanInv, OutEverywhere, OfflineCli
  <1>7. CASE CliWrites
    <2>1. cli \in CliRuns BY <1>0, <1>7 DEF CliWrites
    <2>2. /\ UNCHANGED <<up, mem, disk, saving, banned>>
          /\ tmp' = File(cli.devices)
          /\ cli' = [cli EXCEPT !.step = "written"]
      BY <1>7 DEF CliWrites
    <2>3. /\ cli'.devices = cli.devices /\ cli'.client = cli.client
          /\ cli'.offline = cli.offline /\ tmp'.devices = cli.devices
      BY <2>1, <2>2 DEF CliRuns, File
    <2> QED BY <1>7, <2>2, <2>3 DEF CliWrites, BanInv, OutEverywhere, OfflineCli
  <1>8. CASE CliRenames
    <2>1. /\ Revoking /\ cli.step = "written" /\ cli' = CliDone
          /\ UNCHANGED <<up, mem, saving>>
      BY <1>8 DEF CliRenames
    <2>2. CASE UNCHANGED <<disk, tmp, banned>>
      BY <2>1, <2>2 DEF BanInv, OutEverywhere, OfflineCli
    <2>3. CASE /\ tmp.there /\ disk' = tmp.devices /\ tmp' = NoFile
               /\ banned' = IF cli.offline THEN banned \cup {cli.client} ELSE banned
      <3>1. tmp'.there = FALSE BY <2>3 DEF NoFile
      <3>2. \A b \in banned : disk'[b] = NoToken /\ mem'[b] = NoToken
        BY <2>1, <2>3 DEF BanInv, OutEverywhere
      <3>3. cli.offline => /\ disk'[cli.client] = NoToken
                           /\ mem'[cli.client] = NoToken
        <4>1. cli.client \in Clients BY <1>0, <2>1 DEF CliRuns
        <4> QED BY <2>1, <2>3, <4>1 DEF BanInv, OfflineCli, Empty
      <3>4. \A b \in banned' : disk'[b] = NoToken /\ mem'[b] = NoToken
        BY <2>3, <3>2, <3>3
      <3> QED BY <2>1, <3>1, <3>4 DEF BanInv, OutEverywhere, OfflineCli
    <2> QED BY <1>8, <2>2, <2>3 DEF CliRenames, files
  <1>9. ASSUME NEW c \in Clients, TokenAccepted(c) PROVE BanInv'
    BY <1>9 DEF TokenAccepted, Serving, files, BanInv, OutEverywhere, OfflineCli
  <1>10. CASE UNCHANGED <<up, mem, disk, tmp, cli, saving, banned>>
    BY <1>10 DEF BanInv, OutEverywhere, OfflineCli
  <1> QED BY <1>1, <1>2, <1>3, <1>4, <1>5, <1>6, <1>7, <1>8, <1>9, <1>10
          DEF Server, Cli, Tick, WrongPin, vars, files, tokens

\* A device revoked while no server ran stays out, with a server and later
\* revocations racing on the files, until it is paired again.
THEOREM BannedAreOut == RevokeSpec => []BannedStaysOut
  <1> DEFINE Inv == StoreTypes /\ BanInv
  <1>1. Init => Inv
    BY InitTypes DEF Init, BanInv, OutEverywhere, OfflineCli, Revoking
  <1>2. Inv /\ [Server \/ Cli]_vars => Inv'
    <2>1. StoreTypes /\ UNCHANGED vars => StoreTypes'
      BY DEF StoreTypes, vars, files, tokens
    <2> QED BY <2>1, ServerStoreTypes, CliStoreTypes, NextBanInv
  <1>3. Inv => BannedStaysOut BY DEF BanInv, OutEverywhere, BannedStaysOut
  <1> QED BY <1>1, <1>2, <1>3, PTL DEF RevokeSpec
=============================================================================
