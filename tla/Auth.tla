--------------------------------- MODULE Auth ---------------------------------
(***************************************************************************)
(* Pairing and the device registry (server/ubudesk_server/net/auth.py),    *)
(* with the callers that drive them: Session._on_auth in the server        *)
(* process, run_server at start-up, and the separate process of            *)
(* `ubudesk devices --revoke` (cli.py) on the same devices.json.           *)
(*                                                                         *)
(* The server handles an auth message in one uninterrupted stretch, so     *)
(* inside the server a save is never interleaved; but the revoking process *)
(* runs beside it, and the server can be killed between the two steps of   *)
(* _save: writing devices.tmp and renaming it over devices.json.           *)
(*                                                                         *)
(* A token is a number, drawn in increasing order; NoToken is "not         *)
(* paired".  The PIN's issue time and the lockout deadline are kept as the *)
(* age of the PIN and the time left of the lockout.                        *)
(***************************************************************************)
EXTENDS Naturals, FiniteSets

CONSTANTS
    Clients,           \* client ids
    PIN_TTL,           \* ticks an issued PIN stays valid
    PIN_LOCKOUT,       \* ticks of a lockout
    PIN_MAX_ATTEMPTS,  \* as in the code
    MaxTokens          \* bound: tokens ever drawn

ASSUME PinAssumption ==
    /\ PIN_TTL \in Nat
    /\ PIN_LOCKOUT \in Nat
    /\ PIN_MAX_ATTEMPTS \in Nat \ {0}
ASSUME TokenAssumption == MaxTokens \in Nat

NoToken == 0
Tokens == 1..MaxTokens
Registry == [Clients -> Tokens \cup {NoToken}]
Empty == [c \in Clients |-> NoToken]
NoFile == [there |-> FALSE, devices |-> Empty]
File(devices) == [there |-> TRUE, devices |-> devices]

VARIABLES
    up,        \* the server process runs
    pinActive, \* PinManager._pin is not None
    pinAge,    \* ticks since _issued_at, counted up to PIN_TTL + 1
    attempts,  \* PinManager._attempts
    lockLeft,  \* ticks until _locked_until
    mem,       \* DeviceStore._devices of the server
    disk,      \* devices.json
    tmp,       \* devices.tmp
    saving,    \* the auth message the server is saving for, if any
    cli,       \* the revoking process
    lastToken, \* tokens drawn so far
    held,      \* [c]: the token client c was given last
    untold,    \* history: clients for whom a later token was drawn than they have
    forgotten, \* history: paired when a start could not read devices.json
    guesses,   \* history: wrong PINs compared since the PIN was issued
    pairings,  \* history: pairings with the PIN since it was issued
    banned     \* history: revoked while the server was down all along

pinVars == <<pinActive, pinAge, attempts, lockLeft, guesses, pairings>>
files == <<disk, tmp>>
tokens == <<held, untold, forgotten>>
vars == <<up, pinVars, mem, files, saving, cli, lastToken, tokens, banned>>

NotSaving == [client |-> "none"]
Saves == [client : Clients, token : Tokens \cup {NoToken},
          step : {"write", "rename"}]
CliIdle == [step |-> "idle"]  \* no revocation yet
CliDone == [step |-> "done"]  \* the last one is over
CliRuns == [step : {"loaded", "written"}, client : Clients, devices : Registry,
            offline : BOOLEAN]

Revoking == cli \notin {CliIdle, CliDone}

TypeOK ==
    /\ up \in BOOLEAN
    /\ pinActive \in BOOLEAN
    /\ pinAge \in 0..(PIN_TTL + 1)
    /\ attempts \in 0..PIN_MAX_ATTEMPTS
    /\ lockLeft \in 0..PIN_LOCKOUT
    /\ mem \in Registry
    /\ disk \in Registry
    /\ tmp \in [there : BOOLEAN, devices : Registry]
    /\ saving \in Saves \cup {NotSaving}
    /\ cli \in CliRuns \cup {CliIdle, CliDone}
    /\ lastToken \in 0..MaxTokens
    /\ held \in Registry
    /\ untold \in SUBSET Clients /\ forgotten \in SUBSET Clients
    /\ guesses \in Nat
    /\ pairings \in Nat
    /\ banned \in SUBSET Clients

Init ==
    /\ up = FALSE
    /\ pinActive = FALSE /\ pinAge = 0 /\ attempts = 0 /\ lockLeft = 0
    /\ mem = Empty /\ disk = Empty /\ tmp = NoFile
    /\ saving = NotSaving
    /\ cli = CliIdle
    /\ lastToken = 0
    /\ held = Empty /\ untold = {} /\ forgotten = {}
    /\ guesses = 0 /\ pairings = 0
    /\ banned = {}

-----------------------------------------------------------------------------
(* The server process.                                                     *)

\* DeviceStore._load, when the server object is built: a file that cannot be
\* read or parsed starts it with no devices.
Loaded == {disk, Empty}

\* issue_pin_if_needed: with --pair, or when no device is paired.
IssuesPin(pair) == pair \/ mem' = Empty

\* Start-up: the only time the registry is read and a PIN is issued.
ServerStart(pair) ==
    /\ ~up
    /\ up' = TRUE
    /\ mem' \in Loaded
    /\ forgotten' = forgotten \cup {c \in Clients : mem'[c] # disk[c]}
    /\ pinActive' = IssuesPin(pair)
    /\ pinAge' = 0 /\ attempts' = 0 /\ lockLeft' = 0
    /\ guesses' = 0 /\ pairings' = 0
    /\ cli' = IF Revoking THEN [cli EXCEPT !.offline = FALSE] ELSE cli
    /\ UNCHANGED <<files, saving, lastToken, held, untold, banned>>

\* The process ends, at any point of a save.
ServerEnd ==
    /\ up
    /\ up' = FALSE
    /\ mem' = Empty
    /\ saving' = NotSaving
    /\ pinActive' = FALSE /\ pinAge' = 0 /\ attempts' = 0 /\ lockLeft' = 0
    /\ guesses' = 0 /\ pairings' = 0
    /\ UNCHANGED <<files, cli, lastToken, tokens, banned>>

Tick ==
    /\ up
    /\ pinAge' = IF pinAge > PIN_TTL THEN pinAge ELSE pinAge + 1
    /\ lockLeft' = IF lockLeft = 0 THEN 0 ELSE lockLeft - 1
    /\ UNCHANGED <<up, pinActive, attempts, guesses, pairings, mem, files,
                   saving, cli, lastToken, tokens, banned>>

Serving == up /\ saving = NotSaving

\* PinManager.verify gets as far as comparing the PIN.
Comparing == /\ lockLeft = 0
             /\ pinActive
             /\ pinAge <= PIN_TTL

\* Variant: a lockout leaves the PIN in place.
WrongPinKeepsPin ==
    /\ Serving
    /\ Comparing
    /\ guesses' = guesses + 1
    /\ attempts' = attempts + 1
    /\ lockLeft' = IF attempts' >= PIN_MAX_ATTEMPTS THEN PIN_LOCKOUT ELSE lockLeft
    /\ UNCHANGED <<up, pinActive, pinAge, pairings, mem, files, saving, cli,
                   lastToken, tokens, banned>>

\* A wrong PIN.  (One that cannot be compared raises and changes nothing.)
WrongPin ==
    /\ Serving
    /\ Comparing
    /\ guesses' = guesses + 1
    /\ attempts' = attempts + 1
    /\ \/ /\ attempts' >= PIN_MAX_ATTEMPTS
          /\ lockLeft' = PIN_LOCKOUT
          /\ pinActive' = FALSE
       \/ /\ attempts' < PIN_MAX_ATTEMPTS
          /\ UNCHANGED <<lockLeft, pinActive>>
    /\ UNCHANGED <<up, pinAge, pairings, mem, files, saving, cli, lastToken,
                   tokens, banned>>

\* Variant: the right PIN is not consumed.
RightPinKept(c) ==
    /\ Serving
    /\ Comparing
    /\ lastToken < MaxTokens
    /\ pairings' = pairings + 1
    /\ lastToken' = lastToken + 1
    /\ mem' = [mem EXCEPT ![c] = lastToken + 1]
    /\ saving' = [client |-> c, token |-> lastToken + 1, step |-> "write"]
    /\ banned' = banned \ {c} /\ untold' = untold \cup {c}
    /\ UNCHANGED <<up, pinActive, pinAge, attempts, lockLeft, guesses, files,
                   cli, held, forgotten>>

\* Variant: auth_ok goes out before the registry is saved.
RightPinUnsaved(c) ==
    /\ Serving
    /\ Comparing
    /\ lastToken < MaxTokens
    /\ pinActive' = FALSE
    /\ pairings' = pairings + 1
    /\ lastToken' = lastToken + 1
    /\ mem' = [mem EXCEPT ![c] = lastToken + 1]
    /\ held' = [held EXCEPT ![c] = lastToken + 1]
    /\ saving' = [client |-> c, token |-> NoToken, step |-> "write"]
    /\ banned' = banned \ {c}
    /\ untold' = untold \ {c} /\ forgotten' = forgotten \ {c}
    /\ UNCHANGED <<up, pinAge, attempts, lockLeft, guesses, files, cli>>

\* The right PIN: it is consumed, a token is drawn and the device added to
\* the registry in memory; the save follows, then auth_ok.
RightPin(c) ==
    /\ Serving
    /\ Comparing
    /\ lastToken < MaxTokens
    /\ pinActive' = FALSE
    /\ pairings' = pairings + 1
    /\ lastToken' = lastToken + 1
    /\ mem' = [mem EXCEPT ![c] = lastToken + 1]
    /\ saving' = [client |-> c, token |-> lastToken + 1, step |-> "write"]
    /\ banned' = banned \ {c} /\ untold' = untold \cup {c}
    /\ UNCHANGED <<up, pinAge, attempts, lockLeft, guesses, files, cli, held,
                   forgotten>>

\* A token the registry knows: last_seen is updated, and the registry saved.
TokenAccepted(c) ==
    /\ Serving
    /\ held[c] # NoToken
    /\ held[c] = mem[c]
    /\ saving' = [client |-> c, token |-> NoToken, step |-> "write"]
    /\ UNCHANGED <<up, pinVars, mem, files, cli, lastToken, tokens, banned>>

\* _save writes devices.tmp, or fails: the exception ends the session.
SaveWrites ==
    /\ saving # NotSaving
    /\ saving.step = "write"
    /\ \/ /\ tmp' = File(mem)
          /\ saving' = [saving EXCEPT !.step = "rename"]
       \/ /\ tmp' = tmp
          /\ saving' = NotSaving
    /\ UNCHANGED <<up, pinVars, mem, disk, cli, lastToken, tokens, banned>>

\* _save renames devices.tmp, whoever wrote it last, and auth_ok is sent: the
\* client has its new token, unless it is gone.  Without a devices.tmp, or when
\* the disk fails, the save raises and the session ends.
SaveRenames ==
    /\ saving # NotSaving
    /\ saving.step = "rename"
    /\ saving' = NotSaving
    /\ \/ /\ tmp.there
          /\ disk' = tmp.devices
          /\ tmp' = NoFile
          /\ \/ UNCHANGED tokens
             \/ /\ saving.token # NoToken
                /\ held' = [held EXCEPT ![saving.client] = saving.token]
                /\ untold' = untold \ {saving.client}
                /\ forgotten' = forgotten \ {saving.client}
       \/ UNCHANGED <<files, tokens>>
    /\ UNCHANGED <<up, pinVars, mem, cli, lastToken, banned>>

-----------------------------------------------------------------------------
(* `ubudesk devices --revoke c`: a process of its own.                     *)

\* Variant: the device is not taken out of the registry that is saved.
CliLoadsAll(c) ==
    /\ ~Revoking
    /\ disk[c] # NoToken
    /\ cli' = [step |-> "loaded", client |-> c, devices |-> disk,
               offline |-> ~up]
    /\ UNCHANGED <<up, pinVars, mem, files, saving, lastToken, tokens, banned>>

CliLoads(c) ==
    /\ ~Revoking
    /\ disk[c] # NoToken
    /\ cli' = [step |-> "loaded", client |-> c,
               devices |-> [disk EXCEPT ![c] = NoToken], offline |-> ~up]
    /\ UNCHANGED <<up, pinVars, mem, files, saving, lastToken, tokens, banned>>

CliWrites ==
    /\ Revoking
    /\ cli.step = "loaded"
    /\ tmp' = File(cli.devices)
    /\ cli' = [cli EXCEPT !.step = "written"]
    /\ UNCHANGED <<up, pinVars, mem, disk, saving, lastToken, tokens, banned>>

CliRenames ==
    /\ Revoking
    /\ cli.step = "written"
    /\ cli' = CliDone
    /\ \/ /\ tmp.there
          /\ disk' = tmp.devices
          /\ tmp' = NoFile
          /\ banned' = IF cli.offline THEN banned \cup {cli.client} ELSE banned
       \/ UNCHANGED <<files, banned>>
    /\ UNCHANGED <<up, pinVars, mem, saving, lastToken, tokens>>

-----------------------------------------------------------------------------
Server == \/ \E pair \in BOOLEAN : ServerStart(pair)
          \/ ServerEnd \/ Tick \/ WrongPin \/ SaveWrites \/ SaveRenames
          \/ \E c \in Clients : RightPin(c) \/ TokenAccepted(c)
Cli == (\E c \in Clients : CliLoads(c)) \/ CliWrites \/ CliRenames

\* The server alone, and the server with revocations from the command line.
Spec == Init /\ [][Server]_vars
RevokeSpec == Init /\ [][Server \/ Cli]_vars

-----------------------------------------------------------------------------
(* Properties.                                                             *)

\* One PIN pairs at most one device, and not after PIN_MAX_ATTEMPTS wrong
\* ones (docs/PROTOCOL.md section 6; PinManager.verify).
GuessesBounded ==
    /\ pairings <= 1
    /\ guesses <= PIN_MAX_ATTEMPTS
    /\ pairings > 0 => guesses < PIN_MAX_ATTEMPTS

\* Before the first revocation, a client's token is the one the registry has for
\* it, on disk through any crash and in the memory of the server while it runs
\* (DeviceStore.add saves before auth_ok).  Only a client that was paired anew
\* and not told may find a later token there; a start that could not read
\* devices.json forgets those paired before it, and no one who is paired
\* afterwards.  A revocation that runs beside the server writes back what it
\* read, and may lose a pairing.
PairingDurable ==
    cli = CliIdle =>
        \A c \in Clients \ forgotten :
            LET Knows(token) == token = held[c] \/ (c \in untold /\ token > held[c])
            IN  Knows(disk[c]) /\ (up => Knows(mem[c]))

\* A device revoked while no server ran stays out, whatever the server does
\* later, until it is paired again.
BannedStaysOut ==
    \A c \in banned : disk[c] = NoToken /\ mem[c] = NoToken
=============================================================================
