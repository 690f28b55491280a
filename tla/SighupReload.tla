----------------------------- MODULE SighupReload -----------------------------
(***************************************************************************)
(* The main program: how it starts from files and flags, reloads the files *)
(* on SIGHUP, and stops.  The handler of SIGHUP is a goroutine of its own, *)
(* with a channel of size one.  It reads the files, gives the result to    *)
(* the MCP server (whose tools ToolReload follows from there) and then     *)
(* brings the OAuth snapshot up to date, which HTTP handlers and the token *)
(* exchange read at any time.  Serve, in HTTP mode, has registered for     *)
(* SIGHUP as well.                                                         *)
(*                                                                         *)
(* A configuration has the settings that matter here.  Files are read one  *)
(* after the other, the main file and then a drop-in, and may be edited at *)
(* any time.                                                               *)
(***************************************************************************)
EXTENDS Naturals, TLC

CONSTANTS
  Transports,    \* "http", and "stdio"
  Issuers,       \* authorization servers: URL and certificate authority
  NoIssuer,      \* none configured
  Scopes,        \* the OAuth fields that need no new client
  Toolsets,      \* values of the list of toolsets
  ValidToolsets, \* those whose names all exist
  Defaults,      \* the built-in configuration
  Parts,         \* what a file can hold: some of the settings
  Broken,        \* a file that cannot be read or decoded
  Flags,         \* what the command line can hold: some of the settings
  MaxEdits,      \* bound: edits of the files, over a behaviour
  MaxSignals,    \* bound: SIGHUPs, over a behaviour
  MaxFailures    \* bound: attempts to make a provider that fail, over a behaviour

StaticConfig ==
  [readOnly: BOOLEAN, requireOAuth: BOOLEAN, issuer: Issuers \cup {NoIssuer},
   scopes: Scopes, toolsets: Toolsets]

\* Later sources override earlier ones: some settings over a configuration.
\* For nested tables the merge is recursive; here a setting is a leaf.
deepMerge(config, part) == part @@ config

ASSUME SighupAssumption ==
  /\ Transports \subseteq {"http", "stdio"}
  /\ NoIssuer \notin Issuers
  /\ Defaults \in StaticConfig
  /\ Broken \notin Parts
  /\ \A part \in Parts \cup Flags, config \in StaticConfig :
       deepMerge(config, part) \in StaticConfig
  /\ MaxEdits \in Nat
  /\ MaxSignals \in Nat
  /\ MaxFailures \in Nat

VARIABLES
  transport,     \* chosen by the port at startup
  flags,         \* the command line
  main,          \* the main configuration file
  dropIn,        \* the drop-in file
  edits,         \* edits of the two so far
  signals,       \* SIGHUPs so far
  signalled,     \* value of edits when the last SIGHUP was sent
  sigHupCh,      \* the handler's channel holds a signal
  sigChan,       \* Serve's channel holds a signal
  handler,       \* where the handler stands
  newConfig,     \* what it has read so far
  config,        \* the MCP server's configuration
  snapshot,      \* the OAuth state
  behind,        \* no provider could be made for the configuration in force
  failures,      \* attempts to make a provider that failed so far
  server,        \* "serving", "stopping" or "stopped"
  asked          \* somebody wants the server to stop

files == <<main, dropIn, edits>>
channels == <<sigHupCh, sigChan>>
oauth == <<snapshot, behind, failures>>
vars == <<transport, flags, files, signals, signalled, channels, handler, newConfig,
          config, oauth, server, asked>>

\* An OAuth snapshot names the issuer its OIDC provider was made for.
Snapshot ==
  [issuer: Issuers \cup {NoIssuer}, scopes: Scopes, provider: Issuers \cup {NoIssuer}]

SnapshotFromConfig(c, provider) ==
  [issuer |-> c.issuer, scopes |-> c.scopes, provider |-> provider]

\* StaticConfig.Validate.
Accepted(c) ==
  /\ c.toolsets \in ValidToolsets
  /\ c.issuer # NoIssuer => c.requireOAuth

\* config.Read.
Read(m, d) == deepMerge(deepMerge(Defaults, m), d)

\* Complete: the flags go over the files, and OAuth is off without a port.
Started(m, d, f, t) ==
  LET c == deepMerge(Read(m, d), f) IN
    [c EXCEPT !.requireOAuth = c.requireOAuth /\ t = "http"]

Goto(from, to) == handler = from /\ handler' = to

Init ==
  /\ transport \in Transports
  /\ flags \in Flags
  /\ main \in Parts
  /\ dropIn \in Parts
  /\ edits = 0
  /\ signals = 0
  /\ signalled = 0
  /\ sigHupCh = FALSE
  /\ sigChan = FALSE
  /\ handler = "idle"
  /\ newConfig = Defaults
  /\ config = Started(main, dropIn, flags, transport)
  /\ Accepted(config)
  /\ snapshot = SnapshotFromConfig(config, config.issuer)
  /\ behind = FALSE
  /\ failures = 0
  /\ server = "serving"
  /\ asked = FALSE

-----------------------------------------------------------------------------
(* Files and signals *)

EditMain ==
  /\ edits < MaxEdits
  /\ edits' = edits + 1
  /\ main' \in Parts \cup {Broken}
  /\ UNCHANGED <<transport, flags, dropIn, signals, signalled, channels, handler, newConfig,
                 config, oauth, server, asked>>

EditDropIn ==
  /\ edits < MaxEdits
  /\ edits' = edits + 1
  /\ dropIn' \in Parts \cup {Broken}
  /\ UNCHANGED <<transport, flags, main, signals, signalled, channels, handler, newConfig,
                 config, oauth, server, asked>>

\* A defect: a channel without a buffer, which drops what nobody waits for.
HangupUnbuffered ==
  /\ server # "stopped"
  /\ signals < MaxSignals
  /\ signals' = signals + 1
  /\ signalled' = edits
  /\ sigHupCh' = (sigHupCh \/ handler = "idle")
  /\ sigChan' = (sigChan \/ transport = "http")
  /\ UNCHANGED <<transport, flags, files, handler, newConfig, config, oauth, server, asked>>

\* A SIGHUP goes to every channel that is registered for it and has room.
Hangup ==
  /\ server # "stopped"
  /\ signals < MaxSignals
  /\ signals' = signals + 1
  /\ signalled' = edits
  /\ sigHupCh' = TRUE
  /\ sigChan' = (sigChan \/ transport = "http")
  /\ UNCHANGED <<transport, flags, files, handler, newConfig, config, oauth, server, asked>>

-----------------------------------------------------------------------------
(* The handler *)

TakeSignal ==
  /\ server # "stopped"
  /\ sigHupCh
  /\ Goto("idle", "main")
  /\ sigHupCh' = FALSE
  /\ UNCHANGED <<transport, flags, files, signals, signalled, sigChan, newConfig, config,
                 oauth, server, asked>>

\* The files are read in order, and merged over the defaults.
ReadMain ==
  /\ server # "stopped"
  /\ main # Broken
  /\ Goto("main", "dropIn")
  /\ newConfig' = deepMerge(Defaults, main)
  /\ UNCHANGED <<transport, flags, files, signals, signalled, channels, config, oauth,
                 server, asked>>

ReadDropIn ==
  /\ server # "stopped"
  /\ dropIn # Broken
  /\ Goto("dropIn", "apply")
  /\ newConfig' = deepMerge(newConfig, dropIn)
  /\ UNCHANGED <<transport, flags, files, signals, signalled, channels, config, oauth,
                 server, asked>>

\* A file that cannot be read ends the reload.
ReadFails ==
  /\ server # "stopped"
  /\ \/ main = Broken /\ Goto("main", "idle")
     \/ dropIn = Broken /\ Goto("dropIn", "idle")
  /\ UNCHANGED <<transport, flags, files, signals, signalled, channels, newConfig, config,
                 oauth, server, asked>>

\* A defect: a configuration that is rejected goes on to the OAuth state.
RejectLate ==
  /\ server # "stopped"
  /\ ~Accepted(newConfig)
  /\ Goto("apply", "oauth")
  /\ UNCHANGED <<transport, flags, files, signals, signalled, channels, newConfig, config,
                 oauth, server, asked>>

\* ReloadConfiguration rejects what Validate does not accept ...
Reject ==
  /\ server # "stopped"
  /\ ~Accepted(newConfig)
  /\ Goto("apply", "idle")
  /\ UNCHANGED <<transport, flags, files, signals, signalled, channels, newConfig, config,
                 oauth, server, asked>>

\* ... and puts the rest in force.
Apply ==
  /\ server # "stopped"
  /\ Accepted(newConfig)
  /\ Goto("apply", "oauth")
  /\ config' = newConfig
  /\ UNCHANGED <<transport, flags, files, signals, signalled, channels, newConfig, oauth,
                 server, asked>>

\* No field of the OAuth state has changed.
KeepOAuth ==
  /\ server # "stopped"
  /\ SnapshotFromConfig(newConfig, snapshot.provider) = snapshot
  /\ Goto("oauth", "idle")
  /\ behind' = FALSE
  /\ UNCHANGED <<transport, flags, files, signals, signalled, channels, newConfig, config,
                 snapshot, failures, server, asked>>

\* The fields that need no new OIDC provider have changed.
StoreWellKnown ==
  /\ server # "stopped"
  /\ newConfig.issuer = snapshot.issuer
  /\ newConfig.scopes # snapshot.scopes
  /\ Goto("oauth", "idle")
  /\ snapshot' = SnapshotFromConfig(newConfig, snapshot.provider)
  /\ behind' = FALSE
  /\ UNCHANGED <<transport, flags, files, signals, signalled, channels, newConfig, config,
                 failures, server, asked>>

\* A defect: the new snapshot is published before its provider is there.
StoreEarly ==
  /\ server # "stopped"
  /\ newConfig.issuer # snapshot.issuer
  /\ Goto("oauth", "create")
  /\ snapshot' = SnapshotFromConfig(newConfig, snapshot.provider)
  /\ UNCHANGED <<transport, flags, files, signals, signalled, channels, newConfig, config,
                 behind, failures, server, asked>>

\* HasProviderConfigChanged: a new OIDC provider is needed.
NeedProvider ==
  /\ server # "stopped"
  /\ newConfig.issuer # snapshot.issuer
  /\ Goto("oauth", "create")
  /\ UNCHANGED <<transport, flags, files, signals, signalled, channels, newConfig, config,
                 oauth, server, asked>>

\* CreateOIDCProviderAndClient asks the issuer, if there is one, and gets an answer.
StoreProvider ==
  /\ server # "stopped"
  /\ Goto("create", "idle")
  /\ snapshot' = SnapshotFromConfig(newConfig, newConfig.issuer)
  /\ behind' = FALSE
  /\ UNCHANGED <<transport, flags, files, signals, signalled, channels, newConfig, config,
                 failures, server, asked>>

\* It gets an error, or the authority cannot be read: the OAuth state stays as it
\* was.  The third outcome is neither, and no step: an issuer that takes the
\* request and does not answer keeps the handler here, since no client of the
\* code has a timeout and the context is the background one.
CreateFails ==
  /\ server # "stopped"
  /\ newConfig.issuer # NoIssuer
  /\ failures < MaxFailures
  /\ Goto("create", "idle")
  /\ behind' = TRUE
  /\ failures' = failures + 1
  /\ UNCHANGED <<transport, flags, files, signals, signalled, channels, newConfig, config,
                 snapshot, server, asked>>

-----------------------------------------------------------------------------
(* Stopping *)

\* SIGTERM or SIGINT, the end of standard input, or a listener that fails.
AskToStop ==
  /\ server = "serving"
  /\ asked' = TRUE
  /\ \/ transport = "http" /\ sigChan' = TRUE /\ UNCHANGED server
     \/ server' = "stopping" /\ UNCHANGED sigChan
  /\ UNCHANGED <<transport, flags, files, signals, signalled, sigHupCh, handler, newConfig,
                 config, oauth>>

\* Serve takes a signal, whichever it is, and shuts down.
TakeStop ==
  /\ server = "serving"
  /\ sigChan
  /\ server' = "stopping"
  /\ sigChan' = FALSE
  /\ UNCHANGED <<transport, flags, files, signals, signalled, sigHupCh, handler, newConfig,
                 config, oauth, asked>>

\* Run returns; the handler is not waited for.
Exit ==
  /\ server = "stopping"
  /\ server' = "stopped"
  /\ UNCHANGED <<transport, flags, files, signals, signalled, channels, handler, newConfig,
                 config, oauth, asked>>

Handle ==
  \/ TakeSignal \/ ReadMain \/ ReadDropIn \/ ReadFails \/ Reject \/ Apply
  \/ KeepOAuth \/ StoreWellKnown \/ NeedProvider \/ StoreProvider \/ CreateFails

Next ==
  \/ EditMain \/ EditDropIn \/ Hangup
  \/ Handle
  \/ AskToStop \/ TakeStop \/ Exit

\* A step of the handler that waits for nobody but the scheduler.
Proceed == Handle /\ (handler = "create" => newConfig.issuer = NoIssuer)

\* The goroutines run; nothing makes an edit, a signal or a stop happen, and
\* nothing makes an issuer answer.
Fairness == WF_vars(Proceed) /\ WF_vars(TakeStop) /\ WF_vars(Exit)

Spec == Init /\ [][Next]_vars

FairSpec == Spec /\ Fairness

-----------------------------------------------------------------------------
(* Properties *)

\* Every variable has its type, and what is in force has passed Validate.
TypeOK ==
  /\ transport \in Transports
  /\ flags \in Flags
  /\ main \in Parts \cup {Broken}
  /\ dropIn \in Parts \cup {Broken}
  /\ edits \in Nat
  /\ signals \in Nat
  /\ signalled \in Nat
  /\ sigHupCh \in BOOLEAN
  /\ sigChan \in BOOLEAN
  /\ handler \in {"idle", "main", "dropIn", "apply", "oauth", "create"}
  /\ newConfig \in StaticConfig
  /\ config \in StaticConfig
  /\ Accepted(config)
  /\ snapshot \in Snapshot
  /\ behind \in BOOLEAN
  /\ failures \in Nat
  /\ server \in {"serving", "stopping", "stopped"}
  /\ asked \in BOOLEAN

\* Who loads the snapshot, at any time, finds an OIDC provider that belongs to
\* the authorization URL beside it ("all consumers see a consistent view").
SnapshotConsistent == snapshot.provider = snapshot.issuer

\* Between reloads the OAuth state is that of the configuration in force,
\* whatever was rejected or could not be read before, unless making the provider
\* for it failed; and then the next reload sees the difference and asks again.
OAuthAgrees ==
  handler = "idle" /\ ~behind => snapshot = SnapshotFromConfig(config, config.issuer)

\* OAuthAgrees and SnapshotConsistent, made inductive.
OAuthInv ==
  /\ SnapshotConsistent
  /\ handler \in {"oauth", "create"} => newConfig = config
  /\ handler \in {"main", "dropIn", "apply"} /\ ~behind =>
       snapshot = SnapshotFromConfig(config, config.issuer)
  /\ handler = "create" => newConfig.issuer # snapshot.issuer
  /\ OAuthAgrees

\* What is on disk is a configuration that a reload can put in force.
Usable == main # Broken /\ dropIn # Broken /\ Accepted(Read(main, dropIn))

\* The signal sent after the last edit takes effect ("Configuration can be
\* reloaded at runtime by sending a SIGHUP signal"): the server ends up with what
\* is on disk, if that is usable, while it serves.
LastSignalRead ==
  <>[](server = "serving" /\ signals > 0 /\ signalled = edits /\ Usable
         => config = Read(main, dropIn))

\* That signal is not lost, though signals are merged, edits fall between the
\* reads of two files, and issuers take any time or fail: unless one of them
\* never answers, which leaves the handler waiting for it for good.
SignalTakesEffect == []<>(handler # "create") => LastSignalRead

\* The server stops only when somebody asks it to: SIGHUP reloads it
\* ("Configuration can be reloaded at runtime by sending a SIGHUP signal to the
\* running server process").
StopsOnlyWhenAsked == server # "serving" => asked

\* A flag holds as long as the server runs ("If true, only tools annotated with
\* readOnlyHint=true are exposed").
FlagsHold == "readOnly" \in DOMAIN flags => config.readOnly = flags.readOnly
=============================================================================
