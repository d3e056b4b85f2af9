---------------------------- MODULE AppLifecycle ----------------------------
(***************************************************************************)
(* One run of the program: main, the command line (src/cli), startup       *)
(* (src/appStartup), the configuration (src/core/appConfig), the logger    *)
(* (src/core/utils/logging) and the handlers that log while the proxy      *)
(* serves.  External: the operating system, which delivers signals and     *)
(* may refuse a directory, an address or a connection; and fiber, whose    *)
(* Listen returns as soon as its context ends and its listener is closed,  *)
(* or a connection cannot be accepted, while handlers that are running go  *)
(* on in their goroutines.                                                 *)
(***************************************************************************)

CONSTANTS
  CommandLines,  \* command, and what becomes of its flags
  Files,         \* the configuration files
  Requests       \* the requests that clients send

Addresses == {"missing", "no port", "host:port"}
URLs == {"missing", "not HTTP", "with credentials", "with query", "http"}
Commands == {"none", "help", "version", "local", "remote", "unknown"}

ASSUME InputAssumption ==
  /\ CommandLines \subseteq [command : Commands,
                             flags : {"parsed", "-help", "unknown flag", "extra argument"}]
  /\ Files \subseteq [readable : BOOLEAN, logDirectory : {"", "logs"},
                      localBind : Addresses, remoteURL : URLs, providerURL : URLs,
                      remoteBind : Addresses]

VARIABLES
  args, file,   \* the inputs of the run
  pc,           \* where the main goroutine is
  code,         \* what cli.Run returns, once that is decided
  TheConfig,    \* "nil" or whether it has a provider URL
  appLogger,    \* "nil" or "set"
  notified,     \* whether signals end the context, not the process
  signalled,    \* whether the context has ended, and the server knows
  server,       \* what has become of the proxy's server
  handlers,     \* the handler of each request
  ended         \* how the process ended: an exit code, a panic or a kill

inputs == <<args, file>>
vars == <<inputs, pc, code, TheConfig, appLogger, notified, signalled, server, handlers, ended>>

exitSuccess == "0"
exitFailure == "1"
exitUsage   == "2"
Alive == "alive"

Init ==
  /\ args \in CommandLines
  /\ file \in Files
  /\ pc = "cli"
  /\ code = exitSuccess
  /\ TheConfig = "nil"
  /\ appLogger = "nil"
  /\ notified = FALSE
  /\ signalled = "no"
  /\ server = "none"
  /\ handlers = [r \in Requests |-> "none"]
  /\ ended = Alive

-----------------------------------------------------------------------------
(* validateBindAddress, parseHTTPURL and validateProxyConfig *)
ValidBindAddress(address) == address = "host:port"
ValidURL(url) == url = "http"

ValidProxyConfig(f, role) ==
  /\ f.logDirectory # ""
  /\ IF role = "local"
     THEN ValidBindAddress(f.localBind) /\ ValidURL(f.remoteURL) /\ ValidURL(f.providerURL)
     ELSE ValidBindAddress(f.remoteBind)

(* Run and runProxyRole: the exit code that the command line decides. *)
UsageCode ==
  IF args.command \in {"help", "version"} THEN exitSuccess
  ELSE IF args.command \in {"none", "unknown"} THEN exitUsage
  ELSE IF args.flags = "-help" THEN exitSuccess ELSE exitUsage

StartsRole == args.command \in {"local", "remote"} /\ args.flags = "parsed"

At(label) == ended = Alive /\ pc = label

Cli ==
  /\ At("cli")
  /\ IF StartsRole THEN pc' = "load config" /\ UNCHANGED code
                   ELSE pc' = "exit" /\ code' = UsageCode
  /\ UNCHANGED <<inputs, TheConfig, appLogger, notified, signalled, server, handlers, ended>>

-----------------------------------------------------------------------------
(* appStartup.Run, step by step.  The process loads its configuration      *)
(* once; a later load would find TheConfig set and change nothing.         *)
LoadConfigFromFile ==
  /\ At("load config")
  /\ IF file.readable /\ ValidProxyConfig(file, args.command)
     THEN /\ TheConfig' = IF args.command = "local" THEN "with provider URL" ELSE "without"
          /\ pc' = "load logger"
          /\ UNCHANGED code
     ELSE /\ pc' = "exit"
          /\ code' = exitFailure
          /\ UNCHANGED TheConfig
  /\ UNCHANGED <<inputs, appLogger, notified, signalled, server, handlers, ended>>

(* Mutation of LoadLogger: its closer is called, not deferred. *)
LoadLoggerUndeferred ==
  /\ At("load logger")
  /\ pc' = "check role"
  /\ UNCHANGED <<inputs, code, TheConfig, appLogger, notified, signalled, server, handlers, ended>>

LoadLogger ==
  /\ At("load logger")
  /\ \/ appLogger' = "set" /\ pc' = "check role" /\ UNCHANGED code
     \/ appLogger' = "nil" /\ pc' = "exit" /\ code' = exitFailure
  /\ UNCHANGED <<inputs, TheConfig, notified, signalled, server, handlers, ended>>

(* Mutation of CheckRole: every role goes on. *)
CheckNoRole ==
  /\ At("check role")
  /\ pc' = "notify" /\ UNCHANGED code
  /\ UNCHANGED <<inputs, TheConfig, appLogger, notified, signalled, server, handlers, ended>>

(* The remote role ends here, by way of the deferred closeLogger. *)
CheckRole ==
  /\ At("check role")
  /\ IF args.command = "local" THEN pc' = "notify" /\ UNCHANGED code
                               ELSE pc' = "close logger" /\ code' = exitFailure
  /\ UNCHANGED <<inputs, TheConfig, appLogger, notified, signalled, server, handlers, ended>>

NotifyContext ==
  /\ At("notify")
  /\ notified' = TRUE
  /\ pc' = "new proxy"
  /\ UNCHANGED <<inputs, code, TheConfig, appLogger, signalled, server, handlers, ended>>

(* GetProviderURL dereferences the URL that validation returned. *)
NewLocalProxy ==
  /\ At("new proxy")
  /\ IF TheConfig = "with provider URL" THEN pc' = "listen" /\ UNCHANGED ended
                                        ELSE ended' = "startup panic" /\ UNCHANGED pc
  /\ UNCHANGED <<inputs, code, TheConfig, appLogger, notified, signalled, server, handlers>>

(* proxyServer.Run: the address is taken, or the proxy serves, until it    *)
(* returns in ListenReturns or ListenFails.  A context that ended before   *)
(* the server had its listener may go unnoticed.                           *)
Listen ==
  /\ At("listen")
  /\ \/ /\ pc' = "serving" /\ server' = "up"
        /\ signalled' \in IF signalled = "early" THEN {"seen", "missed"} ELSE {signalled}
        /\ UNCHANGED code
     \/ /\ pc' = "stop" /\ code' = exitFailure
        /\ UNCHANGED <<signalled, server>>
  /\ UNCHANGED <<inputs, TheConfig, appLogger, notified, handlers, ended>>

(* Mutation of ListenReturns: Listen waits for the handlers. *)
ListenDrains ==
  /\ At("serving")
  /\ signalled = "seen"
  /\ \A r \in Requests : handlers[r] # "running"
  /\ pc' = "stop" /\ server' = "shut down"
  /\ UNCHANGED <<inputs, code, TheConfig, appLogger, notified, signalled, handlers, ended>>

ListenReturns ==
  /\ At("serving")
  /\ signalled = "seen"
  /\ pc' = "stop" /\ server' = "shut down"
  /\ UNCHANGED <<inputs, code, TheConfig, appLogger, notified, signalled, handlers, ended>>

(* Mutation of ListenFails: the error of a server that was up is dropped. *)
ListenFailsQuietly ==
  /\ At("serving")
  /\ pc' = "stop" /\ server' = "failed"
  /\ UNCHANGED <<inputs, code, TheConfig, appLogger, notified, signalled, handlers, ended>>

(* A connection cannot be accepted, for want of a file descriptor say, and *)
(* Run returns the error of a server that was up.                          *)
ListenFails ==
  /\ At("serving")
  /\ pc' = "stop" /\ server' = "failed"
  /\ code' = exitFailure
  /\ UNCHANGED <<inputs, TheConfig, appLogger, notified, signalled, handlers, ended>>

(* The deferred calls, the last one first, and the exit. *)
StopNotify ==
  /\ At("stop")
  /\ notified' = FALSE
  /\ pc' = "close logger"
  /\ UNCHANGED <<inputs, code, TheConfig, appLogger, signalled, server, handlers, ended>>

CloseLogger ==
  /\ At("close logger")
  /\ appLogger' = "nil"
  /\ pc' = "exit"
  /\ UNCHANGED <<inputs, code, TheConfig, notified, signalled, server, handlers, ended>>

Exit ==
  /\ At("exit")
  /\ ended' = code
  /\ UNCHANGED <<inputs, pc, code, TheConfig, appLogger, notified, signalled, server, handlers>>

-----------------------------------------------------------------------------
(* The environment: SIGINT or SIGTERM, and requests. *)
Signal ==
  /\ ended = Alive
  /\ notified => signalled = "no"
  /\ IF notified
     THEN /\ signalled' = IF pc = "serving" THEN "seen" ELSE "early"
          /\ UNCHANGED ended
     ELSE ended' = "killed" /\ UNCHANGED signalled
  /\ UNCHANGED <<inputs, pc, code, TheConfig, appLogger, notified, server, handlers>>

Accept(r) ==
  /\ At("serving")
  /\ handlers[r] = "none"
  /\ handlers' = [handlers EXCEPT ![r] = "running"]
  /\ UNCHANGED <<inputs, pc, code, TheConfig, appLogger, notified, signalled, server, ended>>

(* A handler logs a measurement or an error, through a logger that must    *)
(* not be nil: nothing recovers from a panic in a handler's goroutine.     *)
HandlerLogs(r) ==
  /\ ended = Alive
  /\ handlers[r] = "running"
  /\ appLogger = "nil"
  /\ ended' = "handler panic"
  /\ UNCHANGED <<inputs, pc, code, TheConfig, appLogger, notified, signalled, server, handlers>>

HandlerEnds(r) ==
  /\ ended = Alive
  /\ handlers[r] = "running"
  /\ handlers' = [handlers EXCEPT ![r] = "done"]
  /\ UNCHANGED <<inputs, pc, code, TheConfig, appLogger, notified, signalled, server, ended>>

MainStep == \/ Cli \/ LoadConfigFromFile \/ LoadLogger \/ CheckRole \/ NotifyContext
            \/ NewLocalProxy \/ Listen \/ ListenReturns \/ StopNotify \/ CloseLogger \/ Exit

Next ==
  \/ MainStep \/ ListenFails \/ Signal
  \/ \E r \in Requests : Accept(r) \/ HandlerLogs(r) \/ HandlerEnds(r)
  \/ (ended # Alive \/ At("serving")) /\ UNCHANGED vars

Spec == Init /\ [][Next]_vars

(* The main goroutine is scheduled.  Nothing says that a handler moves,    *)
(* for its provider may hang, or that the listener ever fails.             *)
FairSpec == Spec /\ WF_vars(MainStep)

-----------------------------------------------------------------------------
(* The type of the state. *)
TypeOK ==
  /\ args \in CommandLines /\ file \in Files
  /\ pc \in {"cli", "load config", "load logger", "check role", "notify", "new proxy",
             "listen", "serving", "stop", "close logger", "exit"}
  /\ code \in {exitSuccess, exitFailure, exitUsage}
  /\ TheConfig \in {"nil", "with provider URL", "without"}
  /\ appLogger \in {"nil", "set"}
  /\ notified \in BOOLEAN /\ signalled \in {"no", "early", "seen", "missed"}
  /\ server \in {"none", "up", "shut down", "failed"}
  /\ handlers \in [Requests -> {"none", "running", "done"}]
  /\ ended \in {Alive, "startup panic", "handler panic", "killed",
                exitSuccess, exitFailure, exitUsage}

(* Startup never dereferences nil: neither the logger before LoadLogger or *)
(* after its closer, nor the provider URL that only the local role has,    *)
(* whatever the configuration and the role.                                *)
StartupNeverPanics ==
  /\ ended # "startup panic"
  /\ pc \in {"check role", "notify", "new proxy", "listen", "serving"} => appLogger = "set"

(* A handler loses its logger only after the server that called it has     *)
(* gone: shut down by a signal, which leaves the exit code 0, or failed in *)
(* its listener, which leaves 1.  While the server is up no handler        *)
(* panics, and neither does one of a process that never served.            *)
OnlyLateHandlersPanic ==
  ended = "handler panic" =>
    /\ \/ server = "shut down" /\ signalled = "seen" /\ code = exitSuccess
       \/ server = "failed" /\ code = exitFailure
    /\ pc = "exit"
    /\ \E r \in Requests : handlers[r] = "running"

(* What an exit code tells: 0 is for help and for a valid local proxy that *)
(* a signal shut down, 2 for a wrong command line, and 1 for a role that   *)
(* never served or a proxy whose listener failed.  Only the local role     *)
(* ever serves, with a valid configuration.                                *)
ExitCodesTell ==
  /\ ended = exitSuccess =>
       \/ ~StartsRole /\ (args.command \in {"help", "version"} \/ args.flags = "-help")
       \/ StartsRole /\ server = "shut down" /\ signalled = "seen"
  /\ ended = exitUsage => ~StartsRole
  /\ ended = exitFailure => StartsRole /\ server \in {"none", "failed"}
  /\ server # "none" => args.command = "local" /\ ValidProxyConfig(file, "local")

(* A signal that arrives while the proxy serves ends the process, even     *)
(* while handlers hang.                                                    *)
SignalEndsProcess == signalled = "seen" ~> ended # Alive

=============================================================================
