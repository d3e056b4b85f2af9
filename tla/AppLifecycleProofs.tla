------------------------- MODULE AppLifecycleProofs -------------------------
(***************************************************************************)
(* The safety of a run of the program, for every set of command lines,     *)
(* configuration files and requests.  The invariant says what startup has  *)
(* established at each point (the role, a valid configuration, a logger),  *)
(* how the server came up and went, and on which paths the process may     *)
(* come to its exit.                                                       *)
(***************************************************************************)
EXTENDS AppLifecycle, TLAPS

Running == \E r \in Requests : handlers[r] = "running"

(* How a server that was up has gone, and the exit code that this left. *)
ShutDown == server = "shut down" /\ signalled = "seen" /\ code = exitSuccess
Failed == server = "failed" /\ code = exitFailure

(* What startup has established where the main goroutine is. *)
Started ==
  /\ pc \in {"load config", "load logger", "check role", "notify", "new proxy", "listen",
             "serving", "stop", "close logger"} => StartsRole
  /\ pc \in {"load logger", "check role", "notify", "new proxy", "listen", "serving", "stop",
             "close logger"} => ValidProxyConfig(file, args.command)
  /\ pc \in {"load logger", "check role", "notify", "new proxy"} /\ args.command = "local"
       => TheConfig = "with provider URL"
  /\ pc \in {"notify", "new proxy", "listen", "serving", "stop"} => args.command = "local"
  /\ pc \in {"check role", "notify", "new proxy", "listen", "serving", "stop", "close logger"}
       => appLogger = "set"

(* What has become of the server where the main goroutine is: it is up     *)
(* while the proxy serves, and has gone once the deferred calls run.       *)
Server ==
  /\ pc \in {"cli", "load config", "load logger", "check role", "notify", "new proxy", "listen"}
       => server = "none"
  /\ pc = "serving" => server = "up"
  /\ pc \in {"stop", "close logger", "exit"} => server # "up"
  /\ server # "none" => args.command = "local" /\ ValidProxyConfig(file, "local")

(* The exit code that is decided, and why. *)
Decided ==
  /\ pc \in {"cli", "load config", "load logger", "check role", "notify", "new proxy",
             "listen", "serving"} => code = exitSuccess
  /\ pc \in {"stop", "close logger"} =>
       ShutDown \/ Failed \/ (server = "none" /\ code = exitFailure)
  /\ pc = "exit" =>
       \/ ~StartsRole /\ code = UsageCode
       \/ StartsRole /\ server = "none" /\ code = exitFailure
       \/ StartsRole /\ (ShutDown \/ Failed)

(* A handler runs only while the server is up or after it has gone. *)
HandlersLate == Running => pc = "serving" \/ (pc \in {"stop", "close logger", "exit"}
                                             /\ (ShutDown \/ Failed))

(* How the process may have ended. *)
Ended ==
  /\ ended # "startup panic"
  /\ ended \in {exitSuccess, exitFailure, exitUsage} => pc = "exit" /\ ended = code
  /\ ended = "handler panic" => pc = "exit" /\ Running /\ (ShutDown \/ Failed)

Inv == TypeOK /\ Started /\ Server /\ Decided /\ HandlersLate /\ Ended

-----------------------------------------------------------------------------
LEMMA InitInv == Init => Inv
<1> SUFFICES ASSUME Init PROVE Inv
  OBVIOUS
<1>1. TypeOK
  BY DEF Init, TypeOK, Alive, exitSuccess
<1>2. Started /\ Server /\ Decided
  BY DEF Init, Started, Server, Decided
<1>3. HandlersLate
  BY DEF Init, HandlersLate, Running
<1>4. Ended
  BY DEF Init, Ended, Alive, exitSuccess, exitFailure, exitUsage
<1> QED
  BY <1>1, <1>2, <1>3, <1>4 DEF Inv

(* Where the main goroutine stays, so does what the invariant says of it.  *)
LEMMA SameParts ==
  ASSUME UNCHANGED <<args, file, pc, code, TheConfig, appLogger, signalled, server>>,
         Started, Server, Decided
  PROVE  (Started /\ Server /\ Decided)'
<1>1. UNCHANGED <<StartsRole, UsageCode, ValidProxyConfig(file, "local"),
                  ValidProxyConfig(file, args.command)>>
  BY DEF StartsRole, UsageCode, ValidProxyConfig
<1>2. (ShutDown' <=> ShutDown) /\ (Failed' <=> Failed)
  BY DEF ShutDown, Failed
<1>3. Started'
  BY <1>1 DEF Started
<1>4. Server'
  BY <1>1 DEF Server
<1>5. Decided'
  BY <1>1, <1>2 DEF Decided
<1> QED
  BY <1>3, <1>4, <1>5

(* And the state keeps its type if what is not the main goroutine's does.  *)
LEMMA SameTypes ==
  ASSUME TypeOK, UNCHANGED <<args, file, pc, code, TheConfig, appLogger, server>>,
         notified' = notified,
         signalled' \in {"no", "early", "seen", "missed"},
         handlers' \in [Requests -> {"none", "running", "done"}],
         ended' \in {Alive, "startup panic", "handler panic", "killed",
                    exitSuccess, exitFailure, exitUsage}
  PROVE  TypeOK'
<1>1. (notified \in BOOLEAN)'
  BY Zenon DEF TypeOK
<1>2. /\ args' \in CommandLines /\ file' \in Files
      /\ pc' \in {"cli", "load config", "load logger", "check role", "notify", "new proxy",
                  "listen", "serving", "stop", "close logger", "exit"}
      /\ code' \in {exitSuccess, exitFailure, exitUsage}
      /\ TheConfig' \in {"nil", "with provider URL", "without"}
      /\ appLogger' \in {"nil", "set"}
      /\ server' \in {"none", "up", "shut down", "failed"}
  BY DEF TypeOK
<1> QED
  BY <1>1, <1>2, Zenon DEF TypeOK, Alive, exitSuccess, exitFailure, exitUsage

(* The steps before the proxy serves and the deferred calls: the handlers  *)
(* and the inputs stay as they are.                                        *)
LEMMA MainInv == Inv /\ MainStep => Inv'
<1> SUFFICES ASSUME Inv, MainStep PROVE Inv'
  OBVIOUS
<1> USE DEF Inv, At, Alive, exitSuccess, exitFailure, exitUsage, inputs
<1>1. /\ ended = Alive
      /\ UNCHANGED <<args, file, handlers>>
  BY DEF MainStep, Cli, LoadConfigFromFile, LoadLogger, CheckRole, NotifyContext,
         NewLocalProxy, Listen, ListenReturns, StopNotify, CloseLogger, Exit
<1>2. UNCHANGED <<Running, StartsRole, UsageCode, ValidProxyConfig(file, "local"),
                  ValidProxyConfig(file, args.command)>>
  BY <1>1 DEF Running, StartsRole, UsageCode, ValidProxyConfig
<1>3. CASE Cli
  <2>1. UsageCode \in {exitSuccess, exitUsage}
    BY DEF UsageCode
  <2> QED
    BY <1>1, <1>2, <1>3, <2>1, ZenonT(40) DEF Cli, TypeOK, Started, Server, Decided, HandlersLate,
              Ended, ShutDown, Failed
<1>4. CASE LoadConfigFromFile
  BY <1>1, <1>2, <1>4, ZenonT(40) DEF LoadConfigFromFile, TypeOK, Started, Server,
              Decided, HandlersLate, Ended, ShutDown, Failed
<1>5. CASE LoadLogger
  BY <1>1, <1>2, <1>5 DEF LoadLogger, TypeOK, Started, Server, Decided, HandlersLate,
              Ended, ShutDown, Failed
<1>6. CASE CheckRole
  BY <1>1, <1>2, <1>6 DEF CheckRole, TypeOK, Started, Server, Decided, HandlersLate,
              Ended, ShutDown, Failed
<1>7. CASE NotifyContext
  BY <1>1, <1>2, <1>7 DEF NotifyContext, TypeOK, Started, Server, Decided, HandlersLate,
              Ended, ShutDown, Failed
<1>8. CASE NewLocalProxy
  BY <1>1, <1>2, <1>8 DEF NewLocalProxy, TypeOK, Started, Server, Decided, HandlersLate,
              Ended, ShutDown, Failed
<1>9. CASE Listen
  BY <1>1, <1>2, <1>9 DEF Listen, TypeOK, Started, Server, Decided, HandlersLate,
              Ended, ShutDown, Failed
<1>10. CASE ListenReturns
  BY <1>1, <1>2, <1>10 DEF ListenReturns, TypeOK, Started, Server, Decided, HandlersLate,
              Ended, ShutDown, Failed
<1>11. CASE StopNotify
  BY <1>1, <1>2, <1>11 DEF StopNotify, TypeOK, Started, Server, Decided, HandlersLate,
              Ended, ShutDown, Failed
<1>12. CASE CloseLogger
  BY <1>1, <1>2, <1>12, ZenonT(40) DEF CloseLogger, TypeOK, Started, Server, Decided, HandlersLate,
              Ended, ShutDown, Failed
<1>13. CASE Exit
  <2>1. UNCHANGED <<pc, code, TheConfig, appLogger, notified, signalled, server>>
    BY <1>13 DEF Exit
  <2>2. pc = "exit" /\ ended' = code
    BY <1>13 DEF Exit
  <2>3. (Started /\ Server /\ Decided)' /\ HandlersLate'
    <3>1. HandlersLate'
      BY <1>2, <2>1, <2>2 DEF HandlersLate, ShutDown, Failed
    <3> QED
      BY <1>1, <2>1, <3>1, SameParts
  <2>4. code \in {exitSuccess, exitFailure, exitUsage}
    BY DEF TypeOK
  <2>5. Ended'
    BY <2>1, <2>2, <2>4 DEF Ended
  <2>6. TypeOK'
    BY <1>1, <2>1, <2>2, SameTypes DEF TypeOK
  <2> QED
    BY <2>3, <2>5, <2>6
<1> QED
  BY <1>3, <1>4, <1>5, <1>6, <1>7, <1>8, <1>9, <1>10, <1>11, <1>12, <1>13 DEF MainStep

LEMMA NextInv == Inv /\ [Next]_vars => Inv'
<1> SUFFICES ASSUME Inv, [Next]_vars PROVE Inv'
  OBVIOUS
<1> USE DEF Inv, At, Alive, exitSuccess, exitFailure, exitUsage, inputs
<1>1. CASE MainStep
  BY <1>1, MainInv
<1>2. CASE ListenFails
  <2>1. /\ ended = Alive
        /\ UNCHANGED <<args, file, handlers>>
    BY <1>2 DEF ListenFails
  <2>2. UNCHANGED <<Running, StartsRole, UsageCode, ValidProxyConfig(file, "local"),
                    ValidProxyConfig(file, args.command)>>
    BY <2>1 DEF Running, StartsRole, UsageCode, ValidProxyConfig
  <2> QED
    BY <1>2, <2>1, <2>2 DEF ListenFails, TypeOK, Started, Server, Decided, HandlersLate,
       Ended, ShutDown, Failed
<1>3. CASE Signal
  <2>1. UNCHANGED <<args, file, pc, code, TheConfig, appLogger, handlers>>
    BY <1>3 DEF Signal
  <2>2. UNCHANGED <<Running, StartsRole, UsageCode, ValidProxyConfig(file, "local"),
                    ValidProxyConfig(file, args.command)>>
    BY <2>1 DEF Running, StartsRole, UsageCode, ValidProxyConfig
  <2>3. server' = server /\ code' = code
    BY <1>3 DEF Signal
  <2>4. /\ signalled' = signalled \/ (signalled = "no" /\ signalled' \in {"seen", "early"})
        /\ ended = Alive /\ ended' \in {Alive, "killed"}
    BY <1>3 DEF Signal
  <2>5. (ShutDown => ShutDown') /\ (Failed => Failed')
    BY <2>3, <2>4 DEF ShutDown, Failed
  <2>6. (Started /\ Server /\ Decided /\ HandlersLate)'
    <3>1. Started' /\ Server'
      BY <2>1, <2>2, <2>3 DEF Started, Server
    <3>2. Decided'
      BY <2>1, <2>2, <2>3, <2>5 DEF Decided
    <3>3. HandlersLate'
      BY <2>1, <2>2, <2>5 DEF HandlersLate
    <3> QED
      BY <3>1, <3>2, <3>3
  <2>7. Ended'
    BY <2>4 DEF Ended
  <2>8. TypeOK'
    <3>1. notified' = notified
      BY <1>3 DEF Signal
    <3> QED
      BY <2>1, <2>3, <2>4, <3>1, SameTypes DEF TypeOK
  <2> QED
    BY <2>6, <2>7, <2>8
<1>4. ASSUME NEW r \in Requests, Accept(r) PROVE Inv'
  <2>1. UNCHANGED <<args, file, pc, code, TheConfig, appLogger, notified, signalled, server, ended>>
    BY <1>4 DEF Accept
  <2>2. (Started /\ Server /\ Decided)'
    BY <2>1, SameParts
  <2>3. TypeOK'
    BY <1>4, <2>1 DEF Accept, TypeOK
  <2>4. Ended' /\ HandlersLate'
    BY <1>4, <2>1 DEF Accept, Ended, HandlersLate
  <2> QED
    BY <2>2, <2>3, <2>4
<1>5. ASSUME NEW r \in Requests, HandlerLogs(r) PROVE Inv'
  <2>1. UNCHANGED <<args, file, pc, code, TheConfig, appLogger, notified, signalled, server,
                    handlers>>
    BY <1>5 DEF HandlerLogs
  <2>2. (Started /\ Server /\ Decided)'
    BY <2>1, SameParts
  <2>3. pc = "exit" /\ Running /\ (ShutDown \/ Failed)
    BY <1>5 DEF HandlerLogs, Started, HandlersLate, Running
  <2>4. (Running /\ (ShutDown \/ Failed))'
    BY <2>1, <2>3 DEF Running, ShutDown, Failed
  <2>5. Ended'
    BY <1>5, <2>1, <2>3, <2>4 DEF HandlerLogs, Ended
  <2>6. HandlersLate'
    BY <2>1, <2>3, <2>4 DEF HandlersLate
  <2>7. TypeOK'
    BY <1>5, <2>1 DEF HandlerLogs, TypeOK
  <2> QED
    BY <2>2, <2>5, <2>6, <2>7
<1>6. ASSUME NEW r \in Requests, HandlerEnds(r) PROVE Inv'
  <2>1. UNCHANGED <<args, file, pc, code, TheConfig, appLogger, notified, signalled, server, ended>>
    BY <1>6 DEF HandlerEnds
  <2>2. (Started /\ Server /\ Decided)'
    BY <2>1, SameParts
  <2>3. TypeOK'
    <3>1. (handlers \in [Requests -> {"none", "running", "done"}])'
      BY <1>6 DEF HandlerEnds, TypeOK
    <3> QED
      BY <2>1, <3>1, SameTypes DEF TypeOK
  <2>4. Ended'
    BY <1>6, <2>1 DEF HandlerEnds, Ended
  <2>5. HandlersLate'
    <3>1. Running' => Running
      BY <1>6 DEF HandlerEnds, Running, TypeOK
    <3>2. (ShutDown => ShutDown') /\ (Failed => Failed')
      BY <2>1 DEF ShutDown, Failed
    <3> QED
      BY <2>1, <3>1, <3>2 DEF HandlersLate
  <2> QED
    BY <2>2, <2>3, <2>4, <2>5
<1>7. CASE UNCHANGED vars
  <2>1. UNCHANGED <<args, file, pc, code, TheConfig, appLogger, notified, signalled, server,
                    handlers, ended>>
    BY <1>7 DEF vars
  <2>2. (Started /\ Server /\ Decided)'
    BY <2>1, SameParts
  <2>3. TypeOK'
    BY <2>1, SameTypes DEF TypeOK
  <2>4. (Running' <=> Running) /\ (ShutDown' <=> ShutDown) /\ (Failed' <=> Failed)
    BY <2>1 DEF Running, ShutDown, Failed
  <2>5. Ended' /\ HandlersLate'
    BY <2>1, <2>4 DEF Ended, HandlersLate
  <2> QED
    BY <2>2, <2>3, <2>5
<1> QED
  BY <1>1, <1>2, <1>3, <1>4, <1>5, <1>6, <1>7 DEF Next

LEMMA InvHolds == Spec => []Inv
  BY InitInv, NextInv, PTL DEF Spec

-----------------------------------------------------------------------------
(* The state keeps its type. *)
THEOREM TypeCorrect == Spec => []TypeOK
<1>1. Inv => TypeOK
  BY DEF Inv
<1> QED
  BY <1>1, InvHolds, PTL

(* Neither the nil logger nor the missing provider URL is dereferenced by  *)
(* the startup sequence of appStartup.Run.                                 *)
THEOREM NoStartupPanic == Spec => []StartupNeverPanics
<1>1. Inv => StartupNeverPanics
  BY DEF Inv, Ended, Started, StartupNeverPanics
<1> QED
  BY <1>1, InvHolds, PTL

(* Only a handler that outlives its server, which a signal shut down or    *)
(* whose listener failed, finds the closed logger.                         *)
THEOREM LatePanicsOnly == Spec => []OnlyLateHandlersPanic
<1>1. Inv => OnlyLateHandlersPanic
  BY DEF Inv, Ended, Running, ShutDown, Failed, OnlyLateHandlersPanic
<1> QED
  BY <1>1, InvHolds, PTL

(* The exit code tells which path the process took: whether a role was     *)
(* started, whether its server ever came up, and how it went.              *)
THEOREM ExitCodesCorrect == Spec => []ExitCodesTell
<1>1. Inv => ExitCodesTell
  BY DEF Inv, Ended, Decided, Server, ShutDown, Failed, ExitCodesTell, StartsRole, UsageCode,
         exitSuccess, exitFailure, exitUsage
<1> QED
  BY <1>1, InvHolds, PTL
=============================================================================
