------------------------------ MODULE Program ------------------------------
(***************************************************************************)
(* The program `arfw` (main and run_manual_mount of src/src/main.rs,        *)
(* install_service and uninstall_service of src/src/service.rs): one        *)
(* command after the other in a console, where Ctrl+C may come at any       *)
(* moment, next to the service that it installs (module Service).           *)
(*                                                                         *)
(* `arfw daemon` is DaemonLife again; WinFsp serves what is mounted while   *)
(* the process holds the FileSystemHost, and takes it away with it.         *)
(***************************************************************************)
EXTENDS Service

VARIABLES
    command,       \* the command in the console
    at,            \* where its process is
    host,          \* FileSystemHost of `arfw mount`
    handler,       \* ctrlc::set_handler was called
    pressed,       \* Ctrl+C came
    ourStage,      \* DaemonLife of `arfw daemon`
    ourMail,       \* a message of the handler waits in its channel
    entry,         \* the service in the service manager's database
    alone          \* history: nobody started the service since its state was asked for

serviceVars == vars
ourLife == <<ourStage, ourMail>>
consoleVars == <<command, host, handler, pressed, ourLife>>
programVars == <<serviceVars, consoleVars, at, entry, alone>>

D == INSTANCE DaemonLife WITH stage <- ourStage, mail <- ourMail

Commands == {"mount", "daemon", "install", "uninstall", "service"}

Exited == {"ok", "err", "dead"}

\* The steps of run_manual_mount that may fail, and what follows each: the place,
\* and the FileSystemHost.
Follows ==
    [open |-> <<"driver", "none">>, driver |-> <<"new", "none">>,
     new |-> <<"mount", "made">>, mount |-> <<"start", "mounted">>,
     start |-> <<"handler", "served">>]

Places == Exited \cup DOMAIN Follows
    \cup {"setup", "fsp", "dispatch", "handler", "recv", "drop", "run", "create",
          "describe", "launch", "await", "query", "stop", "sleep", "delete"}

ProgramTypeOK ==
    /\ TypeOK
    /\ command \in Commands
    /\ at \in Places
    /\ host \in {"none", "made", "mounted", "served"}
    /\ handler \in BOOLEAN /\ pressed \in BOOLEAN /\ ourMail \in BOOLEAN
    /\ ourStage \in {"start", "serving", "leaving", "returned", "failed"}
    /\ entry \in {"none", "there", "marked"}
    /\ alone \in BOOLEAN

ProgramInit ==
    /\ Init
    /\ command \in Commands
    /\ at = "ok"
    /\ host = "none"
    /\ handler = FALSE /\ pressed = FALSE
    /\ D!Init
    /\ entry \in {"none", "there"}
    /\ alone = FALSE
-----------------------------------------------------------------------------
\* The next command.
Run(c) ==
    /\ at \in Exited
    /\ command' = c
    /\ at' = "setup"
    /\ host' = "none"
    /\ handler' = FALSE /\ pressed' = FALSE
    /\ ourStage' = "start" /\ ourMail' = FALSE
    /\ UNCHANGED <<serviceVars, entry, alone>>

To(place) == at' = place /\ UNCHANGED consoleVars

\* The process ends: run_manual_mount drops its FileSystemHost with its locals, and
\* WinFsp unmounts what a process leaves.
Exit(how) ==
    /\ at' = how
    /\ host' = "none"
    /\ UNCHANGED <<command, handler, pressed, ourLife>>

First ==
    CASE command = "mount"     -> "open"
      [] command = "daemon"    -> "handler"
      [] command = "install"   -> "create"
      [] command = "uninstall" -> "query"
      [] command = "service"   -> "dispatch"

\* main: setup_winfsp_dll_path()?, and winfsp_init_or_die for all but the service.
Main ==
    /\ \/ at = "setup"
          /\ \/ To(IF command = "service" THEN First ELSE "fsp")
             \/ Exit("err")
       \/ at = "fsp"
          /\ IF winfsp THEN To(First) ELSE Exit("dead")
    /\ UNCHANGED <<serviceVars, entry, alone>>

\* run_service_dispatcher fails in a process that the manager has not started.
Dispatch ==
    /\ at = "dispatch"
    /\ Exit("err")
    /\ UNCHANGED <<serviceVars, entry, alone>>

\* run_manual_mount up to host.start(), each step with its `?`.
ManualMount ==
    /\ at \in DOMAIN Follows
    /\ \/ /\ at' = Follows[at][1]
          /\ host' = Follows[at][2]
          /\ UNCHANGED <<command, handler, pressed, ourLife>>
       \/ Exit("err")
    /\ UNCHANGED <<serviceVars, entry, alone>>

\* ctrlc::set_handler(..)?, in run_manual_mount and in run_daemon.
SetHandler ==
    /\ at = "handler"
    /\ \/ /\ handler' = TRUE
          /\ at' = IF command = "mount" THEN "recv" ELSE "run"
          /\ UNCHANGED <<command, host, pressed, ourLife>>
       \/ Exit("err")
    /\ UNCHANGED <<serviceVars, entry, alone>>

\* rx.recv()
Receive ==
    /\ at = "recv" /\ ourMail
    /\ at' = "drop"
    /\ ourMail' = FALSE
    /\ UNCHANGED <<command, host, handler, pressed, ourStage, serviceVars, entry, alone>>

DropHost ==
    /\ at = "drop"
    /\ Exit("ok")
    /\ UNCHANGED <<serviceVars, entry, alone>>

\* run_daemon: run_daemon_internal(signal_rx)
OurDaemon ==
    /\ at = "run"
    /\ \/ D!Step /\ UNCHANGED <<at, command, host, handler, pressed>>
       \/ ourStage = "returned" /\ Exit("ok")
       \/ ourStage = "failed" /\ Exit("err")
    /\ UNCHANGED <<serviceVars, entry, alone>>

\* Mutant of CtrlC: the daemon has its channel only when it serves.
CtrlCForServing ==
    /\ at \notin Exited /\ ~ pressed
    /\ pressed' = TRUE
    /\ IF handler
       THEN /\ IF at = "run" /\ ourStage = "start" THEN UNCHANGED ourLife ELSE D!Ask
            /\ UNCHANGED <<at, host>>
       ELSE at' = "dead" /\ host' = "none" /\ UNCHANGED ourLife
    /\ UNCHANGED <<command, handler, serviceVars, entry, alone>>

\* Ctrl+C: the handler sends a message; without a handler the process is ended.
CtrlC ==
    /\ at \notin Exited /\ ~ pressed
    /\ pressed' = TRUE
    /\ IF handler
       THEN D!Ask /\ UNCHANGED <<at, host>>
       ELSE at' = "dead" /\ host' = "none" /\ UNCHANGED ourLife
    /\ UNCHANGED <<command, handler, serviceVars, entry, alone>>
-----------------------------------------------------------------------------
\* install_service.  The service of an earlier one is not replaced.
Create ==
    /\ at = "create"
    /\ \/ entry = "none" /\ entry' = "there" /\ To("describe")
       \/ UNCHANGED entry /\ Exit("err")
    /\ UNCHANGED <<serviceVars, alone>>

\* set_description: what was created stays if it fails.
Describe ==
    /\ at = "describe"
    /\ To("launch") \/ Exit("err")
    /\ UNCHANGED <<serviceVars, entry, alone>>

\* service.start(), which waits for the process to reach its dispatcher.
Start ==
    /\ \/ at = "launch" /\ entry = "there" /\ Launch /\ To("await") /\ alone' = FALSE
       \/ at = "launch" /\ Exit("err") /\ UNCHANGED <<serviceVars, alone>>
       \/ at = "await" /\ pc \notin {"setup", "dead"} /\ Exit("ok")
          /\ UNCHANGED <<serviceVars, alone>>
       \/ at = "await" /\ pc = "dead" /\ (Exit("ok") \/ Exit("err"))
          /\ UNCHANGED <<serviceVars, alone>>
    /\ UNCHANGED entry

\* Mutant of Query: only a service that runs is stopped.
QueryRunning ==
    /\ at = "query"
    /\ \/ /\ entry # "none"
          /\ To(IF status.state = "Running" THEN "stop" ELSE "delete")
          /\ alone' = TRUE
       \/ Exit("err") /\ UNCHANGED alone
    /\ UNCHANGED <<serviceVars, entry>>

\* uninstall_service opens the service and asks for its state.
Query ==
    /\ at = "query"
    /\ \/ /\ entry # "none"
          /\ To(IF status.state # "Stopped" THEN "stop" ELSE "delete")
          /\ alone' = TRUE
       \/ Exit("err") /\ UNCHANGED alone
    /\ UNCHANGED <<serviceVars, entry>>

\* service.stop()?, which fails if the service does not accept it.
StopService ==
    /\ at = "stop"
    /\ \/ ControlStop /\ To("sleep")
       \/ ~ TakesStop /\ Exit("err") /\ UNCHANGED serviceVars
    /\ UNCHANGED <<entry, alone>>

\* Two seconds, whether or not the service has stopped by then.
SleepTwo ==
    /\ at = "sleep"
    /\ To("delete")
    /\ UNCHANGED <<serviceVars, entry, alone>>

\* A service that runs is deleted when it has stopped.
DeleteService ==
    /\ at = "delete"
    /\ \/ entry = "there" /\ entry' = "marked" /\ Exit("ok")
       \/ UNCHANGED entry /\ Exit("err")
    /\ UNCHANGED <<serviceVars, alone>>
-----------------------------------------------------------------------------
\* At boot, or by hand.
Started ==
    /\ entry = "there" /\ Launch
    /\ alone' = FALSE
    /\ UNCHANGED <<consoleVars, at, entry>>

\* A marked service goes when no process runs it and no command has it open.
EntryGoes ==
    /\ entry = "marked"
    /\ pc \in Over /\ status.state = "Stopped"
    /\ at \notin {"describe", "launch", "await", "stop", "sleep", "delete"}
    /\ entry' = "none"
    /\ UNCHANGED <<serviceVars, consoleVars, at, alone>>

ServiceStep ==
    /\ Thread \/ ControlStop \/ Interrogated \/ WinFspChanges
    /\ UNCHANGED <<consoleVars, at, entry, alone>>

Console ==
    \/ Main \/ Dispatch \/ ManualMount \/ SetHandler \/ Receive \/ DropHost \/ OurDaemon
    \/ Create \/ Describe \/ Start \/ Query \/ StopService \/ SleepTwo \/ DeleteService

ProgramNext ==
    \/ ServiceStep \/ Started \/ EntryGoes
    \/ Console \/ CtrlC
    \/ \E c \in Commands : Run(c)

\* Both processes run.  Nothing is assumed of who sends controls or presses keys,
\* nor of WinFsp.
Spec ==
    /\ ProgramInit /\ [][ProgramNext]_programVars
    /\ WF_programVars(Thread /\ UNCHANGED <<consoleVars, at, entry, alone>>)
    /\ WF_programVars(Console)
-----------------------------------------------------------------------------
(***************************************************************************)
(* Ctrl+C ends `arfw mount` and `arfw daemon`, whenever it comes: before    *)
(* the handler is set, while the first scan runs, or when the volume is     *)
(* served; and nothing stays mounted.                                      *)
(***************************************************************************)
CtrlCEndsIt == pressed ~> (at \in Exited /\ host = "none")

(***************************************************************************)
(* When `arfw uninstall` says that it has uninstalled the service, and      *)
(* nobody started it meanwhile, the service stops and cannot be started     *)
(* any more, although the command does not wait for it (service.rs:85-93),  *)
(* and however much of an installation there was.                          *)
(***************************************************************************)
UninstallEndsIt ==
    (command = "uninstall" /\ at = "ok" /\ alone)
        ~> (status.state = "Stopped" /\ entry # "there") \/ failed
=============================================================================
