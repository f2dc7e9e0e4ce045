------------------------------ MODULE Service ------------------------------
(***************************************************************************)
(* ARFW as a Windows service (src/src/service.rs): the process that the     *)
(* service manager starts, with the thread that runs run_service, and the   *)
(* control handler that the manager calls at any moment.  The daemon in the *)
(* middle is DaemonLife, which module Daemon implements.                    *)
(*                                                                         *)
(* The clock counts intervals of WINFSP_POLL_INTERVAL.                      *)
(***************************************************************************)
EXTENDS Naturals

CONSTANT Timeout   \* WINFSP_WAIT_TIMEOUT in intervals, 120 in the code

ASSUME ServiceAssumption == Timeout \in Nat

VARIABLES
    pc,            \* where the process is
    now,           \* intervals since the wait began
    stage, mail,   \* DaemonLife, and the message that the handler sent to it
    failed,        \* a `?` ended run_service, which service_main only logs
    status,        \* what the service manager was told last
    asked,         \* a Stop was delivered to the handler
    winfsp         \* WinFsp can be initialised

L == INSTANCE DaemonLife

life == <<stage, mail>>
vars == <<pc, now, stage, mail, failed, status, asked, winfsp>>

Status(state, checkpoint, accepts) ==
    [state |-> state, checkpoint |-> checkpoint, accepts |-> accepts]

\* There is no process, or run_service has come to its end, or the process died.
Over == {"off", "returned", "dead"}

\* Between the registration of the handler and the end of run_service.
Handling == {"init", "late", "giveUp", "pending", "sleep", "fsp", "running",
             "daemon", "ended"}

TypeOK ==
    /\ pc \in {"setup", "register"} \cup Handling \cup Over
    /\ now \in 0 .. Timeout
    /\ stage \in {"start", "serving", "leaving", "returned", "failed"}
    /\ mail \in BOOLEAN /\ failed \in BOOLEAN /\ asked \in BOOLEAN
    /\ status \in [state : {"StartPending", "Running", "Stopped"},
                   checkpoint : 0 .. Timeout, accepts : BOOLEAN]
    /\ winfsp \in BOOLEAN

Init ==
    /\ pc = "off"
    /\ now = 0
    /\ L!Init
    /\ failed = FALSE
    /\ status = Status("Stopped", 0, FALSE)
    /\ asked = FALSE
    /\ winfsp \in BOOLEAN
-----------------------------------------------------------------------------
\* The service manager starts the process, as long as none is there.
Launch ==
    /\ pc \in Over /\ status.state = "Stopped"
    /\ pc' = "setup"
    /\ now' = 0
    /\ stage' = "start" /\ mail' = FALSE
    /\ failed' = FALSE
    /\ status' = Status("StartPending", 0, FALSE)
    /\ asked' = FALSE
    /\ UNCHANGED winfsp

\* The process ends, and the service manager takes the service for stopped.
Dies ==
    /\ pc' = "dead"
    /\ status' = Status("Stopped", 0, FALSE)

Goes(place) == pc' = place /\ UNCHANGED status

\* main, setup_winfsp_dll_path first; then service_dispatcher::start calls
\* service_main.
SetUp ==
    /\ pc = "setup"
    /\ Goes("register") \/ Dies
    /\ UNCHANGED <<now, life, failed, asked, winfsp>>

\* service_control_handler::register; the first look at the clock.
Register ==
    /\ pc = "register"
    /\ \/ Goes("init") /\ UNCHANGED failed
       \/ Goes("returned") /\ failed' = TRUE
    /\ UNCHANGED <<now, life, asked, winfsp>>

TryWinFsp ==
    /\ pc = "init"
    /\ Goes(IF winfsp THEN "fsp" ELSE "late")
    /\ UNCHANGED <<now, life, failed, asked, winfsp>>

CheckDeadline ==
    /\ pc = "late"
    /\ Goes(IF now >= Timeout THEN "giveUp" ELSE "pending")
    /\ UNCHANGED <<now, life, failed, asked, winfsp>>

\* set_service_status(s)?, then on to the next step.
Tell(s, place) ==
    /\ \/ status' = s /\ pc' = place /\ UNCHANGED failed
       \/ Goes("returned") /\ failed' = TRUE
    /\ UNCHANGED <<now, life, asked, winfsp>>

\* Mutant of GiveUp: the service manager is not told.
GiveUpSilently ==
    /\ pc = "giveUp"
    /\ Goes("returned")
    /\ UNCHANGED <<now, life, failed, asked, winfsp>>

GiveUp == pc = "giveUp" /\ Tell(Status("Stopped", 0, FALSE), "returned")

\* Mutant of TellPending: a stop is accepted as soon as there is a handler.
TellPendingAccepting ==
    pc = "pending" /\ Tell(Status("StartPending", status.checkpoint + 1, TRUE), "sleep")

\* The checkpoint is the one of the last report, plus one.
TellPending ==
    pc = "pending" /\ Tell(Status("StartPending", status.checkpoint + 1, FALSE), "sleep")

\* Mutant of Sleep: the deadline is taken anew in each round.
SleepAnew ==
    /\ pc = "sleep"
    /\ Goes("init")
    /\ UNCHANGED <<now, life, failed, asked, winfsp>>

Sleep ==
    /\ pc = "sleep"
    /\ now' = now + 1
    /\ Goes("init")
    /\ UNCHANGED <<life, failed, asked, winfsp>>

\* winfsp_init_or_die: the process exits if WinFsp has gone meanwhile.
InitOrDie ==
    /\ pc = "fsp"
    /\ IF winfsp THEN Goes("running") ELSE Dies
    /\ UNCHANGED <<now, life, failed, asked, winfsp>>

TellRunning == pc = "running" /\ Tell(Status("Running", 0, TRUE), "daemon")

RunDaemon ==
    /\ pc = "daemon"
    /\ L!Step
    /\ UNCHANGED <<pc, now, failed, status, asked, winfsp>>

\* run_daemon_internal(shutdown_rx)?
DaemonReturns ==
    /\ pc = "daemon" /\ stage \in L!Returned
    /\ \/ stage = "returned" /\ Goes("ended") /\ UNCHANGED failed
       \/ stage = "failed" /\ Goes("returned") /\ failed' = TRUE
    /\ UNCHANGED <<now, life, asked, winfsp>>

TellStopped == pc = "ended" /\ Tell(Status("Stopped", 0, FALSE), "returned")

Thread ==
    \/ SetUp \/ Register \/ TryWinFsp \/ CheckDeadline \/ GiveUp \/ TellPending
    \/ Sleep \/ InitOrDie \/ TellRunning \/ RunDaemon \/ DaemonReturns \/ TellStopped
-----------------------------------------------------------------------------
\* Mutant of EventHandler: a Stop is confirmed and nothing else.
EventHandlerDeaf(control) ==
    IF control = "Interrogate" /\ pc \in Handling THEN L!Ask ELSE UNCHANGED life

\* event_handler: both controls send the message, to nobody once run_service is over.
EventHandler(control) ==
    IF control \in {"Stop", "Interrogate"} /\ pc \in Handling THEN L!Ask
    ELSE UNCHANGED life

HasHandler == pc \in Handling \cup {"returned"} /\ status.state # "Stopped"

TakesStop == HasHandler /\ status.accepts

\* The service manager delivers a Stop only if the service accepts it.
ControlStop ==
    /\ TakesStop
    /\ EventHandler("Stop")
    /\ asked' = TRUE
    /\ UNCHANGED <<pc, now, failed, status, winfsp>>

\* Each service is taken to accept this one.
Interrogated ==
    /\ HasHandler
    /\ EventHandler("Interrogate")
    /\ UNCHANGED <<pc, now, failed, status, asked, winfsp>>

\* WinFsp.Launcher starts, or is removed.
WinFspChanges ==
    /\ winfsp' = ~ winfsp
    /\ UNCHANGED <<pc, now, life, failed, status, asked>>
-----------------------------------------------------------------------------
(***************************************************************************)
(* The service manager is told to deliver a Stop only while its message     *)
(* will be read or the service is about to report that it stopped, and      *)
(* believes the service to run only then - unless a `?` has ended it, after *)
(* which nobody reports (service.rs:120-188).                               *)
(***************************************************************************)
RunningMeansServed ==
    /\ status.accepts =>
          \/ pc = "daemon" /\ (asked /\ stage = "serving" => mail)
          \/ pc = "ended" \/ failed
    /\ status.state = "Running" <=> status.accepts

(***************************************************************************)
(* A Stop that the service took is answered with Stopped, also if it came   *)
(* before the daemon began to look or when the daemon had ended already; or *)
(* run_service fails.                                                       *)
(***************************************************************************)
StopIsReported == asked ~> (status.state = "Stopped" \/ failed)

(***************************************************************************)
(* The service does not stay in StartPending: whatever WinFsp does, it runs *)
(* or gives up, or run_service fails (the deadline of service.rs:126-162).  *)
(***************************************************************************)
StartIsAnswered == (pc = "init") ~> (status.state # "StartPending" \/ failed)
=============================================================================
