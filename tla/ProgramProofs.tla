--------------------------- MODULE ProgramProofs ---------------------------
(***************************************************************************)
(* What the service tells its manager, for any timeout and whatever the     *)
(* commands in the console do to it meanwhile.                              *)
(***************************************************************************)
EXTENDS Program, TLAPS

\* What the manager was told last, for each place of the process.
ToldBefore ==
    /\ status.state = "StartPending" /\ ~ status.accepts
    /\ ~ asked
    /\ pc \in {"setup", "register", "init", "late", "giveUp", "pending"}
           => status.checkpoint = now
    /\ pc = "sleep" => status.checkpoint = now + 1
    /\ pc \in {"pending", "sleep"} => now < Timeout

Told ==
    /\ pc \in {"setup", "register", "init", "late", "giveUp", "pending", "sleep",
               "fsp", "running"} => ToldBefore
    /\ pc \in {"daemon", "ended"} => status.state = "Running" /\ status.accepts
    /\ pc \in {"off", "dead"} => status.state = "Stopped" /\ ~ status.accepts
    /\ pc = "returned" => \/ failed /\ (status.state = "Running" <=> status.accepts)
                          \/ status.state = "Stopped" /\ ~ status.accepts

\* A Stop that was taken waits in the channel until the daemon takes it.
AskedIsMail == pc = "daemon" /\ asked /\ stage \in L!Receiving => mail

IInv == TypeOK /\ Told /\ AskedIsMail

Reports == [state : {"StartPending", "Running", "Stopped"},
            checkpoint : 0 .. Timeout, accepts : BOOLEAN]

\* The four reports.
LEMMA PendingIsReport ==
    ASSUME NEW n \in 0 .. Timeout
    PROVE  LET s == Status("StartPending", n, FALSE) IN
           s \in Reports /\ s.state = "StartPending" /\ ~ s.accepts /\ s.checkpoint = n
PROOF
  BY DEF Status, Reports

LEMMA StoppedIsReport ==
    LET s == Status("Stopped", 0, FALSE) IN
    s \in Reports /\ s.state = "Stopped" /\ ~ s.accepts
PROOF
  BY ServiceAssumption DEF Status, Reports

LEMMA RunningIsReport ==
    LET s == Status("Running", 0, TRUE) IN
    s \in Reports /\ s.state = "Running" /\ s.accepts
PROOF
  BY ServiceAssumption DEF Status, Reports

LEMMA InitIInv == Init => IInv
PROOF
<1> SUFFICES ASSUME Init PROVE IInv
  OBVIOUS
<1> USE ServiceAssumption DEF Init, L!Init
<1>0. status \in Reports /\ status.state = "Stopped" /\ ~ status.accepts
  BY StoppedIsReport
<1>1. TypeOK
  <2>1. asked \in BOOLEAN /\ mail \in BOOLEAN /\ failed \in BOOLEAN /\ winfsp \in BOOLEAN
    BY Zenon
  <2>2. now \in 0 .. Timeout
    OBVIOUS
  <2>3. pc \in {"setup", "register"} \cup Handling \cup Over
        /\ stage \in {"start", "serving", "leaving", "returned", "failed"}
    BY DEF Over
  <2> QED
    BY <1>0, <2>1, <2>2, <2>3 DEF TypeOK, Reports
<1>2. Told /\ AskedIsMail
  BY <1>0 DEF Told, AskedIsMail
<1> QED
  BY <1>1, <1>2 DEF IInv

\* A report that succeeds, and one that ends run_service.
LEMMA TellStep ==
    ASSUME IInv, NEW s, NEW place, Tell(s, place),
           pc \in {"giveUp", "pending", "running", "ended"},
           s \in Reports,
           \/ place = "returned" /\ s.state = "Stopped" /\ ~ s.accepts
           \/ place = "daemon" /\ s.state = "Running" /\ s.accepts /\ ~ asked
           \/ /\ place = "sleep" /\ s.state = "StartPending" /\ ~ s.accepts
              /\ s.checkpoint = now + 1 /\ ~ asked /\ now < Timeout
    PROVE  IInv'
PROOF
<1> USE DEF Tell, Goes, life
<1>1. TypeOK'
  BY DEF IInv, TypeOK, Reports, Handling, Over
<1>2. Told'
  BY DEF IInv, Told, ToldBefore
<1>3. AskedIsMail'
  BY DEF IInv, AskedIsMail
<1> QED
  BY <1>1, <1>2, <1>3 DEF IInv

\* Steps of the thread that report nothing.
LEMMA SilentStep ==
    ASSUME IInv,
           SetUp \/ Register \/ TryWinFsp \/ CheckDeadline \/ Sleep \/ InitOrDie
               \/ RunDaemon \/ DaemonReturns
    PROVE  IInv'
PROOF
<1> USE ServiceAssumption DEF Goes, life, Dies
<1>1. TypeOK /\ Told /\ AskedIsMail
  BY DEF IInv
<1>0. Dies => /\ pc' = "dead" /\ status' \in Reports
              /\ status.state' = "Stopped" /\ ~ status.accepts'
  BY StoppedIsReport
<1> HIDE DEF Dies
<1>2. CASE SetUp \/ Register
  <2>1. TypeOK'
    BY <1>1, <1>2, <1>0 DEF Reports, SetUp, Register, TypeOK, Handling, Over
  <2>2. Told' /\ AskedIsMail'
    BY <1>1, <1>2, <1>0 DEF SetUp, Register, Told, ToldBefore, AskedIsMail
  <2> QED
    BY <2>1, <2>2 DEF IInv
<1>3. CASE TryWinFsp \/ InitOrDie
  <2>1. TypeOK'
    BY <1>1, <1>3, <1>0 DEF Reports, TryWinFsp, InitOrDie, TypeOK, Handling, Over
  <2>2. Told' /\ AskedIsMail'
    BY <1>1, <1>3, <1>0 DEF TryWinFsp, InitOrDie, Told, ToldBefore, AskedIsMail
  <2> QED
    BY <2>1, <2>2 DEF IInv
<1>4. CASE CheckDeadline \/ Sleep
  <2>1. pc = "sleep" => now + 1 \in 0 .. Timeout
    BY <1>1 DEF TypeOK, Told, ToldBefore
  <2>2. TypeOK'
    BY <1>1, <1>4, <2>1 DEF CheckDeadline, Sleep, TypeOK, Handling, Over
  <2>3. Told' /\ AskedIsMail'
    BY <1>1, <1>4 DEF CheckDeadline, Sleep, Told, ToldBefore, AskedIsMail, TypeOK
  <2> QED
    BY <2>2, <2>3 DEF IInv
<1>5. CASE RunDaemon \/ DaemonReturns
  <2>1. TypeOK'
    BY <1>1, <1>5 DEF RunDaemon, DaemonReturns, TypeOK, Handling, Over, L!Step, L!Enter,
       L!Fail, L!TakeStop, L!Return
  <2>2. Told'
    BY <1>1, <1>5 DEF RunDaemon, DaemonReturns, Told, ToldBefore
  <2>3. AskedIsMail'
    BY <1>1, <1>5 DEF RunDaemon, DaemonReturns, AskedIsMail, L!Receiving, L!Step, L!Enter,
       L!Fail, L!TakeStop, L!Return
  <2> QED
    BY <2>1, <2>2, <2>3 DEF IInv
<1> QED
  BY <1>2, <1>3, <1>4, <1>5

LEMMA ThreadKeepsIInv == IInv /\ Thread => IInv'
PROOF
<1> SUFFICES ASSUME IInv, Thread PROVE IInv'
  OBVIOUS
<1> USE ServiceAssumption
<1>1. TypeOK /\ Told
  BY DEF IInv
<1>2. CASE GiveUp \/ TellStopped
  <2>1. Tell(Status("Stopped", 0, FALSE), "returned") /\ pc \in {"giveUp", "ended"}
    BY <1>2 DEF GiveUp, TellStopped
  <2> QED
    BY <2>1, StoppedIsReport, TellStep
<1>3. CASE TellRunning
  <2>1. Tell(Status("Running", 0, TRUE), "daemon") /\ pc = "running" /\ ~ asked
    BY <1>1, <1>3 DEF TellRunning, Told, ToldBefore
  <2> QED
    BY <2>1, RunningIsReport, TellStep
<1>4. CASE TellPending
  <2> DEFINE s == Status("StartPending", status.checkpoint + 1, FALSE)
  <2>1. Tell(s, "sleep") /\ pc = "pending"
    BY <1>4 DEF TellPending
  <2>2. status.checkpoint = now /\ ~ asked /\ now < Timeout /\ now \in Nat
    BY <1>1, <2>1 DEF Told, ToldBefore, TypeOK
  <2>3. status.checkpoint + 1 \in 0 .. Timeout
    BY <2>2
  <2>4. s.state = "StartPending" /\ ~ s.accepts /\ s.checkpoint = now + 1 /\ s \in Reports
    BY <2>2, <2>3, PendingIsReport
  <2> HIDE DEF s
  <2> QED
    BY <2>1, <2>2, <2>4, TellStep
<1> QED
  BY <1>2, <1>3, <1>4, SilentStep DEF Thread

\* The steps of others.
LEMMA OthersKeepIInv ==
    ASSUME IInv, Launch \/ ControlStop \/ Interrogated \/ WinFspChanges
    PROVE  IInv'
PROOF
<1> USE ServiceAssumption DEF life
<1>1. TypeOK /\ Told /\ AskedIsMail
  BY DEF IInv
<1>2. CASE Launch
  <2>0. LET s == Status("StartPending", 0, FALSE) IN
        s \in Reports /\ s.state = "StartPending" /\ ~ s.accepts /\ s.checkpoint = 0
    <3>1. 0 \in 0 .. Timeout
      OBVIOUS
    <3> QED
      BY <3>1, PendingIsReport
  <2>1. TypeOK'
    BY <1>1, <1>2, <2>0 DEF Launch, Reports, TypeOK
  <2>2. Told' /\ AskedIsMail'
    BY <1>2, <2>0 DEF Launch, Told, ToldBefore, AskedIsMail
  <2> QED
    BY <2>1, <2>2 DEF IInv
<1>3. CASE ControlStop \/ Interrogated
  <2>1. stage' = stage /\ mail' \in BOOLEAN /\ (mail => mail')
        /\ (pc \in Handling /\ stage \in L!Receiving => mail')
    BY <1>1, <1>3 DEF ControlStop, Interrogated, EventHandler, L!Ask, TypeOK
  <2>2. UNCHANGED <<pc, now, failed, status, winfsp>> /\ asked' \in BOOLEAN
        /\ (asked' # asked => status.accepts)
    BY <1>1, <1>3 DEF ControlStop, Interrogated, TakesStop, TypeOK
  <2>3. TypeOK'
    BY <1>1, <2>1, <2>2 DEF TypeOK
  <2>4. Told'
    BY <1>1, <2>2 DEF Told, ToldBefore
  <2>5. AskedIsMail'
    BY <2>1, <2>2 DEF AskedIsMail, Handling
  <2> QED
    BY <2>3, <2>4, <2>5 DEF IInv
<1>4. CASE WinFspChanges
  BY <1>1, <1>4 DEF WinFspChanges, IInv, TypeOK, Told, ToldBefore, AskedIsMail
<1> QED
  BY <1>2, <1>3, <1>4

\* A command in the console does to the service only what others may do, too.
LEMMA ServiceFrame ==
    [ProgramNext]_programVars
        => \/ Thread \/ Launch \/ ControlStop \/ Interrogated \/ WinFspChanges
           \/ UNCHANGED serviceVars
PROOF
  BY Zenon DEF ProgramNext, ServiceStep, Started, EntryGoes, Console, CtrlC, Run, Main,
     Dispatch, ManualMount, SetHandler, Receive, DropHost, OurDaemon, Create, Describe,
     Start, Query, StopService, SleepTwo, DeleteService, programVars

LEMMA Invariance == Spec => []IInv
PROOF
<1>1. ProgramInit => IInv
  BY InitIInv DEF ProgramInit
<1>2. IInv /\ [ProgramNext]_programVars => IInv'
  <2> SUFFICES ASSUME IInv, [ProgramNext]_programVars PROVE IInv'
    OBVIOUS
  <2>1. CASE UNCHANGED serviceVars
    BY <2>1 DEF serviceVars, vars, IInv, TypeOK, Told, ToldBefore, AskedIsMail
  <2> QED
    BY <2>1, ServiceFrame, ThreadKeepsIInv, OthersKeepIInv
<1> QED
  BY <1>1, <1>2, PTL DEF Spec

(***************************************************************************)
(* The manager believes the service to run only while somebody will read    *)
(* its Stop, and a Stop that was taken is in the channel.                   *)
(***************************************************************************)
THEOREM ManagerIsToldTheTruth == Spec => []RunningMeansServed
PROOF
<1>1. IInv => RunningMeansServed
  BY DEF IInv, Told, ToldBefore, AskedIsMail, RunningMeansServed, TypeOK, Handling, Over,
     L!Receiving
<1> QED
  BY <1>1, Invariance, PTL

-----------------------------------------------------------------------------
\* The rest of the types.
ConsoleTypeOK ==
    /\ command \in Commands
    /\ at \in Places
    /\ host \in {"none", "made", "mounted", "served"}
    /\ handler \in BOOLEAN /\ pressed \in BOOLEAN /\ ourMail \in BOOLEAN
    /\ ourStage \in {"start", "serving", "leaving", "returned", "failed"}
    /\ entry \in {"none", "there", "marked"}
    /\ alone \in BOOLEAN

LEMMA ManualMountTypes ==
    ASSUME ConsoleTypeOK, ManualMount
    PROVE  ConsoleTypeOK'
PROOF
<1>1. DOMAIN Follows = {"open", "driver", "new", "mount", "start"}
  BY DEF Follows
<1>2. \A x \in DOMAIN Follows :
          /\ Follows[x][1] \in {"driver", "new", "mount", "start", "handler"}
          /\ Follows[x][2] \in {"none", "made", "mounted", "served"}
  BY <1>1 DEF Follows
<1> QED
  BY <1>1, <1>2 DEF ManualMount, Exit, ConsoleTypeOK, Places, Exited, ourLife

LEMMA ConsoleTypes == ConsoleTypeOK /\ Console => ConsoleTypeOK'
PROOF
<1> SUFFICES ASSUME ConsoleTypeOK, Console PROVE ConsoleTypeOK'
  OBVIOUS
<1> USE DEF ConsoleTypeOK, Places, Exited, To, Exit, consoleVars, ourLife
<1>1. CASE Main \/ Dispatch
  <2>1. "open" \in DOMAIN Follows
    BY DEF Follows
  <2>2. First \in {"open", "handler", "create", "query", "dispatch"}
    BY DEF First, Commands
  <2> QED
    BY <1>1, <2>1, <2>2 DEF Main, Dispatch
<1>2. CASE SetHandler \/ Receive \/ DropHost
  BY <1>2 DEF SetHandler, Receive, DropHost
<1>3. CASE OurDaemon
  BY <1>3 DEF OurDaemon, D!Step, D!Enter, D!Fail, D!TakeStop, D!Return
<1>4. CASE Create \/ Describe \/ Start
  BY <1>4 DEF Create, Describe, Start
<1>5. CASE Query \/ StopService \/ SleepTwo \/ DeleteService
  BY <1>5 DEF Query, StopService, SleepTwo, DeleteService
<1> QED
  BY <1>1, <1>2, <1>3, <1>4, <1>5, ManualMountTypes DEF Console

(***************************************************************************)
(* Types, for both processes.                                              *)
(***************************************************************************)
THEOREM TypeCorrect == Spec => []ProgramTypeOK
PROOF
<1>1. ProgramInit => ConsoleTypeOK
  <2> SUFFICES ASSUME ProgramInit PROVE ConsoleTypeOK
    OBVIOUS
  <2>1. handler \in BOOLEAN /\ pressed \in BOOLEAN /\ ourMail \in BOOLEAN /\ alone \in BOOLEAN
    BY Zenon DEF ProgramInit, D!Init
  <2> QED
    BY <2>1 DEF ProgramInit, ConsoleTypeOK, D!Init, Places, Exited
<1>2. ConsoleTypeOK /\ [ProgramNext]_programVars => ConsoleTypeOK'
  <2> SUFFICES ASSUME ConsoleTypeOK, [ProgramNext]_programVars PROVE ConsoleTypeOK'
    OBVIOUS
  <2>1. CASE CtrlC
    <3>1. CASE handler
      <4>1. ourMail' \in BOOLEAN /\ UNCHANGED ourStage
        BY <2>1, <3>1, Zenon DEF CtrlC, D!Ask
      <4> QED
        BY <2>1, <3>1, <4>1 DEF CtrlC, ConsoleTypeOK
    <3>2. CASE ~ handler
      BY <2>1, <3>2 DEF CtrlC, ConsoleTypeOK, Places, Exited, ourLife
    <3> QED
      BY <3>1, <3>2
  <2>2. CASE \E c \in Commands : Run(c)
    BY <2>2 DEF Run, ConsoleTypeOK, Places, Exited, ourLife
  <2>3. CASE ServiceStep \/ Started \/ EntryGoes \/ UNCHANGED programVars
    BY <2>3 DEF ServiceStep, Started, EntryGoes, ConsoleTypeOK, consoleVars, ourLife,
       programVars
  <2> QED
    BY <2>1, <2>2, <2>3, ConsoleTypes DEF ProgramNext
<1>3. IInv /\ ConsoleTypeOK => ProgramTypeOK
  BY DEF IInv, ConsoleTypeOK, ProgramTypeOK
<1> QED
  BY <1>1, <1>2, <1>3, Invariance, PTL DEF Spec
=============================================================================
