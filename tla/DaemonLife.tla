---------------------------- MODULE DaemonLife ----------------------------
(***************************************************************************)
(* What run_daemon_internal (src/src/main.rs) is to its two callers: it     *)
(* fails before it serves, or serves until it finds a message in            *)
(* shutdown_rx, and returns when nothing is left mounted.  Module Daemon    *)
(* implements this; modules Service and Program are built on it.           *)
(***************************************************************************)
VARIABLES
    stage,      \* start, serving, leaving; then returned, or failed with an Err
    mail        \* a message waits in shutdown_rx

vars == <<stage, mail>>

\* Where shutdown_rx is alive, and its Sender's messages are kept.
Receiving == {"start", "serving"}

Returned == {"returned", "failed"}

Init ==
    /\ stage = "start"
    /\ mail = FALSE

Enter ==
    /\ stage = "start"
    /\ stage' = "serving"
    /\ UNCHANGED mail

Fail ==
    /\ stage = "start"
    /\ stage' = "failed"
    /\ UNCHANGED mail

TakeStop ==
    /\ stage = "serving" /\ mail
    /\ stage' = "leaving"
    /\ mail' = FALSE

Return ==
    /\ stage = "leaving"
    /\ stage' = "returned"
    /\ UNCHANGED mail

Step == Enter \/ Fail \/ TakeStop \/ Return

\* send, whose error for want of a Receiver is ignored by both callers.
Ask ==
    /\ mail' = (mail \/ stage \in Receiving)
    /\ UNCHANGED stage

Next == Step \/ Ask

Spec == Init /\ [][Next]_vars
=============================================================================
