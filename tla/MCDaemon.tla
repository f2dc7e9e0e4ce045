------------------------------ MODULE MCDaemon ------------------------------
(* The daemon and its history with the disks that TLC can plug in.          *)
EXTENDS DaemonHistory

\* Number 1 at offset 1; number 2 at offset 2, with a container left over at 1;
\* number 1 at 2 and number 2 at 1, which is not formatted.
MCLayouts == { [table |-> <<1>>,               volumes |-> {1}],
               [table |-> [n \in {2} |-> 2], volumes |-> {1, 2}],
               [table |-> <<2, 1>>,            volumes |-> {2}] }

\* Disks with one volume each.
MCOneVolume == { [table |-> <<1>>, volumes |-> {1}] }
=============================================================================
