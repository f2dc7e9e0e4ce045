--------------------------- MODULE MCMountManager ---------------------------
(* MountManager with the disks that TLC can plug in.                        *)
EXTENDS MountManager

\* No APFS partition; number 1 at offset 1, with a container left over at 2; both
\* numbers, the second one unformatted; a disk laid out in the opposite order.
MCLayouts == { [table |-> <<>>,     volumes |-> {}],
               [table |-> <<1>>,    volumes |-> {1, 2}],
               [table |-> <<1, 2>>, volumes |-> {1}],
               [table |-> <<2, 1>>, volumes |-> {1, 2}] }
=============================================================================
