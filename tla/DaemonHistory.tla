--------------------------- MODULE DaemonHistory ---------------------------
(***************************************************************************)
(* Daemon with two history variables, to say what one scan makes good of    *)
(* what failed in the scans before it, and what it hands on to the mounts.  *)
(***************************************************************************)
EXTENDS Daemon

VARIABLES
    clean,      \* since the last scan began there was no error, and no letter
                \* was taken or released by another program
    listed      \* the disk whose partition table was read last for each number

historyVars == <<vars, clean, listed>>

HistoryTypeOK == TypeOK /\ clean \in BOOLEAN /\ listed \in [M!Disks -> Nat]

HistoryInit ==
    /\ Init
    /\ clean = FALSE
    /\ listed = [d \in M!Disks |-> 0]

Scans == pc' = "scan" /\ pc # "scan"

HistoryNext ==
    /\ Next
    /\ clean' = /\ clean \/ Scans
                /\ faults' = faults /\ foreign' = foreign
    /\ listed' = IF ScanDisk THEN [listed EXCEPT ![next] = slot[next].id] ELSE listed

HistorySpec == HistoryInit /\ [][HistoryNext]_historyVars /\ Fairness
-----------------------------------------------------------------------------
(***************************************************************************)
(* A mount that failed, a partition that a scan missed and a volume that    *)
(* was unmounted for that are made good by the next scan that nothing       *)
(* disturbs (main.rs:229: a failed partition stays unknown, so that it is   *)
(* tried again) - which comes with the next event, and not before.         *)
(***************************************************************************)
CleanScanMountsAll ==
    Settled /\ clean /\ Cardinality(M!Letters \ foreign) >= Cardinality(Keys)
        => \A k \in VolumeKeys : M!Mounted(k)

(***************************************************************************)
(* The offset of a mount comes from the scan, and nobody compares it with   *)
(* the partition table again.  If the disk is still the one that was        *)
(* scanned when its volume appears, the volume is that of the partition     *)
(* with the number in the key - on this disk, at this partition's offset -  *)
(* whatever other disks the attempt and the scans before it have met.       *)
(* (If it is not, a container left over at that offset is mounted.)         *)
(***************************************************************************)
ListedIsMounted ==
    [][\A k \in Keys :
          LET d == k[1] IN
          ~M!Mounted(k) /\ M!Mounted(k)' /\ slot[d].id = listed[d]
              => /\ k \in PresentKeys
                 /\ mounts'[k].of.meta = slot[d].id
                 /\ mounts'[k].offset = slot[d].table[k[2]]]_historyVars
=============================================================================
