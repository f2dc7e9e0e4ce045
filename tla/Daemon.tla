------------------------------- MODULE Daemon -------------------------------
(***************************************************************************)
(* The daemon: run_daemon_internal and scan_and_update (src/src/main.rs)    *)
(* with the scan of DeviceMonitor (src/src/device_monitor.rs).  One thread  *)
(* waits for DeviceEvents, scans all drive numbers after each, mounts what  *)
(* is new and unmounts what is gone.                                       *)
(*                                                                         *)
(* It is composed of MountManager (M), which it calls, and DeviceWatcher    *)
(* (W), which runs on threads of the operating system.  Disks come and go   *)
(* between any two steps; each change raises a notification in W.           *)
(***************************************************************************)
EXTENDS Integers, Sequences, FiniteSets

CONSTANTS NDisks, PartNumbers, Offsets, Layouts, MaxArrivals,
          NLetters, MaxGrabs, MaxFaults

ASSUME DaemonAssumption ==
    /\ NDisks \in Nat
    /\ IsFiniteSet(PartNumbers)
    /\ Layouts \subseteq [table : UNION { [S -> Offsets] : S \in SUBSET PartNumbers },
                          volumes : SUBSET Offsets]
    /\ MaxArrivals \in Nat
    /\ NLetters \in Nat
    /\ MaxGrabs \in Nat
    /\ MaxFaults \in Nat

VARIABLES
    slot, arrivals,                             \* PhysicalDisks
    mounts, attempt, foreign, grabs, faults,    \* MountManager
    watch, box, raised, running, chan,          \* DeviceWatcher
    pc,             \* where the daemon's thread is
    next,           \* disk_num in scan_apfs_partitions
    found,          \* partitions: what this scan has found, <<key, offset>>
    todo,           \* the part of it that the mount loop has not reached
    known,          \* known_partitions
    removed,        \* the part of "removed" that is still to be unmounted
    stop            \* a message waits in shutdown_rx

M == INSTANCE MountManager
W == INSTANCE DeviceWatcher

mountVars == <<slot, arrivals, mounts, attempt, foreign, grabs, faults>>
watchVars == <<watch, box, raised, running, chan>>
loopVars == <<pc, next, found, todo, known, removed>>
vars == <<mountVars, watchVars, loopVars, stop>>

Keys == M!Keys

Scanning == {"scan", "mount", "mounting", "unmount"}

(* Inside the event loop, or in the scan that precedes it. *)
Serving == Scanning \cup {"select", "timeout"}

\* run_daemon_internal has returned, with Ok or with Err.
Over == {"done", "failed"}

Places == {"start"} \cup Serving \cup {"unwatch", "dropMounts"} \cup Over

TypeOK ==
    /\ M!TypeOK
    /\ W!TypeOK
    /\ pc \in Places
    /\ next \in 0 .. NDisks
    /\ found \subseteq Keys \X Offsets
    /\ todo \subseteq found
    /\ known \subseteq Keys
    /\ removed \subseteq known
    /\ stop \in BOOLEAN

Init ==
    /\ M!Init
    /\ W!Init
    /\ pc = "start"
    /\ next = 0
    /\ found = {}
    /\ todo = {}
    /\ known = {}
    /\ removed = {}
    /\ stop = FALSE
-----------------------------------------------------------------------------
\* Mutant of BeginScan: what the scan before has found is kept.
BeginScanKeepsFound ==
    /\ pc' = "scan"
    /\ next' = 0
    /\ UNCHANGED <<found, todo, known, removed>>

\* scan_and_update begins with disk 0 and an empty Vec.
BeginScan ==
    /\ pc' = "scan"
    /\ next' = 0
    /\ found' = {}
    /\ UNCHANGED <<todo, known, removed>>

\* Mutant of Start: the watcher is created after the first scan.
StartScansFirst ==
    /\ UNCHANGED <<mountVars, stop>>
    /\ \/ pc = "start" /\ BeginScan /\ UNCHANGED watchVars
       \/ pc = "select" /\ W!Register /\ UNCHANGED loopVars

\* Mutant of Start: "let _ =" instead of "let _watcher =" drops the watcher at once.
StartDropsWatcher ==
    /\ pc = "start"
    /\ watch' = "dropped"
    /\ box' = "freed"
    /\ BeginScan
    /\ UNCHANGED <<mountVars, raised, running, chan, stop>>

\* DeviceWatcher::new, and the first scan.
Start ==
    /\ pc = "start"
    /\ W!Register
    /\ BeginScan
    /\ UNCHANGED <<mountVars, stop>>

\* DeviceWatcher::new fails: run_daemon_internal returns the error.  The manager
\* that it drops has no volume.
StartFails ==
    /\ pc = "start"
    /\ W!RegisterFails
    /\ pc' = "failed"
    /\ UNCHANGED <<mountVars, next, found, todo, known, removed, stop>>

\* The APFS partitions that the partition table of disk d lists now.
PartitionsOf(d) ==
    { <<<<d, n>>, slot[d].table[n]>> : n \in DOMAIN slot[d].table }

\* scan_disk_for_apfs for the next number.  A number without a disk is skipped.
ScanDisk ==
    /\ pc = "scan"
    /\ next < NDisks
    /\ found' = found \cup PartitionsOf(next)
    /\ next' = next + 1
    /\ UNCHANGED <<mountVars, watchVars, pc, todo, known, removed, stop>>

\* The disk is there, but opening it or reading its table fails: skipped, too.
ScanDiskFails ==
    /\ pc = "scan"
    /\ next < NDisks
    /\ PartitionsOf(next) # {}
    /\ M!OtherError
    /\ next' = next + 1
    /\ UNCHANGED <<watchVars, pc, found, todo, known, removed, stop>>

ScanDone ==
    /\ pc = "scan"
    /\ next = NDisks
    /\ pc' = "mount"
    /\ todo' = found
    /\ UNCHANGED <<mountVars, watchVars, next, found, known, removed, stop>>

\* The mount loop goes through the disks in the order of their numbers.
IsNext(p) ==
    /\ p \in todo
    /\ \A q \in todo : p[1][1] <= q[1][1]

\* The partition is known, or no letter is available: nothing is done about it.
SkipPartition ==
    /\ pc = "mount"
    /\ \E p \in todo :
          /\ IsNext(p)
          /\ p[1] \in known \/ M!FreeLetters = {}
          /\ todo' = todo \ {p}
    /\ UNCHANGED <<mountVars, watchVars, pc, next, found, known, removed, stop>>

\* find_available_drive_letters().first(), and the call of mount_partition.
CallMount ==
    /\ pc = "mount"
    /\ \E p \in todo, l \in M!FreeLetters :
          /\ IsNext(p)
          /\ p[1] \notin known
          /\ \A m \in M!FreeLetters : l <= m
          /\ M!Begin(p[1], p[2], l)
    /\ pc' = "mounting"
    /\ UNCHANGED <<watchVars, next, found, todo, known, removed, stop>>

\* mount_partition goes on.
MountStep ==
    /\ pc = "mounting"
    /\ M!OpenDisk \/ M!ReopenRaw \/ M!ReopenForSize \/ M!OpenVolume
    /\ UNCHANGED <<watchVars, loopVars, stop>>

\* mount_partition returns: the loop is done with the partition.
Returned ==
    /\ pc = "mounting"
    /\ pc' = "mount"
    /\ todo' = todo \ {<<attempt.key, attempt.offset>>}
    /\ UNCHANGED <<watchVars, next, found, removed, stop>>

\* Ok(_): the partition is known from now on.
MountOk ==
    /\ Returned
    /\ M!HostMount
    /\ known' = known \cup {attempt.key}

\* Mutant of MountErr: the key is inserted whatever mount_partition returned.
MountErrIsKnown ==
    /\ Returned
    /\ M!Fail
    /\ known' = known \cup {attempt.key}

\* Mutant of MountErr: the partition is tried again at once.
MountErrRetries ==
    /\ pc = "mounting"
    /\ pc' = "mount"
    /\ M!Fail
    /\ UNCHANGED <<watchVars, next, found, todo, known, removed, stop>>

\* Err(e): logged.
MountErr ==
    /\ Returned
    /\ M!Fail
    /\ UNCHANGED known

CurrentPartitions == { p[1] : p \in found }

\* Mutant of Missing: the difference the other way round.
MissingSwapped == CurrentPartitions \ known

\* Mutant of Missing: with what the mount loop has left over.
MissingFromTodo == known \ { p[1] : p \in todo }

\* known_partitions.difference(&current_partitions)
Missing == known \ CurrentPartitions

MountsDone ==
    /\ pc = "mount"
    /\ todo = {}
    /\ pc' = "unmount"
    /\ removed' = Missing
    /\ UNCHANGED <<mountVars, watchVars, next, found, todo, known, stop>>

UnmountOne ==
    /\ pc = "unmount"
    /\ \E k \in removed :
          /\ M!Unmount(k)
          /\ known' = known \ {k}
          /\ removed' = removed \ {k}
    /\ UNCHANGED <<watchVars, pc, next, found, todo, stop>>

UnmountsDone ==
    /\ pc = "unmount"
    /\ removed = {}
    /\ pc' = "select"
    /\ UNCHANGED <<mountVars, watchVars, next, found, todo, known, removed, stop>>

\* Mutant of SelectEvent: only an Added event makes the daemon scan.
SelectEventAddedOnly ==
    /\ pc = "select"
    /\ W!Receive
    /\ IF Head(chan) = "Added" THEN BeginScan ELSE UNCHANGED loopVars
    /\ UNCHANGED <<mountVars, stop>>

\* recv(device_rx) -> Ok(Added) or Ok(Removed): scan again.  (Err(_), when every
\* Sender is gone, ends the loop; SenderAliveInLoop says that it cannot happen.)
SelectEvent ==
    /\ pc = "select"
    /\ W!Receive
    /\ BeginScan
    /\ UNCHANGED <<mountVars, stop>>

\* default(100 ms): there was no event.
SelectTimeout ==
    /\ pc = "select"
    /\ chan = <<>>
    /\ pc' = "timeout"
    /\ UNCHANGED <<mountVars, watchVars, next, found, todo, known, removed, stop>>

\* Mutant of CheckShutdown: the loop is left without running the destructors.
CheckShutdownExits ==
    /\ pc = "timeout"
    /\ pc' = IF stop THEN "done" ELSE "select"
    /\ UNCHANGED <<mountVars, watchVars, next, found, todo, known, removed, stop>>

\* shutdown_rx.try_recv(): leave the loop if there was a message.
CheckShutdown ==
    /\ pc = "timeout"
    /\ pc' = IF stop THEN "unwatch" ELSE "select"
    /\ stop' = FALSE
    /\ UNCHANGED <<mountVars, watchVars, next, found, todo, known, removed>>

\* The locals of run_daemon_internal are dropped, the last one declared first:
\* _watcher, ...
DropWatcher ==
    /\ pc = "unwatch"
    /\ \/ W!Unregister /\ UNCHANGED pc
       \/ W!Reclaim /\ pc' = "dropMounts"
    /\ UNCHANGED <<mountVars, next, found, todo, known, removed, stop>>

\* ... and the manager, with it each host.
DropMount ==
    /\ pc = "dropMounts"
    /\ \E k \in Keys : M!Mounted(k) /\ M!Unmount(k)
    /\ UNCHANGED <<watchVars, loopVars, stop>>

Exit ==
    /\ pc = "dropMounts"
    /\ \A k \in Keys : ~M!Mounted(k)
    /\ pc' = "done"
    /\ UNCHANGED <<mountVars, watchVars, next, found, todo, known, removed, stop>>
-----------------------------------------------------------------------------
\* The environment.  A disk that comes or goes raises a notification.
PlugIn(d, c) ==
    /\ M!PlugIn(d, c)
    /\ W!Raise("ARRIVAL")
    /\ UNCHANGED <<loopVars, stop>>

PullOut(d) ==
    /\ M!PullOut(d)
    /\ W!Raise("REMOVAL")
    /\ UNCHANGED <<loopVars, stop>>

\* The thread of the operating system that runs the watcher's callback.
Notify(a) ==
    /\ W!CallbackStart(a) \/ W!Callback(a)
    /\ UNCHANGED <<mountVars, loopVars, stop>>

OtherPrograms ==
    /\ \E l \in M!Letters : M!TakeLetter(l) \/ M!ReleaseLetter(l)
    /\ UNCHANGED <<watchVars, loopVars, stop>>

\* Ctrl+C, or a control of the service manager.
RequestStop ==
    /\ ~stop
    /\ pc \in {"start"} \cup Serving
    /\ stop' = TRUE
    /\ UNCHANGED <<mountVars, watchVars, loopVars>>

Thread ==
    \/ Start \/ StartFails
    \/ ScanDisk \/ ScanDiskFails \/ ScanDone
    \/ SkipPartition \/ CallMount \/ MountStep \/ MountOk \/ MountErr
    \/ MountsDone \/ UnmountOne \/ UnmountsDone
    \/ SelectEvent \/ SelectTimeout \/ CheckShutdown
    \/ DropWatcher \/ DropMount \/ Exit

\* The process has ended.
Ended == pc \in Over /\ UNCHANGED vars

Next ==
    \/ Thread
    \/ \E a \in {"ARRIVAL", "REMOVAL"} : Notify(a)
    \/ \E d \in M!Disks : (\E c \in Layouts : PlugIn(d, c)) \/ PullOut(d)
    \/ OtherPrograms
    \/ RequestStop
    \/ Ended

\* The thread is scheduled, its calls return, and CM runs the callbacks it owes.
\* Nothing is assumed of disks, other programs or whoever requests the stop.
Fairness ==
    /\ WF_vars(Thread)
    /\ \A a \in {"ARRIVAL", "REMOVAL"} : WF_vars(Notify(a))

Spec == Init /\ [][Next]_vars

FairSpec == Spec /\ Fairness
-----------------------------------------------------------------------------
PresentKeys == { k \in Keys : k[2] \in DOMAIN slot[k[1]].table }

\* Those whose partition holds a volume that can be mounted.
VolumeKeys == { k \in PresentKeys : slot[k[1]].table[k[2]] \in slot[k[1]].volumes }

\* The daemon waits, and every change of the disks has been dealt with.
Settled ==
    /\ pc = "select"
    /\ chan = <<>>
    /\ \A a \in W!Actions : raised[a] = 0 /\ running[a] = 0

\* No I/O error so far, no letter taken or released by others, one for each key.
Undisturbed ==
    /\ faults = 0
    /\ grabs = 0
    /\ Cardinality(M!Letters \ foreign) >= Cardinality(Keys)

(***************************************************************************)
(* known_partitions decides what is mounted and unmounted next, and the map *)
(* of the MountManager is what is mounted: the two agree whenever the       *)
(* daemon decides, after failed mounts, too.                               *)
(***************************************************************************)
KnownIsMounted == pc \in Serving => known = { k \in Keys : M!Mounted(k) }

(***************************************************************************)
(* However the disks have come and gone, during scans and mounts or before  *)
(* the watcher existed: once the daemon has dealt with it all, the key of   *)
(* each partition that is present and holds a volume has one mounted.  (It  *)
(* may be that of the disk before: RemovedAreUnmounted below fails.)        *)
(***************************************************************************)
AutoMount == Settled /\ Undisturbed => VolumeKeys \subseteq known

(***************************************************************************)
(* ... and there is no volume under a key that is not present, whatever     *)
(* else has failed.                                                        *)
(***************************************************************************)
AutoUnmount == Settled => known \subseteq PresentKeys

(***************************************************************************)
(* A volume is taken away only from its user when its disk is gone, or has  *)
(* no such partition (a scan of the disk that had the number before said it *)
(* had one).  Scan and unmount are far apart: disks change in between.      *)
(***************************************************************************)
OnlyGoneUnmounted ==
    [][\A k \in Keys :
          faults = 0 /\ pc = "unmount" /\ M!Mounted(k) /\ M!Mounted(k)' = FALSE
              => mounts[k].of.meta # slot[k[1]].id \/ k \notin PresentKeys]_vars

(***************************************************************************)
(* The Sender lives as long as the loop receives, so recv never fails and   *)
(* the "Err(_) => break" of the loop is not how a daemon ends.              *)
(***************************************************************************)
SenderAliveInLoop == pc \in Serving => box = "live"

(***************************************************************************)
(* A daemon that has ended leaves no mounted volume, no Sender and no       *)
(* callback behind, whether the watcher was ever registered or not.        *)
(***************************************************************************)
CleanExit ==
    pc \in Over =>
        /\ \A k \in Keys : ~M!Mounted(k)
        /\ box = "freed"
        /\ \A a \in W!Actions : raised[a] = 0 /\ running[a] = 0

(***************************************************************************)
(* A request to stop ends the daemon, from wherever it is, provided that    *)
(* events stop coming: the loop looks at shutdown_rx only when 100 ms pass  *)
(* without one.  MaxArrivals is what bounds the events here.               *)
(***************************************************************************)
StopIsHonoured == stop ~> pc \in Over

(***************************************************************************)
(* When the disks no longer change the daemon comes to rest, with what      *)
(* AutoMount and AutoUnmount say.                                          *)
(***************************************************************************)
Settles == []<>(Settled \/ pc \in Over)
-----------------------------------------------------------------------------
Stage ==
    CASE pc = "start" -> "start"
      [] pc \in Serving -> "serving"
      [] pc \in {"unwatch", "dropMounts"} -> "leaving"
      [] pc = "done" -> "returned"
      [] pc = "failed" -> "failed"

L == INSTANCE DaemonLife WITH stage <- Stage, mail <- stop

(***************************************************************************)
(* To who runs it the daemon is what DaemonLife says: it takes a stop only  *)
(* between two scans and returns only behind its clean-up, and what comes   *)
(* of its start is told by what it returns.                                *)
(***************************************************************************)
ImplementsLife == L!Spec
-----------------------------------------------------------------------------
(* What the documentation says of the daemon, and the code does not do.     *)

(***************************************************************************)
(* main.rs:237, "Unmount removed partitions": when the daemon has dealt     *)
(* with all events, no volume of a removed disk is still mounted.          *)
(***************************************************************************)
RemovedAreUnmounted ==
    Settled => \A k \in Keys :
        M!Mounted(k) => mounts[k].of.meta = slot[k[1]].id

(***************************************************************************)
(* main.rs:237, "Unmount removed partitions": only those, so a volume whose *)
(* partition is still there stays mounted.                                 *)
(***************************************************************************)
OnlyRemovedAreUnmounted ==
    [][\A k \in Keys :
          pc = "unmount" /\ M!Mounted(k) /\ M!Mounted(k)' = FALSE
              => mounts[k].of.meta # slot[k[1]].id \/ k \notin PresentKeys]_vars

(***************************************************************************)
(* main.rs:44, "auto-mount all APFS drives": without any error, a partition *)
(* is left without a volume only for want of a drive letter.               *)
(***************************************************************************)
AllAreMounted ==
    Settled /\ faults = 0 /\ M!FreeLetters # {} => VolumeKeys \subseteq known
=============================================================================
