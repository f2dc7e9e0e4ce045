---------------------------- MODULE DaemonProofs ----------------------------
(***************************************************************************)
(* Safety of the daemon for any number of drive numbers, partitions,        *)
(* letters and arrivals: what is mounted when it comes to rest, what it     *)
(* unmounts, and what it leaves behind.                                    *)
(*                                                                         *)
(* MP and WP are the components with their theorems.  A step of the daemon  *)
(* is a step of each component or leaves it alone, so their inductive       *)
(* invariants hold here, too; what is added is how the daemon's thread      *)
(* relates to them.                                                        *)
(***************************************************************************)
EXTENDS DaemonHistory, FiniteSetTheorems, TLAPS

MP == INSTANCE MountManagerProofs
WP == INSTANCE DeviceWatcherProofs
-----------------------------------------------------------------------------
\* The rest of TypeOK.  Outside of the mount loop it has nothing left to do.
LoopTypeOK ==
    /\ pc \in Places
    /\ next \in 0 .. NDisks
    /\ found \subseteq Keys \X Offsets
    /\ todo \subseteq found
    /\ known \subseteq Keys
    /\ removed \subseteq known
    /\ stop \in BOOLEAN
    /\ pc \notin {"mount", "mounting"} => todo = {}

\* The attempt of the MountManager is the call that the mount loop is in.
AttemptIsCall ==
    /\ M!Trying <=> pc = "mounting"
    /\ pc = "mounting" =>
          /\ <<attempt.key, attempt.offset>> \in todo
          /\ attempt.key \notin known

\* A slot without a disk has no partitions.
EmptySlots == \A d \in M!Disks : slot[d].id = 0 => slot[d] = M!NoDisk

\* How far the watcher's life has come, for each place of the thread.
WatchFollowsThread ==
    /\ pc = "start" => watch = "unborn"
    /\ pc \in Serving => watch = "registered"
    /\ pc = "unwatch" => watch \in {"registered", "unregistering"}
    /\ pc \in {"dropMounts"} \cup Over => watch = "dropped" /\ box = "freed"

\* KnownIsMounted, with the places before and after the loop.
MountedAreKnown ==
    /\ pc \in {"start"} \cup Serving => \A k \in Keys : M!Mounted(k) <=> k \in known
    /\ pc = "start" => known = {}
    /\ pc \in Over => \A k \in Keys : ~M!Mounted(k)

RemovedAreMissing == pc = "unmount" => removed = Missing

\* A notification is on its way that will make the daemon scan again.
EventPending ==
    \/ chan # <<>>
    \/ \E a \in {"ARRIVAL", "REMOVAL"} : raised[a] > 0 \/ running[a] > 0

\* This scan is through with the disk d.
Scanned(d) ==
    \/ pc = "scan" /\ d < next
    \/ pc \in {"mount", "mounting", "unmount"}

(***************************************************************************)
(* What a scan has found is still so, or an event tells that it is not.     *)
(***************************************************************************)
FoundIsFresh ==
    pc \in Scanning => \A p \in found : p \in PartitionsOf(p[1][1]) \/ EventPending

(***************************************************************************)
(* ... and what it has not found of a scanned disk is not there, if no      *)
(* error made it skip one.                                                 *)
(***************************************************************************)
ScanCovers ==
    \A k \in PresentKeys : Scanned(k[1]) => k \in CurrentPartitions \/ EventPending

FoundIsAll == faults = 0 => ScanCovers

(***************************************************************************)
(* A mounted volume whose disk is still the same has been found under its   *)
(* key, if the disk has such a partition - whatever events are pending.     *)
(***************************************************************************)
MountedAreFound ==
    faults = 0 => \A k \in PresentKeys :
        Scanned(k[1]) /\ M!Mounted(k) /\ mounts[k].of.meta = slot[k[1]].id
            => k \in CurrentPartitions

\* While the daemon waits, it knows only what is present.
KnownArePresent ==
    pc \in {"select", "timeout"} => \A k \in known : k \in PresentKeys \/ EventPending

\* The letter that a mount was begun with is still free.
LetterKept == pc = "mounting" => attempt.letter \in M!FreeLetters

\* The disk of an attempt has not changed unnoticed, and its letter is free.
AttemptGoesWell ==
    /\ pc = "mounting" /\ attempt.stage # "disk" =>
          slot[attempt.key[1]].id = attempt.of.meta \/ EventPending
    /\ grabs = 0 => LetterKept

(***************************************************************************)
(* The mount loop leaves out nothing of what was found and holds a volume,  *)
(* and all of that is known when the loop and the scan are over.            *)
(***************************************************************************)
HoldsVolume(p) == p[2] \in slot[p[1][1]].volumes

MountsCover ==
    /\ pc \in {"mount", "mounting"} => \A p \in found :
          HoldsVolume(p) => p[1] \in known \/ p \in todo \/ EventPending
    /\ pc = "unmount" => \A p \in found :
          HoldsVolume(p) => p[1] \in known \/ EventPending
    /\ pc \in {"select", "timeout"} => \A k \in VolumeKeys :
          k \in known \/ EventPending

FoundAreMounted == Undisturbed => MountsCover

\* There is a letter for each key.
Room == Cardinality(M!Letters \ foreign) >= Cardinality(Keys)

\* What the daemon's thread adds to the invariants of the components.
LoopInv ==
    /\ LoopTypeOK
    /\ EmptySlots
    /\ AttemptIsCall
    /\ WatchFollowsThread
    /\ MountedAreKnown
    /\ RemovedAreMissing
    /\ FoundIsFresh
    /\ FoundIsAll
    /\ MountedAreFound
    /\ KnownArePresent
    /\ AttemptGoesWell
    /\ FoundAreMounted

IInv == MP!IInv /\ WP!IInv /\ LoopInv
-----------------------------------------------------------------------------
(***************************************************************************)
(* M and MP, W and WP are two instances of the same definitions.            *)
(***************************************************************************)
LEMMA SameManager ==
  /\ M!Init <=> MP!Init
  /\ M!Next <=> MP!Next
  /\ M!TypeOK <=> MP!TypeOK
  BY Zenon DEF M!Init, MP!Init, M!DisksInit, MP!DisksInit,
     M!Next, MP!Next, M!Begin, MP!Begin, M!Idle, MP!Idle, M!NoHandles, MP!NoHandles,
     M!Step, MP!Step, M!Keys, MP!Keys, M!Disks, MP!Disks, M!Letters, MP!Letters,
     M!OpenDisk, MP!OpenDisk, M!ReopenRaw, MP!ReopenRaw,
     M!ReopenForSize, MP!ReopenForSize, M!OpenVolume, MP!OpenVolume,
     M!HostMount, MP!HostMount, M!Fail, MP!Fail, M!Unmount, MP!Unmount,
     M!NoVolume, MP!NoVolume, M!TakeLetter, MP!TakeLetter,
     M!ReleaseLetter, MP!ReleaseLetter, M!OtherError, MP!OtherError,
     M!PlugIn, MP!PlugIn, M!PullOut, MP!PullOut, M!Plug, MP!Plug,
     M!Unplug, MP!Unplug, M!Advance, MP!Advance, M!Target, MP!Target,
     M!StageAfter, MP!StageAfter, M!CanOpen, MP!CanOpen, M!HasVolume, MP!HasVolume,
     M!LetterFree, MP!LetterFree, M!FreeLetters, MP!FreeLetters,
     M!Feasible, MP!Feasible, M!Trying, MP!Trying, M!Present, MP!Present,
     M!NoDisk, MP!NoDisk, M!NoTable, MP!NoTable,
     M!TypeOK, MP!TypeOK, M!DisksTypeOK, MP!DisksTypeOK, M!Disk, MP!Disk,
     M!Volume, MP!Volume, M!Handles, MP!Handles, M!Attempt, MP!Attempt,
     M!Stages, MP!Stages

LEMMA SameWatcher ==
  /\ W!Init <=> WP!Init
  /\ W!Next <=> WP!Next
  /\ W!TypeOK <=> WP!TypeOK
  BY Zenon DEF W!Init, WP!Init, W!NoNotes, WP!NoNotes, W!Actions, WP!Actions,
     W!Next, WP!Next, W!Register, WP!Register, W!RegisterFails, WP!RegisterFails,
     W!Raise, WP!Raise, W!Deliver, WP!Deliver, W!CallbackStart, WP!CallbackStart,
     W!Callback, WP!Callback, W!EventsOf, WP!EventsOf, W!Receive, WP!Receive,
     W!Unregister, WP!Unregister, W!Reclaim, WP!Reclaim,
     W!CallbacksDone, WP!CallbacksDone, W!Dropped, WP!Dropped, W!vars, WP!vars,
     W!TypeOK, WP!TypeOK, W!DeviceEvent, WP!DeviceEvent

LEMMA ManagerStep == M!TypeOK /\ LoopTypeOK /\ [Next]_vars => [M!Next]_mountVars
<1> SUFFICES ASSUME M!TypeOK, LoopTypeOK, [Next]_vars PROVE [M!Next]_mountVars
  OBVIOUS
<1>1. CASE Thread
  <2>1. CASE CallMount
    <3>1. PICK p \in todo, l \in M!FreeLetters : M!Begin(p[1], p[2], l)
      BY <2>1 DEF CallMount
    <3>2. p[1] \in M!Keys /\ p[2] \in Offsets /\ l \in M!Letters
      BY DEF LoopTypeOK, Keys, M!FreeLetters
    <3> QED BY <3>1, <3>2 DEF M!Next
  <2>2. CASE MountStep \/ MountOk \/ MountErr
    BY <2>2 DEF MountStep, MountOk, MountErr, M!Next, M!Step
  <2>3. CASE UnmountOne \/ DropMount
    BY <2>3 DEF UnmountOne, DropMount, M!Next, LoopTypeOK, Keys
  <2>4. CASE ScanDiskFails
    BY <2>4 DEF ScanDiskFails, M!Next
  <2>5. CASE Start \/ StartFails \/ ScanDisk \/ ScanDone \/ SkipPartition
    BY <2>5 DEF Start, StartFails, ScanDisk, ScanDone, SkipPartition
  <2>6. CASE MountsDone \/ UnmountsDone \/ SelectEvent \/ SelectTimeout
             \/ CheckShutdown \/ DropWatcher \/ Exit
    BY <2>6 DEF MountsDone, UnmountsDone, SelectEvent, SelectTimeout,
       CheckShutdown, DropWatcher, Exit
  <2> QED
    BY <1>1, <2>1, <2>2, <2>3, <2>4, <2>5, <2>6 DEF Thread
<1>2. ASSUME NEW a \in {"ARRIVAL", "REMOVAL"}, Notify(a) PROVE [M!Next]_mountVars
  BY <1>2 DEF Notify
<1>3. CASE \E d \in M!Disks : (\E c \in Layouts : PlugIn(d, c)) \/ PullOut(d)
  BY <1>3 DEF PlugIn, PullOut, M!Next
<1>4. CASE OtherPrograms
  BY <1>4 DEF OtherPrograms, M!Next
<1>5. CASE RequestStop \/ Ended \/ UNCHANGED vars
  BY <1>5 DEF RequestStop, Ended, vars
<1> QED
  BY <1>1, <1>2, <1>3, <1>4, <1>5 DEF Next

LEMMA WatcherStep == [Next]_vars => [W!Next]_watchVars
<1> SUFFICES ASSUME [Next]_vars PROVE [W!Next]_watchVars
  OBVIOUS
<1>1. CASE Thread
  <2>1. CASE Start \/ StartFails \/ SelectEvent \/ DropWatcher
    BY <2>1 DEF Start, StartFails, SelectEvent, DropWatcher, W!Next
  <2>2. CASE ScanDisk \/ ScanDiskFails \/ ScanDone \/ SkipPartition \/ CallMount
    BY <2>2 DEF ScanDisk, ScanDiskFails, ScanDone, SkipPartition, CallMount
  <2>3. CASE MountStep \/ MountOk \/ MountErr \/ MountsDone \/ UnmountOne
    BY <2>3 DEF MountStep, MountOk, MountErr, Returned, MountsDone, UnmountOne
  <2>4. CASE UnmountsDone \/ SelectTimeout \/ CheckShutdown \/ DropMount \/ Exit
    BY <2>4 DEF UnmountsDone, SelectTimeout, CheckShutdown, DropMount, Exit
  <2> QED
    BY <1>1, <2>1, <2>2, <2>3, <2>4 DEF Thread
<1>2. ASSUME NEW a \in {"ARRIVAL", "REMOVAL"}, Notify(a) PROVE [W!Next]_watchVars
  BY <1>2 DEF Notify, W!Next, W!Deliver, W!Actions
<1>3. ASSUME NEW d \in M!Disks, (\E c \in Layouts : PlugIn(d, c)) \/ PullOut(d)
      PROVE  [W!Next]_watchVars
  BY <1>3 DEF PlugIn, PullOut, W!Next, W!Actions
<1>4. CASE OtherPrograms \/ RequestStop \/ Ended \/ UNCHANGED vars
  BY <1>4 DEF OtherPrograms, RequestStop, Ended, vars
<1> QED
  BY <1>1, <1>2, <1>3, <1>4 DEF Next

\* The components' inductive invariants are kept by each step of the daemon.
LEMMA ComponentsIInv ==
  ASSUME MP!IInv, WP!IInv, LoopTypeOK, [Next]_vars
  PROVE  MP!IInv' /\ WP!IInv'
<1>1. M!TypeOK
  BY SameManager DEF MP!IInv
<1>2. [MP!Next]_(MP!vars)
  BY <1>1, ManagerStep, SameManager DEF MP!vars, mountVars
<1>3. [WP!Next]_(WP!vars)
  BY WatcherStep, SameWatcher DEF WP!vars, watchVars
<1> QED
  BY <1>2, <1>3, MP!NextIInv, WP!NextIInv, DaemonAssumption

LEMMA InitIInv == Init => IInv
<1> SUFFICES ASSUME Init PROVE IInv
  OBVIOUS
<1>1. MP!IInv /\ WP!IInv
  BY SameManager, SameWatcher, MP!InitIInv, WP!InitIInv, DaemonAssumption DEF Init
<1>2. /\ slot = [d \in M!Disks |-> M!NoDisk]
      /\ mounts = [k \in M!Keys |-> M!NoVolume]
      /\ attempt = M!Idle
      /\ watch = "unborn"
  BY DEF Init, M!Init, W!Init, M!DisksInit
<1>3. LoopTypeOK
  <2>1. /\ found \subseteq Keys \X Offsets
        /\ todo \subseteq found
        /\ known \subseteq Keys
        /\ removed \subseteq known
    BY Zenon DEF Init
  <2>2. NDisks \in Nat
    BY Zenon, DaemonAssumption
  <2>3. next \in 0 .. NDisks
    BY <2>2 DEF Init
  <2>4. pc \in Places /\ stop \in BOOLEAN
    BY Zenon DEF Init, Places
  <2> QED
    BY Zenon, <2>1, <2>3, <2>4 DEF LoopTypeOK, Init
<1>4. EmptySlots
  BY <1>2 DEF EmptySlots, M!NoDisk
<1>5. AttemptIsCall /\ WatchFollowsThread /\ MountedAreKnown /\ RemovedAreMissing
  BY <1>2 DEF Init, AttemptIsCall, WatchFollowsThread, MountedAreKnown,
     RemovedAreMissing, M!Trying, M!Idle, M!Mounted, Over, Serving, Scanning, Keys
<1>6. /\ FoundIsFresh
      /\ FoundIsAll
      /\ MountedAreFound
      /\ KnownArePresent
      /\ AttemptGoesWell
      /\ FoundAreMounted
  BY DEF Init, FoundIsFresh, FoundIsAll, MountedAreFound, KnownArePresent,
     AttemptGoesWell, LetterKept, FoundAreMounted, MountsCover, ScanCovers, Scanned,
     Scanning
<1> QED
  BY <1>1, <1>3, <1>4, <1>5, <1>6 DEF IInv, LoopInv
-----------------------------------------------------------------------------
(***************************************************************************)
(* What the components' invariants say, in the terms of this module.        *)
(***************************************************************************)
LEMMA ManagerFacts ==
  ASSUME IInv
  PROVE  /\ M!TypeOK
         /\ DOMAIN mounts = Keys
         /\ \A d \in M!Disks : slot[d].id \in Nat /\ slot[d].id <= arrivals
         /\ arrivals \in Nat
         /\ \A k \in Keys : M!Mounted(k) =>
               /\ mounts[k].of.meta \in Nat \ {0}
               /\ mounts[k].of.meta <= arrivals
               /\ mounts[k].letter \in M!Letters
         /\ \A k \in Keys : k[1] \in M!Disks
<1>1. M!TypeOK
  BY SameManager DEF IInv, MP!IInv
<1>2. \A d \in M!Disks : slot[d].id <= arrivals
  BY DEF IInv, MP!IInv, MP!IdsHaveArrived, M!Disks, MP!Disks
<1>3. \A k \in Keys : M!Mounted(k) =>
          mounts[k].of.meta # 0 /\ mounts[k].of.meta <= arrivals
  BY DEF IInv, MP!IInv, MP!MountedIdsHaveArrived, MP!Mounted, M!Mounted, Keys,
     M!Keys, MP!Keys, M!Disks, MP!Disks, M!NoVolume, MP!NoVolume
<1>4. \A k \in Keys : M!Mounted(k) => mounts[k] \in M!Volume
  BY <1>1 DEF M!TypeOK, M!Mounted, Keys
<1> QED
  BY <1>1, <1>2, <1>3, <1>4
  DEF M!TypeOK, M!DisksTypeOK, M!Disk, M!Volume, M!Handles, Keys, M!Keys

LEMMA AttemptFacts ==
  ASSUME IInv, pc = "mounting"
  PROVE  /\ attempt \in M!Attempt
         /\ attempt.key \in Keys
         /\ attempt.key[1] \in M!Disks
         /\ attempt.stage # "disk" =>
               attempt.of.meta \in Nat \ {0} /\ attempt.of.meta <= arrivals
<1>1. M!Trying
  BY DEF IInv, LoopInv, AttemptIsCall
<1>2. attempt \in M!Attempt
  BY <1>1, ManagerFacts DEF M!TypeOK, M!Trying, M!Idle
<1>3. attempt.stage # "disk" => attempt.of.meta # 0 /\ attempt.of.meta <= arrivals
  BY <1>1 DEF IInv, MP!IInv, MP!AttemptOpened, MP!Opened, MP!Between, M!Trying,
     MP!Trying
<1> QED
  BY <1>2, <1>3, ManagerFacts DEF M!Attempt, M!Handles, Keys
(***************************************************************************)
(* The types are kept.  A scan finds what the partition tables list.        *)
(***************************************************************************)
LEMMA TableType ==
  ASSUME M!TypeOK, NEW d \in M!Disks
  PROVE  PartitionsOf(d) \subseteq Keys \X Offsets
<1>1. slot[d].table \in { c.table : c \in Layouts } \cup {M!NoTable}
  BY DEF M!TypeOK, M!DisksTypeOK, M!Disk
<1>2. \A c \in Layouts : c.table \in UNION { [S -> Offsets] : S \in SUBSET PartNumbers }
  BY DaemonAssumption
<1>3. ASSUME NEW n \in DOMAIN slot[d].table
      PROVE  n \in PartNumbers /\ slot[d].table[n] \in Offsets
  <2>1. slot[d].table # M!NoTable
    BY <1>3 DEF M!NoTable
  <2>2. \E c \in Layouts : slot[d].table = c.table
    BY <1>1, <2>1
  <2>3. PICK S \in SUBSET PartNumbers : slot[d].table \in [S -> Offsets]
    BY <1>2, <2>2
  <2> QED
    BY <1>3, <2>3
<1> QED
  BY <1>3 DEF PartitionsOf, Keys, M!Keys

LEMMA LoopTypeStep == IInv /\ [Next]_vars => LoopTypeOK'
<1> SUFFICES ASSUME LoopTypeOK, M!TypeOK, AttemptIsCall, [Next]_vars
             PROVE  LoopTypeOK'
  BY ManagerFacts DEF IInv, LoopInv
<1> USE DEF Next, Thread, Start, StartFails, ScanDisk, ScanDiskFails, ScanDone,
     SkipPartition, CallMount, MountStep, MountOk, MountErr, Returned,
     MountsDone, UnmountOne, UnmountsDone, SelectEvent, SelectTimeout,
     CheckShutdown, DropWatcher, DropMount, Exit, Notify, PlugIn, PullOut,
     OtherPrograms, RequestStop, Ended, vars, loopVars, BeginScan
<1>1. stop' \in BOOLEAN
  BY Zenon DEF LoopTypeOK
<1>2. pc' \in Places
  BY DEF LoopTypeOK, Places, Over, Serving, Scanning
<1>3. next' \in 0 .. NDisks
  <2>1. NDisks \in Nat
    BY Zenon, DaemonAssumption
  <2> QED
    BY <2>1 DEF LoopTypeOK
<1>4. found' \subseteq Keys \X Offsets
  <2>1. CASE ScanDisk
    <3>1. next \in M!Disks
      BY <2>1, DaemonAssumption DEF LoopTypeOK, M!Disks
    <3> QED
      BY Zenon, <2>1, <3>1, TableType DEF LoopTypeOK
  <2> QED
    BY Zenon, <2>1 DEF LoopTypeOK
<1>5. todo' \subseteq found'
  <2>1. CASE Start \/ SelectEvent
    BY <2>1 DEF LoopTypeOK
  <2>2. CASE \/ ScanDisk \/ ScanDone
             \/ SkipPartition \/ MountOk \/ MountErr
    BY <2>2 DEF LoopTypeOK
  <2>3. CASE UNCHANGED <<found, todo>>
    BY <2>3 DEF LoopTypeOK
  <2> QED
    BY Zenon, <2>1, <2>2, <2>3
<1>6. known' \subseteq Keys
  <2>1. CASE MountOk
    BY <2>1 DEF LoopTypeOK, AttemptIsCall
  <2>2. CASE UnmountOne
    BY <2>2 DEF LoopTypeOK
  <2> QED
    BY Zenon, <2>1, <2>2 DEF LoopTypeOK
<1>7. removed' \subseteq known'
  <2>1. CASE MountOk \/ MountsDone \/ UnmountOne
    BY <2>1 DEF LoopTypeOK, Missing
  <2> QED
    BY Zenon, <2>1 DEF LoopTypeOK
<1>8. pc' \notin {"mount", "mounting"} => todo' = {}
  BY Zenon DEF LoopTypeOK
<1> QED
  BY Zenon, <1>1, <1>2, <1>3, <1>4, <1>5, <1>6, <1>7, <1>8 DEF LoopTypeOK
-----------------------------------------------------------------------------
(***************************************************************************)
(* Which steps change what.                                                *)
(***************************************************************************)
DisksChange == \E d \in M!Disks : (\E c \in Layouts : PlugIn(d, c)) \/ PullOut(d)

LEMMA DisksFrame == [Next]_vars => DisksChange \/ UNCHANGED <<slot, arrivals>>
  BY Zenon DEF DisksChange, Next, Thread, Start, StartFails, ScanDisk,
     ScanDiskFails, ScanDone, SkipPartition, CallMount, MountStep, MountOk,
     MountErr, MountsDone, UnmountOne, UnmountsDone, SelectEvent, SelectTimeout,
     CheckShutdown, DropWatcher, DropMount, Exit, Notify, OtherPrograms,
     RequestStop, Ended, vars, mountVars, M!Begin, M!OpenDisk, M!ReopenRaw,
     M!ReopenForSize, M!OpenVolume, M!Advance, M!HostMount, M!Fail, M!Unmount,
     M!TakeLetter, M!ReleaseLetter, M!OtherError

LEMMA MountsFrame == [Next]_vars => MountOk \/ UnmountOne \/ DropMount \/ mounts' = mounts
  BY Zenon DEF Next, Thread, Start, StartFails, ScanDisk,
     ScanDiskFails, ScanDone, SkipPartition, CallMount, MountStep,
     MountErr, MountsDone, UnmountsDone, SelectEvent, SelectTimeout,
     CheckShutdown, DropWatcher, Exit, Notify, OtherPrograms, PlugIn, PullOut,
     RequestStop, Ended, vars, mountVars, M!Begin, M!OpenDisk, M!ReopenRaw,
     M!ReopenForSize, M!OpenVolume, M!Advance, M!Fail,
     M!TakeLetter, M!ReleaseLetter, M!OtherError, M!PlugIn, M!PullOut

LEMMA AttemptFrame ==
  [Next]_vars => CallMount \/ MountStep \/ MountOk \/ MountErr \/ attempt' = attempt
  BY Zenon DEF Next, Thread, Start, StartFails, ScanDisk,
     ScanDiskFails, ScanDone, SkipPartition, UnmountOne, DropMount,
     MountsDone, UnmountsDone, SelectEvent, SelectTimeout,
     CheckShutdown, DropWatcher, Exit, Notify, OtherPrograms, PlugIn, PullOut,
     RequestStop, Ended, vars, mountVars, M!Unmount,
     M!TakeLetter, M!ReleaseLetter, M!OtherError, M!PlugIn, M!PullOut

LEMMA LettersFrame ==
  [Next]_vars => OtherPrograms \/ UNCHANGED <<foreign, grabs>>
  BY Zenon DEF Next, Thread, Start, StartFails, ScanDisk, ScanDiskFails, ScanDone,
     SkipPartition, CallMount, MountStep, MountOk, MountErr, UnmountOne, DropMount,
     MountsDone, UnmountsDone, SelectEvent, SelectTimeout,
     CheckShutdown, DropWatcher, Exit, Notify, PlugIn, PullOut,
     RequestStop, Ended, vars, mountVars, M!Begin, M!OpenDisk, M!ReopenRaw,
     M!ReopenForSize, M!OpenVolume, M!Advance, M!HostMount, M!Fail, M!Unmount,
     M!OtherError, M!PlugIn, M!PullOut

LEMMA LoopFrame ==
  [Next]_vars => Thread \/ UNCHANGED loopVars
  BY Zenon DEF Next, Notify, PlugIn, PullOut, OtherPrograms, RequestStop, Ended,
     vars, loopVars

\* An error once made, or a letter once taken or released, is never undone.
LEMMA CountersGrow ==
  ASSUME IInv, [Next]_vars
  PROVE  /\ faults \in Nat /\ faults' \in Nat /\ faults <= faults'
         /\ grabs \in Nat /\ grabs' \in Nat /\ grabs <= grabs'
         /\ grabs' = grabs => foreign' = foreign
<1>1. faults \in Nat /\ grabs \in Nat
  BY ManagerFacts DEF M!TypeOK
<1>2. \/ faults' = faults
      \/ faults' = faults + 1
  BY Zenon DEF Next, Thread, Start, StartFails, ScanDisk, ScanDiskFails, ScanDone,
     SkipPartition, CallMount, MountStep, MountOk, MountErr, UnmountOne, DropMount,
     MountsDone, UnmountsDone, SelectEvent, SelectTimeout, OtherPrograms,
     CheckShutdown, DropWatcher, Exit, Notify, PlugIn, PullOut,
     RequestStop, Ended, vars, mountVars, M!Begin, M!OpenDisk, M!ReopenRaw,
     M!ReopenForSize, M!OpenVolume, M!Advance, M!HostMount, M!Fail, M!Unmount,
     M!OtherError, M!PlugIn, M!PullOut, M!TakeLetter, M!ReleaseLetter
<1>3. grabs' = grabs + 1 \/ UNCHANGED <<grabs, foreign>>
  BY Zenon, LettersFrame DEF OtherPrograms, M!TakeLetter, M!ReleaseLetter
<1> QED
  BY <1>1, <1>2, <1>3

(***************************************************************************)
(* Only the scan that it starts, or the end of the watcher, takes away an   *)
(* event; and disks do not change without one.                             *)
(***************************************************************************)
LEMMA PendingStays ==
  ASSUME IInv, [Next]_vars, EventPending, ~SelectEvent, ~DropWatcher
  PROVE  EventPending'
<1>1. /\ raised \in [W!Actions -> Nat]
      /\ running \in [W!Actions -> Nat]
      /\ chan \in Seq(W!DeviceEvent)
  BY SameWatcher DEF IInv, WP!IInv, W!TypeOK
<1>2. CASE \E a \in {"ARRIVAL", "REMOVAL"} : Notify(a)
  BY <1>1, <1>2 DEF Notify, EventPending, W!CallbackStart, W!Callback, W!EventsOf,
     W!Actions
<1>3. CASE DisksChange
  BY <1>1, <1>3 DEF DisksChange, PlugIn, PullOut, EventPending, W!Raise, W!Actions
<1>4. CASE UNCHANGED <<raised, running, chan>>
  BY <1>4 DEF EventPending
<1>5. <1>2!1 \/ <1>3!1 \/ <1>4!1
  BY Zenon DEF DisksChange, Next, Thread, Start, StartFails, ScanDisk, ScanDiskFails,
     ScanDone, SkipPartition, CallMount, MountStep, MountOk, MountErr, Returned,
     UnmountOne, DropMount, MountsDone, UnmountsDone, SelectTimeout, OtherPrograms,
     CheckShutdown, Exit, RequestStop, Ended, vars, watchVars,
     W!Register, W!RegisterFails
<1> QED
  BY <1>2, <1>3, <1>4, <1>5

LEMMA ChangeIsNotified ==
  ASSUME IInv, DisksChange, pc \in Serving
  PROVE  EventPending'
<1>1. raised \in [W!Actions -> Nat]
  BY SameWatcher DEF IInv, WP!IInv, W!TypeOK
<1>2. watch = "registered"
  BY DEF IInv, LoopInv, WatchFollowsThread
<1> QED
  BY <1>1, <1>2 DEF DisksChange, PlugIn, PullOut, EventPending, W!Raise, W!Actions
-----------------------------------------------------------------------------
(***************************************************************************)
(* Each part of LoopInv is kept.                                           *)
(***************************************************************************)
\* What a change of the disks does to one drive number.
LEMMA ChangeOfSlot ==
  ASSUME IInv, DisksChange, NEW e \in M!Disks, slot'[e] # slot[e]
  PROVE  \/ slot'[e] = M!NoDisk
         \/ slot'[e].id = arrivals + 1
<1>1. slot \in [M!Disks -> M!Disk]
  BY ManagerFacts DEF M!TypeOK, M!DisksTypeOK
<1> QED
  BY <1>1 DEF DisksChange, PlugIn, PullOut, M!PlugIn, M!PullOut, M!Plug, M!Unplug

LEMMA EmptySlotsStep == IInv /\ [Next]_vars => EmptySlots'
<1> SUFFICES ASSUME IInv, [Next]_vars, NEW e \in M!Disks, slot'[e].id = 0
             PROVE  slot'[e] = M!NoDisk
  BY DEF EmptySlots, M!NoDisk, M!NoTable, M!Disks
<1>1. CASE slot'[e] = slot[e]
  BY <1>1 DEF IInv, LoopInv, EmptySlots
<1>2. CASE slot'[e] # slot[e]
  BY <1>2, ChangeOfSlot, DisksFrame, ManagerFacts
<1> QED
  BY <1>1, <1>2

\* mount_partition opens its disk, or goes on with the one it has opened.
LEMMA MountStepFacts ==
  ASSUME IInv, MountStep
  PROVE  /\ attempt'.stage \notin {"idle", "disk"}
         /\ attempt'.key = attempt.key
         /\ attempt'.offset = attempt.offset
         /\ attempt'.letter = attempt.letter
         /\ attempt'.of.meta = IF attempt.stage = "disk"
                              THEN slot[attempt.key[1]].id
                              ELSE attempt.of.meta
         /\ UNCHANGED <<slot, arrivals, mounts, foreign, grabs, faults>>
<1>1. attempt \in M!Attempt /\ attempt.of \in M!Handles
  BY AttemptFacts DEF MountStep, M!Attempt
<1>2. PICK h : /\ M!Advance(h)
               /\ attempt.stage \in {"disk", "raw", "size", "volume"}
               /\ h.meta = IF attempt.stage = "disk" THEN slot[attempt.key[1]].id
                                                   ELSE attempt.of.meta
  BY <1>1 DEF MountStep, M!OpenDisk, M!ReopenRaw, M!ReopenForSize, M!OpenVolume,
     M!Handles, M!Target
<1>3. M!StageAfter[attempt.stage] \in {"raw", "size", "volume", "host"}
  BY <1>2 DEF M!StageAfter
<1>4. attempt' = [stage |-> M!StageAfter[attempt.stage], key |-> attempt.key,
                 offset |-> attempt.offset, letter |-> attempt.letter, of |-> h]
  BY <1>1, <1>2 DEF M!Advance, M!Attempt
<1> QED
  BY <1>2, <1>3, <1>4 DEF M!Advance

LEMMA AttemptIsCallStep == IInv /\ [Next]_vars => AttemptIsCall'
<1> SUFFICES ASSUME IInv, [Next]_vars PROVE AttemptIsCall'
  OBVIOUS
<1> USE DEF AttemptIsCall, M!Trying
<1>1. AttemptIsCall /\ LoopTypeOK
  BY DEF IInv, LoopInv
<1>2. CASE CallMount
  <2>1. PICK p \in todo, l \in M!FreeLetters : M!Begin(p[1], p[2], l) /\ p[1] \notin known
    BY <1>2 DEF CallMount
  <2>2. p = <<p[1], p[2]>>
    BY <1>1 DEF LoopTypeOK
  <2>3. /\ attempt'.stage = "disk"
        /\ attempt'.key = p[1]
        /\ attempt'.offset = p[2]
    BY <2>1 DEF M!Begin
  <2>4. pc' = "mounting" /\ UNCHANGED <<todo, known>>
    BY <1>2 DEF CallMount
  <2> QED
    BY <2>1, <2>2, <2>3, <2>4
<1>3. CASE MountStep
  <2>1. attempt'.stage # "idle"
        /\ attempt'.key = attempt.key
        /\ attempt'.offset = attempt.offset
    BY <1>3, MountStepFacts
  <2> QED
    BY <1>1, <1>3, <2>1 DEF MountStep, loopVars
<1>4. CASE MountOk \/ MountErr
  BY <1>4 DEF MountOk, MountErr, Returned, M!HostMount, M!Fail, M!Idle
<1>5. CASE attempt' = attempt /\ ~CallMount /\ ~MountStep /\ ~MountOk /\ ~MountErr
  <2>1. CASE pc # "mounting"
    <3>1. pc' # "mounting"
      BY Zenon, <1>5, <2>1, LoopFrame DEF Thread, loopVars, Start, StartFails, ScanDisk,
         ScanDiskFails, ScanDone, SkipPartition, UnmountOne, DropMount,
         MountsDone, UnmountsDone, SelectEvent, SelectTimeout, BeginScan,
         CheckShutdown, DropWatcher, Exit
    <3> QED
      BY <1>1, <1>5, <2>1, <3>1
  <2>2. CASE pc = "mounting"
    <3>1. UNCHANGED loopVars
      BY Zenon, <1>5, <2>2, LoopFrame DEF Thread, loopVars, Start, StartFails, ScanDisk,
         ScanDiskFails, ScanDone, SkipPartition, UnmountOne, DropMount,
         MountsDone, UnmountsDone, SelectEvent, SelectTimeout, BeginScan,
         CheckShutdown, DropWatcher, Exit
    <3> QED
      BY <1>1, <1>5, <3>1 DEF loopVars
  <2> QED
    BY <2>1, <2>2
<1> QED
  BY <1>2, <1>3, <1>4, <1>5, AttemptFrame

LEMMA WatchFollowsThreadStep == IInv /\ [Next]_vars => WatchFollowsThread'
<1> SUFFICES ASSUME IInv, [Next]_vars PROVE WatchFollowsThread'
  OBVIOUS
<1> USE DEF WatchFollowsThread, Over, Serving, Scanning
<1>1. WatchFollowsThread
  BY DEF IInv, LoopInv
<1>2. CASE Start \/ StartFails \/ DropWatcher
  BY <1>1, <1>2 DEF Start, StartFails, DropWatcher, BeginScan,
     W!Register, W!RegisterFails, W!Unregister, W!Reclaim
<1>3. CASE SelectEvent
  BY <1>1, <1>3 DEF SelectEvent, BeginScan, W!Receive
<1>4. CASE ScanDisk \/ ScanDiskFails \/ ScanDone \/ SkipPartition \/ CallMount \/ MountStep
           \/ MountOk \/ MountErr \/ MountsDone \/ UnmountOne \/ UnmountsDone
           \/ SelectTimeout \/ CheckShutdown \/ DropMount \/ Exit
  BY <1>1, <1>4 DEF ScanDisk, ScanDiskFails, ScanDone, SkipPartition, CallMount, MountStep,
     MountOk, MountErr, Returned, MountsDone, UnmountOne, UnmountsDone,
     SelectTimeout, CheckShutdown, DropMount, Exit, loopVars, watchVars
<1>5. CASE UNCHANGED <<pc, watch, box>>
  BY <1>1, <1>5
<1>6. Thread \/ UNCHANGED <<pc, watch, box>>
  BY Zenon DEF Next, Notify, PlugIn, PullOut, OtherPrograms, RequestStop, Ended,
     vars, loopVars, watchVars, W!Raise, W!CallbackStart, W!Callback
<1> QED
  BY Zenon, <1>2, <1>3, <1>4, <1>5, <1>6 DEF Thread
LEMMA KnownFrame == [Next]_vars => MountOk \/ UnmountOne \/ known' = known
  BY Zenon, LoopFrame DEF Thread, loopVars, Start, StartFails, ScanDisk,
     ScanDiskFails, ScanDone, SkipPartition, CallMount, MountStep, MountErr,
     DropMount, MountsDone, UnmountsDone, SelectEvent, SelectTimeout, BeginScan,
     CheckShutdown, DropWatcher, Exit

LEMMA FoundFrame ==
  [Next]_vars => Start \/ SelectEvent \/ ScanDisk \/ UNCHANGED found
  BY Zenon, LoopFrame DEF Thread, loopVars, StartFails, ScanDiskFails, ScanDone,
     SkipPartition, CallMount, MountStep, MountOk, MountErr, Returned, UnmountOne,
     DropMount, MountsDone, UnmountsDone, SelectTimeout, CheckShutdown,
     DropWatcher, Exit

\* The only ways from one place to another.
LEMMA Moves ==
  ASSUME [Next]_vars
  PROVE  /\ pc' = "start" => pc = "start"
         /\ pc' = "scan" => Start \/ SelectEvent \/ ScanDisk \/ ScanDiskFails \/ (pc = "scan" /\ UNCHANGED loopVars)
         /\ pc' = "mount" => ScanDone \/ SkipPartition \/ MountOk \/ MountErr \/ (pc = "mount" /\ UNCHANGED loopVars)
         /\ pc' = "mounting" => CallMount \/ (pc = "mounting" /\ UNCHANGED loopVars)
         /\ pc' = "unmount" => MountsDone \/ UnmountOne \/ (pc = "unmount" /\ UNCHANGED loopVars)
         /\ pc' = "select" => UnmountsDone \/ CheckShutdown \/ (pc = "select" /\ UNCHANGED loopVars)
         /\ pc' = "timeout" => SelectTimeout \/ (pc = "timeout" /\ UNCHANGED loopVars)
         /\ pc' = "done" => Exit \/ (pc = "done" /\ UNCHANGED loopVars)
         /\ pc' = "failed" => StartFails \/ (pc = "failed" /\ UNCHANGED loopVars)
<1>1. CASE Thread
  <2> USE DEF Start, StartFails, ScanDisk, ScanDiskFails,
     ScanDone, SkipPartition, CallMount, MountStep, MountOk, MountErr, Returned,
     MountsDone, UnmountOne, UnmountsDone, SelectEvent, SelectTimeout,
     CheckShutdown, DropWatcher, DropMount, Exit, BeginScan, loopVars
  <2> QED BY <1>1 DEF Thread
<1>2. CASE UNCHANGED loopVars
  BY <1>2 DEF loopVars
<1> QED
  BY <1>1, <1>2, LoopFrame

LEMMA MountedAreKnownStep == IInv /\ [Next]_vars => MountedAreKnown'
<1> SUFFICES ASSUME IInv, [Next]_vars PROVE MountedAreKnown'
  OBVIOUS
<1>1. MountedAreKnown /\ LoopTypeOK /\ DOMAIN mounts = Keys
      /\ mounts \in [Keys -> M!Volume \cup {M!NoVolume}]
  BY ManagerFacts DEF IInv, LoopInv, M!TypeOK, Keys
<1>2. CASE MountOk
  <2>1. attempt.key \in Keys /\ attempt.letter \in M!Letters
    BY <1>2, AttemptFacts DEF MountOk, Returned, M!Attempt
  <2>2. [letter |-> attempt.letter, offset |-> attempt.offset, of |-> attempt.of] # M!NoVolume
    BY <2>1 DEF M!NoVolume, M!Letters
  <2>3. mounts' = [mounts EXCEPT ![attempt.key] =
            [letter |-> attempt.letter, offset |-> attempt.offset, of |-> attempt.of]]
    BY <1>2 DEF MountOk, M!HostMount
  <2>4. known' = known \cup {attempt.key} /\ pc = "mounting" /\ pc' = "mount"
    BY <1>2 DEF MountOk, Returned
  <2>5. \A k \in Keys : M!Mounted(k)' <=> k = attempt.key \/ M!Mounted(k)
    BY <1>1, <2>1, <2>2, <2>3 DEF M!Mounted
  <2> QED
    BY <1>1, <2>4, <2>5 DEF MountedAreKnown, Over, Serving, Scanning
<1>3. CASE UnmountOne
  <2>1. PICK k \in removed : M!Unmount(k) /\ known' = known \ {k}
    BY <1>3 DEF UnmountOne
  <2>2. pc = "unmount" /\ pc' = "unmount" /\ k \in Keys
    BY <1>1, <1>3 DEF UnmountOne, LoopTypeOK
  <2>3. \A j \in Keys : M!Mounted(j)' <=> j # k /\ M!Mounted(j)
    BY <1>1, <2>1, <2>2 DEF M!Mounted, M!Unmount
  <2> QED
    BY <1>1, <2>1, <2>2, <2>3 DEF MountedAreKnown, Over, Serving, Scanning
<1>4. CASE DropMount
  BY <1>4 DEF DropMount, loopVars, MountedAreKnown, Over, Serving, Scanning
<1>5. CASE mounts' = mounts /\ known' = known
  <2>1. pc' \in {"start"} \cup Serving => pc \in {"start"} \cup Serving
    BY Moves DEF Serving, Scanning, Start, SelectEvent, ScanDisk, ScanDiskFails,
       ScanDone, SkipPartition, MountOk, MountErr, Returned, CallMount, MountsDone,
       UnmountOne, UnmountsDone, CheckShutdown, SelectTimeout
  <2>2. pc' \in Over => \A k \in Keys : ~M!Mounted(k)
    BY <1>1, Moves DEF Exit, StartFails, MountedAreKnown, Over
  <2> QED
    BY <1>1, <1>5, <2>1, <2>2, Moves DEF MountedAreKnown, M!Mounted
<1> QED
  BY <1>2, <1>3, <1>4, <1>5, MountsFrame, KnownFrame

LEMMA RemovedAreMissingStep == IInv /\ [Next]_vars => RemovedAreMissing'
<1> SUFFICES ASSUME IInv, [Next]_vars, pc' = "unmount" PROVE (removed = Missing)'
  BY DEF RemovedAreMissing
<1>1. pc = "unmount" => removed = Missing
  BY DEF IInv, LoopInv, RemovedAreMissing
<1>2. CASE MountsDone
  BY <1>2 DEF MountsDone, Missing, CurrentPartitions
<1>3. CASE UnmountOne
  BY <1>1, <1>3 DEF UnmountOne, Missing, CurrentPartitions
<1>4. CASE pc = "unmount" /\ UNCHANGED loopVars
  BY <1>1, <1>4 DEF loopVars, Missing, CurrentPartitions
<1> QED
  BY <1>2, <1>3, <1>4, Moves
(***************************************************************************)
(* If no event is pending after a step inside the loop, none was before,    *)
(* and the disks are what they were.                                       *)
(***************************************************************************)
LEMMA Calm ==
  ASSUME IInv, [Next]_vars, pc \in Serving, ~SelectEvent, ~EventPending'
  PROVE  /\ ~EventPending
         /\ UNCHANGED <<slot, arrivals>>
<1>1. ~DropWatcher
  BY DEF DropWatcher, Serving, Scanning
<1> QED
  BY <1>1, PendingStays, ChangeIsNotified, DisksFrame

\* A scan is begun only by Start and SelectEvent.
LEMMA ScanGoesOn ==
  ASSUME [Next]_vars, pc' \in Scanning, ~Start, ~SelectEvent
  PROVE  pc \in Scanning /\ pc \in Serving
  BY Moves DEF Serving, Scanning, ScanDisk, ScanDiskFails, ScanDone, SkipPartition,
     MountOk, MountErr, Returned, CallMount, MountsDone, UnmountOne

LEMMA FoundIsFreshStep == IInv /\ [Next]_vars => FoundIsFresh'
<1> SUFFICES ASSUME IInv, [Next]_vars, pc' \in Scanning, NEW p \in found',
                    ~EventPending'
             PROVE  p \in PartitionsOf(p[1][1])'
  BY DEF FoundIsFresh
<1>1. ~Start /\ ~SelectEvent
  BY DEF Start, SelectEvent, BeginScan
<1>2. /\ pc \in Scanning
      /\ ~EventPending
      /\ slot' = slot
  BY <1>1, ScanGoesOn, Calm
<1>3. \A q \in found : q \in PartitionsOf(q[1][1])
  BY <1>2 DEF IInv, LoopInv, FoundIsFresh
<1>4. CASE p \in found
  BY <1>2, <1>3, <1>4 DEF PartitionsOf
<1>5. CASE p \in PartitionsOf(next)
  <2>1. p[1][1] = next
    BY <1>5 DEF PartitionsOf
  <2> QED
    BY <1>2, <1>5, <2>1 DEF PartitionsOf
<1> QED
  BY <1>1, <1>4, <1>5, FoundFrame DEF ScanDisk

\* A disk is scanned when it was before, or it is its turn.
LEMMA ScannedFrame ==
  ASSUME IInv, [Next]_vars, NEW d \in M!Disks, Scanned(d)', ~ScanDisk, ~ScanDiskFails
  PROVE  /\ Scanned(d)
         /\ pc \in Scanning
         /\ ~Start
         /\ ~SelectEvent
<1>1. LoopTypeOK /\ d \in 0 .. NDisks - 1
  BY DEF IInv, LoopInv, M!Disks
<1>2. ~Start /\ ~SelectEvent
  BY <1>1 DEF Start, SelectEvent, BeginScan, Scanned
<1>3. CASE pc' = "scan"
  BY <1>2, <1>3, Moves DEF Scanned, Scanning, loopVars
<1>4. CASE pc' # "scan"
  <2>1. pc' \in {"mount", "mounting", "unmount"}
    BY <1>4 DEF Scanned
  <2>2. CASE ScanDone
    <3>1. NDisks \in Nat
      BY Zenon, DaemonAssumption
    <3>2. pc = "scan" /\ next = NDisks
      BY <2>2 DEF ScanDone
    <3>3. d < next
      BY <1>1, <3>1, <3>2
    <3> QED
      BY <1>2, <3>2, <3>3 DEF Scanned, Scanning
  <2> QED
    BY <1>2, <2>1, <2>2, Moves DEF Scanned, Scanning, SkipPartition, MountOk, MountErr,
       Returned, CallMount, MountsDone, UnmountOne, loopVars
<1> QED
  BY <1>3, <1>4

LEMMA ScanCoversStep ==
  ASSUME IInv, [Next]_vars, ScanCovers, faults' = faults
  PROVE  ScanCovers'
<1> SUFFICES ASSUME NEW k \in PresentKeys', Scanned(k[1])', ~EventPending'
             PROVE  k \in CurrentPartitions'
  BY DEF ScanCovers
<1>1. ~ScanDiskFails
  BY CountersGrow DEF ScanDiskFails, M!OtherError
<1>2. k \in Keys /\ k[1] \in M!Disks /\ k = <<k[1], k[2]>>
  BY ManagerFacts DEF PresentKeys, Keys, M!Keys
<1>3. LoopTypeOK
  BY DEF IInv, LoopInv
<1>4. CASE ScanDisk
  <2>1. /\ pc = "scan"
        /\ ~SelectEvent
        /\ pc \in Serving
        /\ found' = found \cup PartitionsOf(next)
        /\ next' = next + 1
        /\ pc' = "scan"
    BY <1>4 DEF ScanDisk, SelectEvent, Serving, Scanning
  <2>2. slot' = slot /\ ~EventPending
    BY <2>1, Calm
  <2>3. k \in PresentKeys
    BY <2>2 DEF PresentKeys
  <2>4. CASE Scanned(k[1])
    BY <2>1, <2>2, <2>3, <2>4 DEF ScanCovers, CurrentPartitions
  <2>5. CASE k[1] = next
    <3> DEFINE p == <<<<next, k[2]>>, slot[next].table[k[2]]>>
    <3>1. p \in PartitionsOf(next)
      BY <2>3, <2>5 DEF PresentKeys, PartitionsOf
    <3>2. p[1] = k
      BY <1>2, <2>5
    <3> HIDE DEF p
    <3> QED
      BY <2>1, <3>1, <3>2 DEF CurrentPartitions
  <2> QED
    BY <1>2, <1>3, <2>1, <2>4, <2>5 DEF Scanned, LoopTypeOK, M!Disks
<1>5. CASE ~ScanDisk
  <2>1. /\ Scanned(k[1])
        /\ pc \in Scanning
        /\ ~Start
        /\ ~SelectEvent
    BY <1>1, <1>2, <1>5, ScannedFrame
  <2>2. slot' = slot /\ ~EventPending /\ found' = found
    BY <1>5, <2>1, Calm, FoundFrame DEF Serving
  <2> QED
    BY <2>1, <2>2 DEF ScanCovers, CurrentPartitions, PresentKeys
<1> QED
  BY <1>4, <1>5

LEMMA FoundIsAllStep == IInv /\ [Next]_vars => FoundIsAll'
  BY CountersGrow, ScanCoversStep DEF IInv, LoopInv, FoundIsAll
LEMMA MountedAreFoundStep == IInv /\ [Next]_vars => MountedAreFound'
<1> SUFFICES ASSUME IInv, [Next]_vars, faults' = 0, NEW k \in PresentKeys',
                    Scanned(k[1])', M!Mounted(k)', mounts'[k].of.meta = slot'[k[1]].id
             PROVE  k \in CurrentPartitions'
  BY DEF MountedAreFound
<1>1. faults = 0 /\ ~ScanDiskFails
  BY CountersGrow DEF ScanDiskFails, M!OtherError
<1>2. k \in Keys /\ k[1] \in M!Disks /\ k = <<k[1], k[2]>>
  BY ManagerFacts DEF PresentKeys, Keys, M!Keys
<1>3. /\ LoopTypeOK
      /\ MountedAreFound
      /\ \A j \in Keys : M!Mounted(j) => mounts[j].of.meta \in Nat
                                        /\ mounts[j].of.meta <= arrivals
      /\ arrivals \in Nat
      /\ DOMAIN mounts = Keys
      /\ mounts \in [Keys -> M!Volume \cup {M!NoVolume}]
  BY ManagerFacts DEF IInv, LoopInv, M!TypeOK, Keys
<1>4. CASE MountOk
  <2>1. /\ found' = found
        /\ <<attempt.key, attempt.offset>> \in found
        /\ mounts' = [mounts EXCEPT ![attempt.key] = [letter |-> attempt.letter,
                        offset |-> attempt.offset, of |-> attempt.of]]
        /\ slot' = slot
        /\ pc = "mounting"
    BY <1>3, <1>4 DEF MountOk, Returned, M!HostMount, LoopTypeOK, IInv, LoopInv,
       AttemptIsCall
  <2>2. attempt.key \in CurrentPartitions
    BY <2>1 DEF CurrentPartitions
  <2>3. k # attempt.key => mounts'[k] = mounts[k]
    BY <1>2, <1>3, <2>1
  <2> QED
    BY <1>1, <1>2, <1>3, <2>1, <2>2, <2>3
    DEF MountedAreFound, PresentKeys, Scanned, CurrentPartitions, M!Mounted
<1>5. CASE ~MountOk
  <2>1. mounts'[k] = mounts[k] /\ M!Mounted(k)
    BY <1>2, <1>3, <1>5, MountsFrame
    DEF UnmountOne, DropMount, M!Unmount, M!Mounted, M!NoVolume
  <2>2. slot'[k[1]] = slot[k[1]]
    <3>1. DOMAIN slot'[k[1]].table # {}
      BY DEF PresentKeys
    <3>2. slot'[k[1]] # M!NoDisk
      BY <3>1 DEF M!NoDisk, M!NoTable
    <3> QED
      BY <1>2, <1>3, <2>1, <3>2, ChangeOfSlot, DisksFrame
  <2>3. k \in PresentKeys
    BY <2>2 DEF PresentKeys
  <2>4. Scanned(k[1]) => k \in CurrentPartitions
    BY <1>1, <2>1, <2>2, <2>3, <1>3 DEF MountedAreFound
  <2>5. CASE ScanDisk
    <3>1. found' = found \cup PartitionsOf(next) /\ pc = "scan" /\ pc' = "scan"
          /\ next' = next + 1
      BY <2>5 DEF ScanDisk
    <3>2. CASE k[1] = next
      <4> DEFINE p == <<<<next, k[2]>>, slot[next].table[k[2]]>>
      <4>1. p \in PartitionsOf(next)
        BY <2>3, <3>2 DEF PresentKeys, PartitionsOf
      <4>2. p[1] = k
        BY <1>2, <3>2
      <4> HIDE DEF p
      <4> QED
        BY <3>1, <4>1, <4>2 DEF CurrentPartitions
    <3>3. CASE k[1] # next
      <4>1. Scanned(k[1])
        BY <1>2, <1>3, <3>1, <3>3 DEF Scanned, LoopTypeOK, M!Disks
      <4> QED
        BY <2>4, <3>1, <4>1 DEF CurrentPartitions
    <3> QED
      BY <3>2, <3>3
  <2>6. CASE ~ScanDisk
    <3>1. Scanned(k[1]) /\ ~Start /\ ~SelectEvent
      BY <1>1, <1>2, <2>6, ScannedFrame
    <3> QED
      BY <2>4, <2>6, <3>1, FoundFrame DEF CurrentPartitions
  <2> QED
    BY <2>5, <2>6
<1> QED
  BY <1>4, <1>5

LEMMA KnownArePresentStep == IInv /\ [Next]_vars => KnownArePresent'
<1> SUFFICES ASSUME IInv, [Next]_vars, pc' \in {"select", "timeout"},
                    NEW k \in known', ~EventPending'
             PROVE  k \in PresentKeys'
  BY DEF KnownArePresent
<1>1. LoopTypeOK /\ FoundIsFresh /\ RemovedAreMissing /\ KnownArePresent
  BY DEF IInv, LoopInv
<1>2. CASE UnmountsDone
  <2>1. /\ pc = "unmount"
        /\ removed = {}
        /\ known' = known
        /\ slot' = slot
        /\ pc \in Scanning
        /\ ~SelectEvent
    BY <1>2 DEF UnmountsDone, mountVars, Scanning, SelectEvent
  <2>2. ~EventPending
    BY <2>1, Calm DEF Serving
  <2>3. PICK p \in found : p[1] = k
    BY <1>1, <2>1 DEF RemovedAreMissing, Missing, CurrentPartitions
  <2>4. p \in PartitionsOf(k[1])
    BY <1>1, <2>1, <2>2, <2>3 DEF FoundIsFresh
  <2>5. k[2] \in DOMAIN slot[k[1]].table
    BY <2>3, <2>4 DEF PartitionsOf
  <2> QED
    BY <1>1, <2>1, <2>5 DEF PresentKeys, LoopTypeOK
<1>3. CASE ~UnmountsDone
  <2>1. /\ pc \in {"select", "timeout"}
        /\ known' = known
        /\ ~SelectEvent
    BY <1>3, Moves DEF CheckShutdown, SelectTimeout, SelectEvent, BeginScan, loopVars
  <2>2. ~EventPending /\ slot' = slot
    BY <2>1, Calm DEF Serving
  <2> QED
    BY <1>1, <2>1, <2>2 DEF KnownArePresent, PresentKeys
<1> QED
  BY <1>2, <1>3

\* What a call of mount_partition begins with.
LEMMA CallFacts ==
  ASSUME CallMount
  PROVE  /\ attempt'.stage = "disk"
         /\ attempt'.letter \in M!FreeLetters
         /\ UNCHANGED <<mounts, foreign>>
<1>1. PICK p \in todo, l \in M!FreeLetters : M!Begin(p[1], p[2], l)
  BY DEF CallMount
<1> QED
  BY <1>1 DEF M!Begin

\* As long as it is under way it leaves the loop and the volumes alone.
LEMMA CallGoesOn ==
  ASSUME [Next]_vars, pc' = "mounting", ~CallMount
  PROVE  /\ pc = "mounting"
         /\ UNCHANGED loopVars
         /\ ~SelectEvent
         /\ ~MountOk
         /\ ~MountErr
         /\ pc \in Serving
         /\ mounts' = mounts
<1>1. pc = "mounting" /\ UNCHANGED loopVars
  BY Moves
<1>2. ~SelectEvent /\ ~MountOk /\ ~MountErr /\ pc \in Serving
  BY <1>1 DEF SelectEvent, MountOk, MountErr, Returned, Serving, Scanning
<1> QED
  BY <1>1, <1>2, MountsFrame DEF UnmountOne, DropMount

LEMMA LetterKeptStep ==
  ASSUME IInv, [Next]_vars, LetterKept, foreign' = foreign
  PROVE  LetterKept'
<1> SUFFICES ASSUME pc' = "mounting" PROVE attempt'.letter \in M!FreeLetters'
  BY DEF LetterKept
<1>1. CASE CallMount
  BY <1>1, CallFacts DEF M!FreeLetters
<1>2. CASE ~CallMount
  <2>1. attempt'.letter = attempt.letter
    BY <1>2, CallGoesOn, AttemptFrame, MountStepFacts
  <2> QED
    BY <1>2, <2>1, CallGoesOn DEF LetterKept, M!FreeLetters
<1> QED
  BY <1>1, <1>2

LEMMA AttemptGoesWellStep == IInv /\ [Next]_vars => AttemptGoesWell'
<1> SUFFICES ASSUME IInv, [Next]_vars PROVE AttemptGoesWell'
  OBVIOUS
<1>1. AttemptGoesWell
  BY DEF IInv, LoopInv
<1>2. grabs' = 0 => LetterKept'
  BY <1>1, CountersGrow, LetterKeptStep DEF AttemptGoesWell
<1>3. ASSUME pc' = "mounting", attempt'.stage # "disk", ~EventPending'
      PROVE  slot'[attempt'.key[1]].id = attempt'.of.meta
  <2>1. ~CallMount
    BY <1>3, CallFacts
  <2>2. ~EventPending /\ slot' = slot
    BY <1>3, <2>1, CallGoesOn, Calm
  <2> QED
    BY <1>1, <1>3, <2>1, <2>2, CallGoesOn, AttemptFrame, MountStepFacts
    DEF AttemptGoesWell
<1> QED
  BY <1>2, <1>3 DEF AttemptGoesWell
(***************************************************************************)
(* As long as a key is not mounted there is a letter for it, if there is     *)
(* one for each key: the mounted volumes hold one each.                     *)
(***************************************************************************)
LEMMA LetterLeft ==
  ASSUME IInv, Room, pc \in Serving, NEW k \in Keys, k \notin known
  PROVE  M!FreeLetters # {}
<1>1. /\ mounts \in [Keys -> M!Volume \cup {M!NoVolume}]
      /\ foreign \subseteq M!Letters
  BY ManagerFacts DEF M!TypeOK, Keys
<1>2. mounts[k].letter = 0
  BY DEF IInv, LoopInv, MountedAreKnown, M!Mounted, M!NoVolume
<1>3. IsFiniteSet(Keys)
  <2>1. NDisks \in Nat /\ IsFiniteSet(PartNumbers)
    BY Zenon, DaemonAssumption
  <2>2. NDisks - 1 \in Int /\ 0 \in Int
    BY <2>1
  <2>3. IsFiniteSet(0 .. NDisks - 1)
    BY <2>2, FS_Interval
  <2> QED
    BY <2>1, <2>3, FS_Product DEF Keys, M!Keys, M!Disks
<1> DEFINE Others == Keys \ {k}
           Held == { mounts[j].letter : j \in Others }
           Open == M!Letters \ foreign
<1>4. /\ IsFiniteSet(Others)
      /\ Cardinality(Others) = Cardinality(Keys) - 1
      /\ Cardinality(Keys) \in Nat
  BY <1>3, FS_RemoveElement, FS_CardinalityType
<1>5. IsFiniteSet(Held) /\ Cardinality(Held) <= Cardinality(Others)
  <2> HIDE DEF Others
  <2> DEFINE f == [j \in Others |-> mounts[j].letter]
  <2>1. f \in Surjection(Others, Held)
    BY DEF Surjection
  <2> HIDE DEF f, Held
  <2> QED BY <1>4, <2>1, FS_Surjection
<1>6. SUFFICES ASSUME M!FreeLetters = {} PROVE FALSE
  OBVIOUS
<1>7. Open \subseteq Held
  <2> SUFFICES ASSUME NEW l \in Open PROVE l \in Held
    OBVIOUS
  <2>1. PICK j \in M!Keys : mounts[j].letter = l
    BY <1>6 DEF M!FreeLetters
  <2>2. l # 0
    BY DEF M!Letters
  <2> QED
    BY <1>2, <2>1, <2>2 DEF Keys
<1>8. Cardinality(Open) <= Cardinality(Held) /\ Cardinality(Open) \in Nat
      /\ Cardinality(Held) \in Nat
  <2> HIDE DEF Held, Open
  <2> QED BY <1>5, <1>7, FS_Subset, FS_CardinalityType
<1>9. Cardinality(Open) >= Cardinality(Keys)
  BY DEF Room
<1> HIDE DEF Others, Held, Open
<1> QED
  BY <1>4, <1>5, <1>8, <1>9, FS_CardinalityType

\* A mount that fails although there is a volume and nothing is pending was hit
\* by an error, or by the letter that another program took.
LEMMA FailureHasCause ==
  ASSUME IInv, MountErr, LetterKept, faults' = faults,
         HoldsVolume(<<attempt.key, attempt.offset>>)
  PROVE  EventPending
<1>1. SUFFICES ASSUME ~EventPending PROVE FALSE
  OBVIOUS
<1>2. pc = "mounting" /\ M!Fail
  BY DEF MountErr, Returned
<1>3. faults \in Nat
  BY ManagerFacts DEF M!TypeOK
<1>4. ~M!Feasible
  BY <1>2, <1>3 DEF M!Fail
<1>5. attempt \in M!Attempt /\ attempt.key[1] \in M!Disks
  BY <1>2, AttemptFacts
<1>6. <<attempt.key, attempt.offset>> \in found
  BY <1>2 DEF IInv, LoopInv, LoopTypeOK, AttemptIsCall
<1> DEFINE p == <<attempt.key, attempt.offset>>
<1>7. p \in PartitionsOf(attempt.key[1])
  BY <1>1, <1>2, <1>6 DEF IInv, LoopInv, FoundIsFresh, Scanning
<1>8. PICK n \in DOMAIN slot[attempt.key[1]].table :
          attempt.offset = slot[attempt.key[1]].table[n]
  BY <1>7 DEF PartitionsOf
<1>9. M!CanOpen
  BY <1>5, <1>8 DEF M!CanOpen, M!Target, IInv, LoopInv, EmptySlots, M!NoDisk, M!NoTable
<1>10. attempt.stage # "disk" => M!HasVolume
  BY <1>1, <1>2 DEF IInv, LoopInv, AttemptGoesWell, M!HasVolume, M!Target, HoldsVolume
<1>11. M!LetterFree
  BY <1>2 DEF LetterKept, M!LetterFree
<1> QED
  BY <1>4, <1>5, <1>9, <1>10, <1>11 DEF M!Feasible, M!Attempt, M!Stages
\* What disturbs the daemon is never undone.
LEMMA UndisturbedBefore ==
  ASSUME IInv, [Next]_vars, Undisturbed'
  PROVE  Undisturbed
  BY CountersGrow DEF Undisturbed, M!Letters

LEMMA MountsCoverStep ==
  ASSUME IInv, [Next]_vars, ScanCovers, LetterKept, Room, MountsCover, faults' = faults
  PROVE  MountsCover'
<1> SUFFICES ASSUME ~EventPending' PROVE MountsCover'
  BY DEF MountsCover
<1>1. LoopTypeOK
  BY DEF IInv, LoopInv
<1>2. ASSUME pc' \in {"mount", "mounting"}, NEW p \in found', HoldsVolume(p)'
      PROVE  p[1] \in known' \/ p \in todo'
  <2>1. CASE ScanDone
    BY <1>2, <2>1 DEF ScanDone
  <2>2. CASE ~ScanDone
    <3>1. /\ pc \in {"mount", "mounting"}
          /\ found' = found
          /\ ~SelectEvent
          /\ pc \in Serving
      BY <1>2, <2>2, Moves DEF SkipPartition, MountOk, MountErr, Returned, CallMount,
         loopVars, SelectEvent, Serving, Scanning
    <3>2. ~EventPending /\ slot' = slot
      BY <3>1, Calm
    <3>3. HoldsVolume(p) /\ (p[1] \in known \/ p \in todo)
      BY <1>1, <1>2, <3>1, <3>2 DEF MountsCover, HoldsVolume
    <3>4. CASE SkipPartition
      <4>1. PICK q \in todo : /\ q[1] \in known \/ M!FreeLetters = {}
                              /\ todo' = todo \ {q}
        BY <3>4 DEF SkipPartition
      <4>2. q[1] \in Keys
        BY <1>1 DEF LoopTypeOK
      <4>3. q[1] \in known
        BY <1>1, <3>1, <4>1, <4>2, LetterLeft
      <4> QED
        BY <3>3, <3>4, <4>1, <4>3 DEF SkipPartition
    <3>5. CASE MountOk
      BY <3>3, <3>5 DEF MountOk, Returned
    <3>6. CASE MountErr
      <4>1. p # <<attempt.key, attempt.offset>>
        BY <3>2, <3>3, <3>6, FailureHasCause
      <4> QED
        BY <3>3, <3>6, <4>1 DEF MountErr, Returned
    <3>7. CASE CallMount \/ UNCHANGED loopVars
      BY <3>3, <3>7 DEF CallMount, loopVars
    <3> QED
      BY <1>2, <2>2, <3>4, <3>5, <3>6, <3>7, Moves
  <2> QED
    BY <2>1, <2>2
<1>3. ASSUME pc' = "unmount", NEW p \in found', HoldsVolume(p)'
      PROVE  p[1] \in known'
  <2>1. /\ pc \in {"mount", "unmount"}
        /\ pc = "mount" => todo = {}
        /\ found' = found
        /\ ~SelectEvent
        /\ pc \in Serving
    BY <1>3, Moves DEF MountsDone, UnmountOne, loopVars, SelectEvent, Serving, Scanning
  <2>2. ~EventPending /\ slot' = slot
    BY <2>1, Calm
  <2>3. p[1] \in known
    BY <1>1, <1>3, <2>1, <2>2 DEF MountsCover, HoldsVolume
  <2>4. CASE UnmountOne
    BY <1>3, <2>1, <2>3, <2>4
    DEF UnmountOne, IInv, LoopInv, RemovedAreMissing, Missing, CurrentPartitions
  <2> QED
    BY <1>3, <2>3, <2>4, Moves DEF MountsDone, loopVars
<1>4. ASSUME pc' \in {"select", "timeout"}, NEW k \in VolumeKeys'
      PROVE  k \in known'
  <2>1. /\ pc \in {"unmount", "select", "timeout"}
        /\ known' = known
        /\ ~SelectEvent
        /\ pc \in Serving
    BY <1>4, Moves DEF UnmountsDone, CheckShutdown, SelectTimeout, loopVars, SelectEvent,
       BeginScan, Serving, Scanning
  <2>2. ~EventPending /\ slot' = slot
    BY <2>1, Calm
  <2>3. k \in VolumeKeys
    BY <1>4, <2>2 DEF VolumeKeys, PresentKeys
  <2>4. CASE pc = "unmount"
    <3>1. PICK p \in found : p[1] = k
      BY <2>2, <2>3, <2>4 DEF VolumeKeys, ScanCovers, Scanned, CurrentPartitions
    <3>2. p \in PartitionsOf(k[1])
      BY <2>2, <2>4, <3>1 DEF IInv, LoopInv, FoundIsFresh, Scanning
    <3>3. HoldsVolume(p)
      BY <2>3, <3>1, <3>2 DEF PartitionsOf, VolumeKeys, HoldsVolume
    <3> QED
      BY <2>1, <2>2, <2>4, <3>1, <3>3 DEF MountsCover
  <2> QED
    BY <1>1, <2>1, <2>2, <2>3, <2>4 DEF MountsCover
<1> QED
  BY <1>2, <1>3, <1>4 DEF MountsCover

LEMMA FoundAreMountedStep == IInv /\ [Next]_vars => FoundAreMounted'
<1> SUFFICES ASSUME IInv, [Next]_vars, Undisturbed' PROVE MountsCover'
  BY DEF FoundAreMounted
<1>1. Undisturbed /\ faults' = faults
  BY UndisturbedBefore DEF Undisturbed
<1> QED
  BY <1>1, MountsCoverStep
  DEF IInv, LoopInv, FoundIsAll, AttemptGoesWell, FoundAreMounted, Undisturbed, Room

LEMMA NextIInv == IInv /\ [Next]_vars => IInv'
<1> SUFFICES ASSUME IInv, [Next]_vars PROVE IInv'
  OBVIOUS
<1>1. MP!IInv' /\ WP!IInv'
  BY ComponentsIInv DEF IInv, LoopInv
<1>2. LoopInv'
  BY LoopTypeStep, EmptySlotsStep, AttemptIsCallStep, WatchFollowsThreadStep,
     MountedAreKnownStep, RemovedAreMissingStep, FoundIsFreshStep, FoundIsAllStep,
     MountedAreFoundStep, KnownArePresentStep, AttemptGoesWellStep,
     FoundAreMountedStep DEF LoopInv
<1> QED
  BY <1>1, <1>2 DEF IInv

LEMMA Invariance == Spec => []IInv
  BY InitIInv, NextIInv, PTL DEF Spec
-----------------------------------------------------------------------------
LEMMA InvariantTypes == IInv => TypeOK
  BY Zenon, SameManager, SameWatcher
  DEF IInv, LoopInv, LoopTypeOK, TypeOK, MP!IInv, WP!IInv

(***************************************************************************)
(* Type correctness of the daemon and of the components it runs.            *)
(***************************************************************************)
THEOREM TypeCorrect == Spec => []TypeOK
  BY InvariantTypes, Invariance, PTL

(***************************************************************************)
(* The daemon is an environment that both components allow: it begins where *)
(* they do, and each of its steps is one of theirs or leaves them alone.    *)
(* So every property of MountManager and DeviceWatcher holds in the daemon. *)
(***************************************************************************)
THEOREM ManagerImplemented == Spec => M!Spec
<1>1. Init => M!Init
  BY DEF Init
<1>2. IInv /\ [Next]_vars => [M!Next]_(M!vars)
  BY ManagerStep, ManagerFacts DEF IInv, LoopInv, M!vars, mountVars
<1> QED
  BY <1>1, <1>2, Invariance, PTL DEF Spec, M!Spec

THEOREM WatcherImplemented == Spec => W!Spec
<1>1. Init => W!Init
  BY DEF Init
<1>2. [Next]_vars => [W!Next]_(W!vars)
  BY WatcherStep DEF W!vars, watchVars
<1> QED
  BY <1>1, <1>2, PTL DEF Spec, W!Spec

(***************************************************************************)
(* known_partitions is exactly what the manager has mounted.                *)
(***************************************************************************)
THEOREM KnownMatchesMounted == Spec => []KnownIsMounted
<1>1. IInv => KnownIsMounted
  BY DEF IInv, LoopInv, MountedAreKnown, KnownIsMounted, LoopTypeOK
<1> QED
  BY <1>1, Invariance, PTL

(***************************************************************************)
(* The loop never runs without a Sender at the other end of its channel.    *)
(***************************************************************************)
THEOREM SenderOutlivesLoop == Spec => []SenderAliveInLoop
<1>1. IInv => SenderAliveInLoop
  BY DEF IInv, LoopInv, WatchFollowsThread, SenderAliveInLoop, WP!IInv,
     WP!BoxFollowsRegistration
<1> QED
  BY <1>1, Invariance, PTL

(***************************************************************************)
(* A daemon that ends has unmounted everything and freed the watcher.       *)
(***************************************************************************)
THEOREM ExitIsClean == Spec => []CleanExit
<1>1. IInv => CleanExit
  <2> SUFFICES ASSUME IInv, pc \in Over PROVE CleanExit
    BY DEF CleanExit
  <2>1. \A k \in Keys : ~M!Mounted(k)
    BY DEF IInv, LoopInv, MountedAreKnown
  <2>2. watch = "dropped" /\ box = "freed"
    BY DEF IInv, LoopInv, WatchFollowsThread
  <2>3. \A a \in W!Actions : raised[a] = 0 /\ running[a] = 0
    BY <2>2 DEF IInv, WP!IInv, WP!OnlyWhileWatched, WP!TypeOK, W!Actions, WP!Actions
  <2> QED
    BY <2>1, <2>2, <2>3 DEF CleanExit
<1> QED
  BY <1>1, Invariance, PTL

(***************************************************************************)
(* Each step of the daemon is one that DaemonLife allows, or changes        *)
(* nothing that those who run it can see: the modules that are built on     *)
(* DaemonLife need no more of the daemon.                                  *)
(***************************************************************************)
LEMMA StageStays ==
    ASSUME IInv, [Next]_vars
    PROVE  \/ StartFails \/ Start \/ CheckShutdown \/ Exit \/ RequestStop
           \/ Stage' = Stage /\ stop' = stop
<1>1. CASE ScanDisk \/ ScanDiskFails \/ ScanDone \/ SkipPartition \/ CallMount \/ MountStep
           \/ MountOk \/ MountErr \/ MountsDone \/ UnmountOne \/ UnmountsDone
           \/ SelectEvent \/ SelectTimeout \/ DropWatcher \/ DropMount
  <2>1. \/ pc \in Serving /\ pc' \in Serving
        \/ pc \in {"unwatch", "dropMounts"} /\ pc' \in {"unwatch", "dropMounts"}
    <3>1. CASE DropWatcher
      BY <3>1 DEF DropWatcher
    <3>2. CASE DropMount
      BY <3>2 DEF DropMount, loopVars
    <3>3. CASE MountStep
      BY <3>3 DEF MountStep, loopVars, Serving, Scanning
    <3>4. CASE MountOk \/ MountErr
      BY <3>4 DEF MountOk, MountErr, Returned, Serving, Scanning
    <3>5. CASE ScanDisk \/ ScanDiskFails \/ ScanDone \/ SkipPartition \/ CallMount
               \/ MountsDone \/ UnmountOne \/ UnmountsDone \/ SelectEvent \/ SelectTimeout
      BY <3>5 DEF ScanDisk, ScanDiskFails, ScanDone, SkipPartition, CallMount, MountsDone,
         UnmountOne, UnmountsDone, BeginScan, SelectEvent, SelectTimeout, Serving, Scanning
    <3> QED
      BY Zenon, <1>1, <3>1, <3>2, <3>3, <3>4, <3>5
  <2>2. stop' = stop
    BY Zenon, <1>1 DEF ScanDisk, ScanDiskFails, ScanDone, SkipPartition, CallMount, MountStep,
       MountOk, MountErr, Returned, MountsDone, UnmountOne, UnmountsDone, BeginScan,
       SelectEvent, SelectTimeout, DropWatcher, DropMount
  <2> QED
    BY <2>1, <2>2 DEF Stage, Serving, Scanning
<1>2. CASE UNCHANGED <<pc, stop>>
  BY <1>2 DEF Stage
<1> QED
  BY Zenon, <1>1, <1>2 DEF Next, Thread, Notify, PlugIn, PullOut, OtherPrograms, Ended,
     vars, loopVars

THEOREM LifeImplemented == Spec => ImplementsLife
<1>1. Init => L!Init
  BY DEF Init, L!Init, Stage, Serving, Scanning
<1>2. IInv /\ [Next]_vars => [L!Next]_(L!vars)
  <2> SUFFICES ASSUME IInv, [Next]_vars PROVE [L!Next]_(L!vars)
    OBVIOUS
  <2> USE DEF L!Next, L!Step, L!vars, Stage, Serving, Scanning
  <2>1. CASE Start
    BY <2>1 DEF Start, BeginScan, L!Enter
  <2>2. CASE StartFails
    BY <2>2 DEF StartFails, L!Fail
  <2>3. CASE CheckShutdown
    BY <2>3 DEF CheckShutdown, L!TakeStop, IInv, LoopInv, LoopTypeOK
  <2>4. CASE Exit
    BY <2>4 DEF Exit, L!Return
  <2>5. CASE RequestStop
    BY <2>5 DEF RequestStop, L!Ask, L!Receiving, loopVars
  <2> QED
    BY <2>1, <2>2, <2>3, <2>4, <2>5, StageStays
<1> QED
  BY <1>1, <1>2, Invariance, PTL DEF Spec, ImplementsLife, L!Spec

(***************************************************************************)
(* Once the daemon has come to rest, the key of every partition that is     *)
(* present and holds a volume has one mounted, if nothing outside disturbed *)
(* the mounting.  It may be the volume of a disk that is gone.              *)
(***************************************************************************)
LEMMA SettledIsQuiet == Settled => ~EventPending /\ pc = "select"
  BY DEF Settled, EventPending, W!Actions

THEOREM PresentAreMounted == Spec => []AutoMount
<1>1. IInv => AutoMount
  BY SettledIsQuiet DEF IInv, LoopInv, FoundAreMounted, MountsCover, AutoMount
<1> QED
  BY <1>1, Invariance, PTL

(***************************************************************************)
(* ... and nothing is mounted under a key that is not present.              *)
(***************************************************************************)
THEOREM AbsentAreUnmounted == Spec => []AutoUnmount
<1>1. IInv => AutoUnmount
  BY SettledIsQuiet DEF IInv, LoopInv, KnownArePresent, AutoUnmount
<1> QED
  BY <1>1, Invariance, PTL

(***************************************************************************)
(* Without I/O errors no step of the unmount loop takes a volume away from  *)
(* a disk that is still there and has the partition of its key.            *)
(***************************************************************************)
THEOREM PresentAreKept == Spec => OnlyGoneUnmounted
<1> DEFINE A == \A k \in Keys :
          faults = 0 /\ pc = "unmount" /\ M!Mounted(k) /\ M!Mounted(k)' = FALSE
              => mounts[k].of.meta # slot[k[1]].id \/ k \notin PresentKeys
<1>1. IInv /\ [Next]_vars => [A]_vars
  <2> SUFFICES ASSUME IInv, [Next]_vars, NEW k \in Keys,
                      faults = 0, pc = "unmount",
                      M!Mounted(k), ~M!Mounted(k)',
                      mounts[k].of.meta = slot[k[1]].id, k \in PresentKeys
               PROVE  FALSE
    BY DEF M!Mounted
  <2>1. k \in CurrentPartitions
    BY DEF IInv, LoopInv, MountedAreFound, Scanned
  <2>2. UnmountOne
    BY MountsFrame DEF MountOk, Returned, DropMount, M!Mounted
  <2>3. PICK j \in removed : M!Unmount(j)
    BY <2>2 DEF UnmountOne
  <2>4. k # j
    BY <2>1, <2>3 DEF IInv, LoopInv, RemovedAreMissing, Missing
  <2> QED
    BY <2>3, <2>4, ManagerFacts DEF M!Unmount, M!Mounted
<1>2. [][A]_vars => OnlyGoneUnmounted
  BY DEF OnlyGoneUnmounted
<1> QED
  BY <1>1, <1>2, Invariance, PTL DEF Spec
-----------------------------------------------------------------------------
(***************************************************************************)
(* What has gone wrong before the last scan began is made good by it: the   *)
(* argument of PresentAreMounted asks for no more than that nothing goes    *)
(* wrong from there on.                                                    *)
(***************************************************************************)
CleanInv == clean => ScanCovers /\ LetterKept /\ (Room => MountsCover)

\* The disks that the scans have seen had arrived.
ListedHaveArrived == \A d \in M!Disks : listed[d] <= arrivals

\* This scan has been at every disk of which it has found something.
FoundIsBehind == pc = "scan" => \A p \in found : p[1][1] < next

(***************************************************************************)
(* What was found is in the partition table of the disk that was scanned,   *)
(* as long as this disk is in its slot.                                    *)
(***************************************************************************)
FoundIsListed ==
    \A p \in found :
        LET d == p[1][1] IN
        /\ listed[d] # 0
        /\ slot[d].id = listed[d] => p \in PartitionsOf(d)

\* An attempt is on the disk that was scanned, as long as that is in its slot.
AttemptIsListed ==
    LET d == attempt.key[1] IN
    pc = "mounting" /\ attempt.stage # "disk" /\ slot[d].id = listed[d]
        => attempt.of.meta = slot[d].id

ListedInv ==
    /\ ListedHaveArrived
    /\ FoundIsBehind
    /\ FoundIsListed
    /\ AttemptIsListed

HistoryIInv == IInv /\ HistoryTypeOK /\ CleanInv /\ ListedInv

LEMMA HistoryInitIInv == HistoryInit => HistoryIInv
<1> SUFFICES ASSUME HistoryInit PROVE HistoryIInv
  OBVIOUS
<1>1. IInv
  BY InitIInv DEF HistoryInit
<1>2. /\ found = {}
      /\ pc = "start"
      /\ arrivals = 0
      /\ listed = [d \in M!Disks |-> 0]
  BY DEF HistoryInit, Init, M!Init, M!DisksInit
<1>3. ListedInv
  <2>1. ListedHaveArrived
    BY <1>2 DEF ListedHaveArrived
  <2>2. FoundIsBehind /\ FoundIsListed /\ AttemptIsListed
    BY Zenon, <1>2 DEF FoundIsBehind, FoundIsListed, AttemptIsListed
  <2> QED
    BY <2>1, <2>2 DEF ListedInv
<1>4. HistoryTypeOK /\ CleanInv
  <2>1. TypeOK
    BY <1>1, InvariantTypes
  <2>2. listed \in [M!Disks -> Nat]
    BY <1>2
  <2>3. clean = FALSE
    BY DEF HistoryInit
  <2> QED
    BY Zenon, <2>1, <2>2, <2>3 DEF HistoryTypeOK, CleanInv
<1> QED
  BY Zenon, <1>1, <1>3, <1>4 DEF HistoryIInv

\* A scan that has just begun has covered nothing yet, and owes nothing.
LEMMA ScanBegins ==
  ASSUME [Next]_vars, Scans
  PROVE  ScanCovers' /\ LetterKept' /\ MountsCover'
<1>1. pc' = "scan" /\ next' = 0
  BY Moves DEF Scans, Start, SelectEvent, BeginScan, ScanDisk, ScanDiskFails
<1>2. \A k \in PresentKeys' : ~Scanned(k[1])'
  BY <1>1 DEF PresentKeys, Keys, M!Keys, M!Disks, Scanned
<1> QED
  BY <1>1, <1>2 DEF ScanCovers, LetterKept, MountsCover

\* What a step does to the disk of one number: it stays, or is none that the
\* scans have seen.
LEMMA SlotOrNew ==
  ASSUME HistoryIInv, [Next]_vars, NEW d \in M!Disks, slot'[d] # slot[d]
  PROVE  slot'[d].id = 0 \/ slot'[d].id > listed[d]
<1>1. slot'[d] = M!NoDisk \/ slot'[d].id = arrivals + 1
  BY DisksFrame, ChangeOfSlot DEF HistoryIInv
<1>2. listed[d] \in Nat /\ listed[d] <= arrivals /\ arrivals \in Nat
  BY ManagerFacts DEF HistoryIInv, HistoryTypeOK, ListedInv, ListedHaveArrived
<1> QED
  BY <1>1, <1>2 DEF M!NoDisk

LEMMA ListedStep ==
  ASSUME HistoryIInv, [Next]_vars, IInv',
         listed' = IF ScanDisk THEN [listed EXCEPT ![next] = slot[next].id] ELSE listed
  PROVE  listed' \in [M!Disks -> Nat] /\ ListedInv'
<1>1. /\ IInv
      /\ ListedInv
      /\ LoopTypeOK
      /\ listed \in [M!Disks -> Nat]
      /\ NDisks \in Nat
  BY DaemonAssumption DEF HistoryIInv, HistoryTypeOK, IInv, LoopInv
<1>2. /\ arrivals \in Nat /\ arrivals' \in Nat
      /\ \A d \in M!Disks : slot[d].id \in Nat /\ slot[d].id <= arrivals
      /\ arrivals <= arrivals'
  <2>1. arrivals' = arrivals \/ arrivals' = arrivals + 1
    BY Zenon, DisksFrame DEF DisksChange, PlugIn, PullOut, M!PlugIn, M!PullOut, M!Plug, M!Unplug
  <2> QED
    BY <1>1, <2>1, ManagerFacts
<1>3. ASSUME ScanDisk
      PROVE  /\ pc = "scan"
             /\ pc' = "scan"
             /\ next \in M!Disks
             /\ next' = next + 1
             /\ found' = found \cup PartitionsOf(next)
             /\ slot' = slot
             /\ listed' = [listed EXCEPT ![next] = slot[next].id]
  BY <1>1, <1>3 DEF ScanDisk, mountVars, LoopTypeOK, M!Disks
<1>4. listed' \in [M!Disks -> Nat]
  BY <1>1, <1>2, <1>3
<1>5. ListedHaveArrived'
  <2> SUFFICES ASSUME NEW d \in M!Disks PROVE listed'[d] <= arrivals'
    BY DEF ListedHaveArrived
  <2> QED
    BY <1>1, <1>2, <1>3 DEF ListedInv, ListedHaveArrived
<1>6. \A p \in found : p[1][1] \in M!Disks
  BY <1>1 DEF LoopTypeOK, Keys, M!Keys
<1>7. FoundIsBehind'
  <2> SUFFICES ASSUME pc' = "scan", NEW p \in found' PROVE p[1][1] < next'
    BY DEF FoundIsBehind
  <2>1. CASE ScanDisk
    <3>1. p \in PartitionsOf(next) => p[1][1] = next
      BY DEF PartitionsOf
    <3> QED
      BY <1>1, <1>3, <1>6, <2>1, <3>1 DEF ListedInv, FoundIsBehind, M!Disks
  <2>2. CASE Start \/ SelectEvent
    BY <2>2 DEF Start, SelectEvent, BeginScan
  <2>3. CASE ~ScanDisk /\ ~Start /\ ~SelectEvent
    <3>1. found' = found /\ pc = "scan" /\ (next' = next \/ next' = next + 1)
      BY <2>3, Moves, FoundFrame DEF ScanDiskFails, loopVars
    <3> QED
      BY <1>1, <1>6, <3>1 DEF ListedInv, FoundIsBehind, LoopTypeOK, M!Disks
  <2> QED
    BY <2>1, <2>2, <2>3
<1>8. FoundIsListed'
  <2> SUFFICES ASSUME NEW p \in found'
               PROVE  /\ listed'[p[1][1]] # 0
                      /\ slot'[p[1][1]].id = listed'[p[1][1]]
                            => p \in PartitionsOf(p[1][1])'
    BY DEF FoundIsListed
  <2>1. CASE ScanDisk
    <3>1. CASE p \in found
      <4>1. p[1][1] # next /\ p[1][1] \in M!Disks
        BY <1>1, <1>3, <1>6, <2>1, <3>1 DEF ListedInv, FoundIsBehind, M!Disks
      <4>2. listed'[p[1][1]] = listed[p[1][1]]
        BY <1>1, <1>3, <2>1, <4>1
      <4> QED
        BY <1>1, <1>3, <2>1, <3>1, <4>2 DEF ListedInv, FoundIsListed, PartitionsOf
    <3>2. CASE p \in PartitionsOf(next)
      <4>1. p[1][1] = next /\ DOMAIN slot[next].table # {}
        BY <3>2 DEF PartitionsOf
      <4>2. slot[next].id # 0
        BY <1>1, <1>3, <2>1, <4>1 DEF IInv, LoopInv, EmptySlots, M!NoDisk, M!NoTable
      <4>3. listed'[next] = slot[next].id
        BY <1>1, <1>3, <2>1
      <4> QED
        BY <1>3, <2>1, <3>2, <4>1, <4>2, <4>3 DEF PartitionsOf
    <3> QED
      BY <1>3, <2>1, <3>1, <3>2
  <2>2. CASE Start \/ SelectEvent
    BY <2>2 DEF Start, SelectEvent, BeginScan
  <2>3. CASE ~ScanDisk /\ ~Start /\ ~SelectEvent
    <3> DEFINE d == p[1][1]
    <3>1. p \in found /\ listed' = listed /\ d \in M!Disks
      BY <1>6, <2>3, FoundFrame
    <3>2. listed[d] # 0 /\ (slot[d].id = listed[d] => p \in PartitionsOf(d))
      BY <1>1, <3>1 DEF ListedInv, FoundIsListed
    <3>3. CASE slot'[d] = slot[d]
      BY <3>1, <3>2, <3>3 DEF PartitionsOf
    <3>4. CASE slot'[d] # slot[d]
      <4>1. slot'[d].id # listed[d]
        <5> HIDE DEF d
        <5> QED BY <1>1, <3>1, <3>2, <3>4, SlotOrNew
      <4> QED
        BY <3>1, <3>2, <4>1
    <3> QED
      BY <3>3, <3>4
  <2> QED
    BY <2>1, <2>2, <2>3
<1>9. AttemptIsListed'
  <2> DEFINE d == attempt'.key[1]
  <2> SUFFICES ASSUME pc' = "mounting", attempt'.stage # "disk", slot'[d].id = listed'[d]
               PROVE  attempt'.of.meta = slot'[d].id
    BY DEF AttemptIsListed
  <2>1. ~CallMount
    BY CallFacts
  <2>2. pc = "mounting" /\ ~MountOk /\ ~MountErr /\ ~ScanDisk
    BY <1>3, <2>1, CallGoesOn
  <2>3. listed' = listed
    BY <2>2
  <2>4. /\ attempt.key[1] \in M!Disks
        /\ <<attempt.key, attempt.offset>> \in found
    BY <1>1, <2>2, AttemptFacts DEF IInv, LoopInv, LoopTypeOK, AttemptIsCall
  <2>5. listed[attempt.key[1]] # 0
    BY <1>1, <2>4 DEF ListedInv, FoundIsListed
  <2>6. CASE MountStep
    BY <1>1, <2>2, <2>3, <2>6, MountStepFacts DEF ListedInv, AttemptIsListed
  <2>7. CASE attempt' = attempt
    <3>1. slot'[attempt.key[1]] = slot[attempt.key[1]]
      BY <1>1, <2>3, <2>4, <2>5, <2>7, SlotOrNew
    <3> QED
      BY <1>1, <2>2, <2>3, <2>7, <3>1 DEF ListedInv, AttemptIsListed
  <2> QED
    BY <2>1, <2>2, <2>6, <2>7, AttemptFrame
<1> QED
  BY <1>4, <1>5, <1>7, <1>8, <1>9 DEF ListedInv

LEMMA HistoryNextIInv ==
  HistoryIInv /\ [HistoryNext]_historyVars => HistoryIInv'
<1> SUFFICES ASSUME HistoryIInv, [HistoryNext]_historyVars PROVE HistoryIInv'
  OBVIOUS
<1>1. [Next]_vars /\ IInv
  BY DEF HistoryNext, historyVars, HistoryIInv
<1>2. IInv'
  BY <1>1, NextIInv
<1>3. clean' \in BOOLEAN
  BY Zenon DEF HistoryNext, historyVars, HistoryIInv, HistoryTypeOK
<1>4. ASSUME clean'
      PROVE  /\ clean \/ Scans
             /\ faults' = faults /\ foreign' = foreign
  BY Zenon, <1>4 DEF HistoryNext, historyVars, vars, mountVars
<1>5. ASSUME clean', clean
      PROVE  ScanCovers' /\ LetterKept' /\ (Room' => MountsCover')
  <2>1. ScanCovers /\ LetterKept /\ (Room => MountsCover)
    BY <1>5 DEF HistoryIInv, CleanInv
  <2>2. Room' => Room
    BY <1>4, <1>5 DEF Room, M!Letters
  <2> QED
    BY <1>1, <1>4, <1>5, <2>1, <2>2, ScanCoversStep, LetterKeptStep, MountsCoverStep
<1>6. CleanInv'
  BY <1>1, <1>4, <1>5, ScanBegins DEF CleanInv
<1>7. TypeOK'
  BY <1>2, InvariantTypes, PTL
<1>8. listed' = IF ScanDisk THEN [listed EXCEPT ![next] = slot[next].id] ELSE listed
  <2>1. UNCHANGED historyVars => ~ScanDisk
    BY DaemonAssumption DEF historyVars, vars, loopVars, ScanDisk, HistoryIInv, IInv,
       LoopInv, LoopTypeOK
  <2> QED
    BY <2>1 DEF HistoryNext, historyVars
<1>9. listed' \in [M!Disks -> Nat] /\ ListedInv'
  BY <1>1, <1>2, <1>8, ListedStep
<1>10. HistoryTypeOK'
  BY Zenon, <1>3, <1>7, <1>9 DEF HistoryTypeOK, M!Disks
<1> QED
  BY Zenon, <1>2, <1>6, <1>9, <1>10 DEF HistoryIInv

LEMMA HistoryInvariance == HistorySpec => []HistoryIInv
  BY HistoryInitIInv, HistoryNextIInv, PTL DEF HistorySpec

(***************************************************************************)
(* Whatever has failed before, in the daemon or around it: when it comes to *)
(* rest after a scan that nothing disturbed, the key of each partition that *)
(* is present and holds a volume has one, if there is a letter for each.    *)
(***************************************************************************)
THEOREM CleanScanRepairs == HistorySpec => []CleanScanMountsAll
<1>1. HistoryIInv => CleanScanMountsAll
  <2> SUFFICES ASSUME HistoryIInv, Settled, clean, Room, NEW k \in VolumeKeys
               PROVE  M!Mounted(k)
    BY DEF CleanScanMountsAll, Room
  <2>1. k \in known
    BY SettledIsQuiet DEF HistoryIInv, CleanInv, MountsCover
  <2>2. k \in Keys /\ pc \in Serving
    BY SettledIsQuiet DEF VolumeKeys, PresentKeys, Serving
  <2> QED
    BY <2>1, <2>2 DEF HistoryIInv, IInv, LoopInv, MountedAreKnown
<1> QED
  BY <1>1, HistoryInvariance, PTL

(***************************************************************************)
(* A volume that appears while the disk is still the one that was scanned   *)
(* is on this disk, and is that of the partition its key names.            *)
(***************************************************************************)
THEOREM ListedAreMounted == HistorySpec => ListedIsMounted
<1> DEFINE A == \A k \in Keys :
          LET d == k[1] IN
          ~M!Mounted(k) /\ M!Mounted(k)' /\ slot[d].id = listed[d]
              => /\ k \in PresentKeys
                 /\ mounts'[k].of.meta = slot[d].id
                 /\ mounts'[k].offset = slot[d].table[k[2]]
<1>1. HistoryIInv /\ [HistoryNext]_historyVars => [A]_historyVars
  <2> SUFFICES ASSUME HistoryIInv, [Next]_vars, NEW k \in Keys,
                      ~M!Mounted(k), M!Mounted(k)', slot[k[1]].id = listed[k[1]]
               PROVE  /\ k \in PresentKeys
                      /\ mounts'[k].of.meta = slot[k[1]].id
                      /\ mounts'[k].offset = slot[k[1]].table[k[2]]
    BY DEF HistoryNext, historyVars
  <2>1. DOMAIN mounts = Keys
    BY ManagerFacts DEF HistoryIInv
  <2>2. MountOk
    <3>1. ~UnmountOne /\ ~DropMount
      BY <2>1 DEF UnmountOne, DropMount, M!Unmount, M!Mounted
    <3> QED
      BY <3>1, MountsFrame DEF M!Mounted
  <2>3. /\ pc = "mounting"
        /\ attempt.stage = "host"
        /\ mounts' = [mounts EXCEPT ![attempt.key] = [letter |-> attempt.letter,
                         offset |-> attempt.offset, of |-> attempt.of]]
    BY <2>2 DEF MountOk, Returned, M!HostMount
  <2>4. k = attempt.key
    BY <2>1, <2>3 DEF M!Mounted
  <2>5. /\ mounts'[k].of = attempt.of
        /\ mounts'[k].offset = attempt.offset
    BY <2>1, <2>3, <2>4
  <2>6. <<k, attempt.offset>> \in found
    BY <2>3, <2>4 DEF HistoryIInv, IInv, LoopInv, LoopTypeOK, AttemptIsCall
  <2>7. <<k, attempt.offset>> \in PartitionsOf(k[1])
    BY <2>6 DEF HistoryIInv, ListedInv, FoundIsListed
  <2>8. k[2] \in DOMAIN slot[k[1]].table /\ attempt.offset = slot[k[1]].table[k[2]]
    BY <2>7 DEF PartitionsOf
  <2>9. attempt.of.meta = slot[k[1]].id
    BY <2>3, <2>4 DEF HistoryIInv, ListedInv, AttemptIsListed
  <2> QED
    BY <2>5, <2>8, <2>9 DEF PresentKeys
<1>2. [][A]_historyVars => ListedIsMounted
  BY DEF ListedIsMounted
<1> QED
  BY <1>1, <1>2, HistoryInvariance, PTL DEF HistorySpec
=============================================================================
