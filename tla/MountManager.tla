---------------------------- MODULE MountManager ----------------------------
(***************************************************************************)
(* MountManager (src/src/mount_manager.rs) with what mount_partition calls: *)
(* DiskReader::open_with_offset, reopen_raw and reopen (disk.rs),           *)
(* ApfsDriver::new (driver.rs), and the mounting of a WinFsp host.          *)
(*                                                                         *)
(* mount_partition names a disk by its number and opens it three times: for *)
(* the metadata, for the file data and for the size of the container.       *)
(* Disks are unplugged and plugged in between any two of those opens, and   *)
(* other programs take drive letters.                                      *)
(***************************************************************************)
EXTENDS PhysicalDisks

CONSTANTS
    NLetters,       \* letters are 1 .. NLetters (D: .. Z: in the code)
    MaxGrabs,       \* bound: letters taken or given back by other programs
    MaxFaults       \* bound: I/O errors that have no cause in the model

ASSUME MountsAssumption ==
    /\ NLetters \in Nat
    /\ MaxGrabs \in Nat
    /\ MaxFaults \in Nat

VARIABLES
    mounts,         \* mounts[k]: the volume mounted for the key k, or NoVolume
    attempt,        \* the call of mount_partition that is under way
    foreign,        \* letters that other programs hold
    grabs,          \* how often other programs changed "foreign"
    faults          \* how many I/O errors have happened

mountVars == <<mounts, attempt>>
vars == <<slot, arrivals, mounts, attempt, foreign, grabs, faults>>

Letters == 1 .. NLetters

(***************************************************************************)
(* The key of a volume in the map, format!("{}:{}", disk, partition).       *)
(***************************************************************************)
Keys == Disks \X PartNumbers

(***************************************************************************)
(* The handles of an ApfsDriver, each as the identity of the disk it was    *)
(* opened on (0: not opened yet): volume, raw_disk, and what disk_size was  *)
(* read from.                                                              *)
(***************************************************************************)
Handles == [meta : Nat, raw : Nat, size : Nat]

NoHandles == [meta |-> 0, raw |-> 0, size |-> 0]

(* A mounted volume: its drive letter, the offset it was opened at. *)
Volume == [letter : Letters, offset : Offsets, of : Handles]

NoVolume == [letter |-> 0]

Mounted(k) == mounts[k] # NoVolume

FreeLetters == Letters \ (foreign \cup { mounts[k].letter : k \in Keys })

(***************************************************************************)
(* What mount_partition does next: open the disk, reopen it raw, reopen it  *)
(* for the container's size, open the APFS volume, mount the WinFsp host.   *)
(***************************************************************************)
Stages == {"disk", "raw", "size", "volume", "host"}

Idle == [stage |-> "idle"]

Attempt == [stage : Stages, key : Keys, offset : Offsets, letter : Letters,
            of : Handles]

Trying == attempt.stage # "idle"

TypeOK ==
    /\ DisksTypeOK
    /\ mounts \in [Keys -> Volume \cup {NoVolume}]
    /\ attempt \in Attempt \cup {Idle}
    /\ foreign \subseteq Letters
    /\ grabs \in Nat
    /\ faults \in Nat

Init ==
    /\ DisksInit
    /\ mounts = [k \in Keys |-> NoVolume]
    /\ attempt = Idle
    /\ foreign \in SUBSET Letters
    /\ grabs = 0
    /\ faults = 0
-----------------------------------------------------------------------------
\* mount_partition is called for a partition with the key k that some scan has
\* seen at the offset o, and the letter l.  It does not ask whether k is mounted.
Begin(k, o, l) ==
    /\ attempt = Idle
    /\ attempt' = [stage |-> "disk", key |-> k, offset |-> o, letter |-> l,
                   of |-> NoHandles]
    /\ UNCHANGED <<slot, arrivals, mounts, foreign, grabs, faults>>

\* The disk that has the number of the attempt's disk now.
Target == slot[attempt.key[1]]

\* Mutant of StageAfter: the volume is opened before the disk is opened again.
StageAfterVolumeFirst ==
    [disk |-> "volume", volume |-> "raw", raw |-> "size", size |-> "host"]

\* The order of the calls in mount_partition and in ApfsDriver::new.
StageAfter ==
    [disk |-> "raw", raw |-> "size", size |-> "volume", volume |-> "host"]

Advance(handles) ==
    /\ attempt' = [attempt EXCEPT !.stage = StageAfter[@], !.of = handles]
    /\ UNCHANGED <<slot, arrivals, mounts, foreign, grabs, faults>>

\* A disk that is not there cannot be opened.
CanOpen == Target.id # 0

\* DiskReader::open_with_offset: the handle for the metadata.
OpenDisk ==
    /\ attempt.stage = "disk"
    /\ CanOpen
    /\ Advance([attempt.of EXCEPT !.meta = Target.id])

\* disk.reopen_raw(): the same path again, the handle for file data.
ReopenRaw ==
    /\ attempt.stage = "raw"
    /\ CanOpen
    /\ Advance([attempt.of EXCEPT !.raw = Target.id])

\* disk.reopen() and read_apfs_container_size(): the size is read through the
\* new handle or, when that read fails, is the one the first handle knew.
ReopenForSize ==
    /\ attempt.stage = "size"
    /\ CanOpen
    /\ \E id \in {Target.id, attempt.of.meta} :
          Advance([attempt.of EXCEPT !.size = id])

\* Reads through the first handle work, and find an APFS container there.  The
\* partition table is not read again: the offset may be that of no partition.
HasVolume ==
    /\ Target.id = attempt.of.meta
    /\ attempt.offset \in Target.volumes

\* ApfsVolume::open(disk).
OpenVolume ==
    /\ attempt.stage = "volume"
    /\ HasVolume
    /\ Advance(attempt.of)

LetterFree == attempt.letter \in FreeLetters

\* FileSystemHost::new, mount and start succeed; the volume goes into the map.
\* A volume that was there under the same key is dropped by the insertion.
HostMount ==
    /\ attempt.stage = "host"
    /\ LetterFree
    /\ mounts' = [mounts EXCEPT ![attempt.key] =
                    [letter |-> attempt.letter, offset |-> attempt.offset,
                     of |-> attempt.of]]
    /\ attempt' = Idle
    /\ UNCHANGED <<slot, arrivals, foreign, grabs, faults>>

\* What the next call of mount_partition needs from the outside to succeed.
Feasible ==
    CASE attempt.stage \in {"disk", "raw", "size"} -> CanOpen
      [] attempt.stage = "volume"                  -> HasVolume
      [] attempt.stage = "host"                    -> LetterFree

\* One of the calls fails: mount_partition returns Err and what it had opened
\* is dropped.  Either the call had to fail, or an I/O error has made it.
Fail ==
    /\ Trying
    /\ \/ ~Feasible /\ UNCHANGED faults
       \/ Feasible /\ faults < MaxFaults /\ faults' = faults + 1
    /\ attempt' = Idle
    /\ UNCHANGED <<slot, arrivals, mounts, foreign, grabs>>

\* unmount_partition: take the volume out of the map, if any, and drop its host.
Unmount(k) ==
    /\ mounts' = [mounts EXCEPT ![k] = NoVolume]
    /\ UNCHANGED <<slot, arrivals, attempt, foreign, grabs, faults>>
-----------------------------------------------------------------------------
\* Another program mounts or unmounts something of its own.
TakeLetter(l) ==
    /\ grabs < MaxGrabs
    /\ l \in FreeLetters
    /\ foreign' = foreign \cup {l}
    /\ grabs' = grabs + 1
    /\ UNCHANGED <<slot, arrivals, mounts, attempt, faults>>

ReleaseLetter(l) ==
    /\ grabs < MaxGrabs
    /\ l \in foreign
    /\ foreign' = foreign \ {l}
    /\ grabs' = grabs + 1
    /\ UNCHANGED <<slot, arrivals, mounts, attempt, faults>>

\* An I/O error that hits somebody else than mount_partition.
OtherError ==
    /\ faults < MaxFaults
    /\ faults' = faults + 1
    /\ UNCHANGED <<slot, arrivals, mounts, attempt, foreign, grabs>>

PlugIn(d, c) == Plug(d, c) /\ UNCHANGED <<mounts, attempt, foreign, grabs, faults>>

PullOut(d) == Unplug(d) /\ UNCHANGED <<mounts, attempt, foreign, grabs, faults>>

\* Some step of the mount_partition that is under way, or its failure.
Step == OpenDisk \/ ReopenRaw \/ ReopenForSize \/ OpenVolume \/ HostMount \/ Fail

Next ==
    \/ \E k \in Keys, o \in Offsets, l \in Letters : Begin(k, o, l)
    \/ Step
    \/ \E k \in Keys : Unmount(k)
    \/ OtherError
    \/ \E l \in Letters : TakeLetter(l) \/ ReleaseLetter(l)
    \/ \E d \in Disks : (\E c \in Layouts : PlugIn(d, c)) \/ PullOut(d)

Spec == Init /\ [][Next]_vars
-----------------------------------------------------------------------------
(***************************************************************************)
(* The three handles of a mounted driver are on one and the same disk.      *)
(* Nothing in the code compares them: a driver whose metadata came from one *)
(* disk and whose file data came from its successor would serve garbage.    *)
(* It is the order in ApfsDriver::new that excludes it, reopening first and *)
(* reading through the first handle last.                                  *)
(***************************************************************************)
HandlesAgree ==
    \A k \in Keys :
        Mounted(k) => /\ mounts[k].of.raw = mounts[k].of.meta
                      /\ mounts[k].of.size = mounts[k].of.meta
=============================================================================
