------------------------- MODULE MountManagerProofs -------------------------
(***************************************************************************)
(* Safety of MountManager for any number of drive numbers, partitions,      *)
(* letters, arrivals and errors.                                           *)
(***************************************************************************)
EXTENDS MountManager, TLAPS

(***************************************************************************)
(* The inductive invariant.  Disks never come back under an identity they   *)
(* had, so the handles of an attempt can be compared in time: each was      *)
(* opened on a disk that had arrived, no earlier than the one that "meta"   *)
(* is on, and the disk in the slot now is none of those gone by in between. *)
(* A read through "meta" that works when all are open, as in OpenVolume,    *)
(* says that the slot never changed.                                       *)
(***************************************************************************)
IdsHaveArrived == \A d \in Disks : slot[d].id <= arrivals

\* id was opened at a time no earlier than "meta" was, and no later than now.
Between(id, meta, d) ==
    /\ meta <= id
    /\ id <= arrivals
    /\ slot[d].id # 0 => id <= slot[d].id

Opened(a) ==
    LET d == a.key[1] IN
    /\ a.stage # "disk" =>
          /\ a.of.meta # 0
          /\ Between(a.of.meta, a.of.meta, d)
    /\ a.stage \in {"size", "volume"} => Between(a.of.raw, a.of.meta, d)
    /\ a.stage = "volume" => Between(a.of.size, a.of.meta, d)
    /\ a.stage = "host" => a.of.raw = a.of.meta /\ a.of.size = a.of.meta

AttemptOpened == Trying => Opened(attempt)

MountedIdsHaveArrived ==
    \A k \in Keys :
        Mounted(k) => mounts[k].of.meta # 0 /\ mounts[k].of.meta <= arrivals

IInv ==
    /\ TypeOK
    /\ IdsHaveArrived
    /\ AttemptOpened
    /\ MountedIdsHaveArrived
    /\ HandlesAgree
-----------------------------------------------------------------------------
LEMMA InitIInv == Init => IInv
<1> SUFFICES ASSUME Init PROVE IInv
  OBVIOUS
<1>1. TypeOK
  BY MountsAssumption DEF Init, TypeOK, DisksInit, DisksTypeOK, Disk, NoDisk
<1>2. \A d \in Disks : slot[d].id = 0 /\ arrivals = 0
  BY DEF Init, DisksInit, NoDisk
<1>3. ~Trying /\ \A k \in Keys : ~Mounted(k)
  BY DEF Init, Trying, Idle, Mounted
<1> QED
  BY <1>1, <1>2, <1>3 DEF IInv, IdsHaveArrived, AttemptOpened,
     MountedIdsHaveArrived, HandlesAgree

\* An attempt that is under way has the type of one, and no stage is "idle".
LEMMA TryingType == TypeOK => (Trying <=> attempt \in Attempt)
  BY DEF TypeOK, Trying, Attempt, Idle, Stages

\* An open or a read is under way: its handles change, and it is at its next stage.
LEMMA AdvanceType ==
  ASSUME TypeOK, NEW h \in Handles, Advance(h),
         attempt.stage \in {"disk", "raw", "size", "volume"}
  PROVE  /\ attempt \in Attempt
         /\ attempt' = [stage |-> StageAfter[attempt.stage], key |-> attempt.key,
                        offset |-> attempt.offset, letter |-> attempt.letter, of |-> h]
         /\ TypeOK'
<1>1. attempt \in Attempt
  BY TryingType DEF Trying
<1>2. attempt' = [stage |-> StageAfter[attempt.stage], key |-> attempt.key,
                 offset |-> attempt.offset, letter |-> attempt.letter, of |-> h]
  BY <1>1 DEF Advance, Attempt
<1>3. StageAfter[attempt.stage] \in Stages
  BY DEF StageAfter, Stages
<1>4. attempt' \in Attempt
  BY <1>1, <1>2, <1>3 DEF Attempt
<1> QED
  BY <1>1, <1>2, <1>4 DEF TypeOK, DisksTypeOK, Advance

\* The disk of an attempt is one of the slots.
LEMMA TargetType ==
  ASSUME TypeOK, attempt \in Attempt
  PROVE  attempt.key[1] \in Disks /\ Target \in Disk
  BY DEF TypeOK, DisksTypeOK, Attempt, Keys, Target

\* What is mounted is untouched by the steps of an attempt before its last.
LEMMA AdvanceKeepsMounts ==
  ASSUME IInv, NEW h \in Handles, Advance(h)
  PROVE  /\ IdsHaveArrived'
         /\ MountedIdsHaveArrived'
         /\ HandlesAgree'
  BY DEF IInv, Advance, IdsHaveArrived, MountedIdsHaveArrived, HandlesAgree, Mounted

LEMMA OpenDiskIInv == IInv /\ OpenDisk => IInv'
<1> SUFFICES ASSUME IInv, OpenDisk PROVE IInv'
  OBVIOUS
<1> DEFINE h == [attempt.of EXCEPT !.meta = Target.id]
<1>1. attempt \in Attempt
  BY TryingType DEF IInv, OpenDisk, Trying
<1>2. Target \in Disk /\ attempt.key[1] \in Disks
  BY <1>1, TargetType DEF IInv
<1>3. h \in Handles /\ h.meta = Target.id
  BY <1>1, <1>2 DEF Attempt, Handles, Disk
<1>4. Advance(h)
  BY DEF OpenDisk
<1>5. /\ attempt'.stage = "raw"
      /\ attempt'.key = attempt.key
      /\ attempt'.of = h
      /\ TypeOK'
  <2> HIDE DEF h
  <2> QED BY <1>3, <1>4, AdvanceType DEF OpenDisk, StageAfter, IInv
<1>6. /\ Target.id # 0
      /\ Target.id <= arrivals
      /\ slot' = slot
      /\ arrivals' = arrivals
  BY <1>2, <1>4 DEF OpenDisk, CanOpen, IInv, IdsHaveArrived, Target, Advance
<1>7. AttemptOpened'
  <2> HIDE DEF h
  <2> QED
    BY <1>2, <1>3, <1>5, <1>6 DEF AttemptOpened, Opened, Between, Target, Disk
<1> HIDE DEF h
<1> QED
  BY <1>3, <1>4, <1>5, <1>7, AdvanceKeepsMounts DEF IInv

LEMMA ReopenRawIInv == IInv /\ ReopenRaw => IInv'
<1> SUFFICES ASSUME IInv, ReopenRaw PROVE IInv'
  OBVIOUS
<1> DEFINE h == [attempt.of EXCEPT !.raw = Target.id]
<1>1. attempt \in Attempt
  BY TryingType DEF IInv, ReopenRaw, Trying
<1>2. Target \in Disk /\ attempt.key[1] \in Disks
  BY <1>1, TargetType DEF IInv
<1>3. h \in Handles /\ h.meta = attempt.of.meta /\ h.raw = Target.id
  BY <1>1, <1>2 DEF Attempt, Handles, Disk
<1>4. Advance(h)
  BY DEF ReopenRaw
<1> HIDE DEF h
<1>5. /\ attempt'.stage = "size"
      /\ attempt'.key = attempt.key
      /\ attempt'.of = h
      /\ TypeOK'
  BY <1>3, <1>4, AdvanceType DEF ReopenRaw, StageAfter, IInv
<1>6. /\ Target.id # 0
      /\ Target.id <= arrivals
      /\ slot' = slot
      /\ arrivals' = arrivals
  BY <1>2, <1>4 DEF ReopenRaw, CanOpen, IInv, IdsHaveArrived, Target, Advance
\* The disk opened now is the one in the slot, which "meta" does not exceed.
<1>7. h.meta # 0 /\ Between(h.meta, h.meta, attempt.key[1])
  BY <1>1, <1>3 DEF IInv, AttemptOpened, Opened, ReopenRaw, Trying
<1>8. AttemptOpened'
  BY <1>2, <1>3, <1>5, <1>6, <1>7
  DEF AttemptOpened, Opened, Between, Target, Disk
<1> QED
  BY <1>3, <1>4, <1>5, <1>8, AdvanceKeepsMounts DEF IInv

LEMMA ReopenForSizeIInv == IInv /\ ReopenForSize => IInv'
<1> SUFFICES ASSUME IInv, ReopenForSize PROVE IInv'
  OBVIOUS
<1>1. attempt \in Attempt
  BY TryingType DEF IInv, ReopenForSize, Trying
<1>2. Target \in Disk /\ attempt.key[1] \in Disks
  BY <1>1, TargetType DEF IInv
<1>3. PICK id \in {Target.id, attempt.of.meta} :
          Advance([attempt.of EXCEPT !.size = id])
  BY DEF ReopenForSize
<1> DEFINE h == [attempt.of EXCEPT !.size = id]
<1>4. /\ h \in Handles
      /\ h.meta = attempt.of.meta
      /\ h.raw = attempt.of.raw
      /\ h.size = id
  BY <1>1, <1>2 DEF Attempt, Handles, Disk
<1>5. Advance(h)
  BY <1>3
<1> HIDE DEF h
<1>6. /\ attempt'.stage = "volume"
      /\ attempt'.key = attempt.key
      /\ attempt'.of = h
      /\ TypeOK'
  BY <1>4, <1>5, AdvanceType DEF ReopenForSize, StageAfter, IInv
<1>7. /\ Target.id # 0
      /\ Target.id <= arrivals
      /\ slot' = slot
      /\ arrivals' = arrivals
  BY <1>2, <1>5 DEF ReopenForSize, CanOpen, IInv, IdsHaveArrived, Target, Advance
<1>8. /\ h.meta # 0
      /\ Between(h.meta, h.meta, attempt.key[1])
      /\ Between(h.raw, h.meta, attempt.key[1])
  BY <1>1, <1>4 DEF IInv, AttemptOpened, Opened, ReopenForSize, Trying
<1>9. AttemptOpened'
  BY <1>2, <1>4, <1>6, <1>7, <1>8
  DEF AttemptOpened, Opened, Between, Target, Disk
<1> QED
  BY <1>4, <1>5, <1>6, <1>9, AdvanceKeepsMounts DEF IInv

(***************************************************************************)
(* The heart of HandlesAgree: the volume opens only if the disk of "meta"   *)
(* is in the slot, and the other handles lie between the two in time.       *)
(***************************************************************************)
LEMMA OpenVolumeIInv == IInv /\ OpenVolume => IInv'
<1> SUFFICES ASSUME IInv, OpenVolume PROVE IInv'
  OBVIOUS
<1> DEFINE h == attempt.of
<1>1. attempt \in Attempt
  BY TryingType DEF IInv, OpenVolume, Trying
<1>2. Target \in Disk /\ attempt.key[1] \in Disks
  BY <1>1, TargetType DEF IInv
<1>3. h \in Handles
  BY <1>1 DEF Attempt
<1>4. Advance(h)
  BY DEF OpenVolume
<1>5. /\ attempt'.stage = "host"
      /\ attempt'.key = attempt.key
      /\ attempt'.offset = attempt.offset
      /\ attempt'.of = h
      /\ TypeOK'
  BY <1>3, <1>4, AdvanceType DEF OpenVolume, StageAfter, IInv
<1>6. /\ h.meta # 0
      /\ Between(h.meta, h.meta, attempt.key[1])
      /\ Between(h.raw, h.meta, attempt.key[1])
      /\ Between(h.size, h.meta, attempt.key[1])
  BY <1>1 DEF IInv, AttemptOpened, Opened, OpenVolume, Trying
<1>7. slot[attempt.key[1]].id = h.meta
  BY DEF OpenVolume, HasVolume, Target
<1>8. h.raw = h.meta /\ h.size = h.meta
  BY <1>3, <1>6, <1>7 DEF Between, Handles
<1>9. slot' = slot /\ arrivals' = arrivals
  BY <1>4 DEF Advance
<1>10. AttemptOpened'
  BY <1>5, <1>6, <1>7, <1>8, <1>9 DEF AttemptOpened, Opened, Between
<1> QED
  BY <1>3, <1>4, <1>5, <1>10, AdvanceKeepsMounts DEF IInv

LEMMA HostMountIInv == IInv /\ HostMount => IInv'
<1> SUFFICES ASSUME IInv, HostMount PROVE IInv'
  OBVIOUS
<1> DEFINE v == [letter |-> attempt.letter, offset |-> attempt.offset,
                 of |-> attempt.of]
<1>1. attempt \in Attempt
  BY TryingType DEF IInv, HostMount, Trying
<1>2. attempt.key \in Keys /\ v \in Volume
  BY <1>1 DEF Attempt, Volume
<1>3. /\ mounts' = [mounts EXCEPT ![attempt.key] = v]
      /\ attempt' = Idle
      /\ UNCHANGED <<slot, arrivals, foreign, grabs, faults>>
  BY DEF HostMount
<1>4. /\ v.of.meta # 0
      /\ v.of.meta <= arrivals
      /\ v.of.raw = v.of.meta
      /\ v.of.size = v.of.meta
  BY <1>1 DEF IInv, AttemptOpened, Opened, HostMount, Trying, Between
<1> HIDE DEF v
<1>5. TypeOK'
  BY <1>2, <1>3 DEF IInv, TypeOK, DisksTypeOK
<1>6. AttemptOpened'
  BY <1>3 DEF AttemptOpened, Trying, Idle
<1>7. \A k \in Keys : mounts'[k] = IF k = attempt.key THEN v ELSE mounts[k]
  BY <1>2, <1>3 DEF IInv, TypeOK
<1> QED
  BY <1>2, <1>3, <1>4, <1>5, <1>6, <1>7
  DEF IInv, IdsHaveArrived, MountedIdsHaveArrived, HandlesAgree, Mounted

\* Steps that leave the disks and the mounted volumes alone, and the attempt
\* either alone, too, or about to open its disk, or over.
LEMMA QuietIInv ==
  ASSUME IInv, UNCHANGED <<slot, arrivals, mounts>>, TypeOK',
         \/ attempt' = attempt
         \/ attempt' = Idle
         \/ attempt'.stage = "disk"
  PROVE  IInv'
<1>1. AttemptOpened'
  BY DEF IInv, AttemptOpened, Trying, Opened, Between, Idle
<1> QED
  BY <1>1 DEF IInv, IdsHaveArrived, MountedIdsHaveArrived, HandlesAgree, Mounted

LEMMA BeginIInv ==
  ASSUME IInv, NEW k \in Keys, NEW o \in Offsets, NEW l \in Letters, Begin(k, o, l)
  PROVE  IInv'
<1>1. attempt' \in Attempt /\ attempt'.stage = "disk"
  BY DEF Begin, Attempt, Stages, Handles, NoHandles
<1>2. TypeOK'
  BY <1>1 DEF IInv, TypeOK, DisksTypeOK, Begin
<1> QED
  BY <1>1, <1>2, QuietIInv DEF Begin

LEMMA FailIInv == IInv /\ Fail => IInv'
<1> SUFFICES ASSUME IInv, Fail PROVE IInv'
  OBVIOUS
<1>1. TypeOK'
  BY DEF Fail, IInv, TypeOK, DisksTypeOK
<1> QED
  BY <1>1, QuietIInv DEF Fail

LEMMA OthersIInv ==
  ASSUME IInv, \/ \E l \in Letters : TakeLetter(l) \/ ReleaseLetter(l)
               \/ OtherError
  PROVE  IInv'
<1>1. TypeOK'
  BY DEF TakeLetter, ReleaseLetter, OtherError, IInv, TypeOK, DisksTypeOK
<1>2. UNCHANGED <<slot, arrivals, mounts, attempt>>
  BY DEF TakeLetter, ReleaseLetter, OtherError
<1> QED
  BY <1>1, <1>2, QuietIInv

LEMMA UnmountIInv ==
  ASSUME IInv, NEW k \in Keys, Unmount(k)
  PROVE  IInv'
<1>1. \A j \in Keys : mounts'[j] = IF j = k THEN NoVolume ELSE mounts[j]
  BY DEF Unmount, IInv, TypeOK
<1>2. UNCHANGED <<slot, arrivals, attempt>>
  BY DEF Unmount
<1>3. TypeOK'
  BY DEF Unmount, IInv, TypeOK, DisksTypeOK
<1>4. AttemptOpened'
  BY <1>2 DEF IInv, AttemptOpened, Trying, Opened, Between
<1> QED
  BY <1>1, <1>2, <1>3, <1>4
  DEF IInv, IdsHaveArrived, MountedIdsHaveArrived, HandlesAgree, Mounted

(***************************************************************************)
(* A disk that arrives has an identity that no handle is on yet; one that   *)
(* leaves is compared with no more.                                        *)
(***************************************************************************)
LEMMA SlotIInv ==
  ASSUME IInv, NEW d \in Disks, NEW new \in Disk,
         slot' = [slot EXCEPT ![d] = new],
         arrivals' \in Nat,
         arrivals <= arrivals',
         new.id = 0 \/ (new.id = arrivals + 1 /\ arrivals' = arrivals + 1),
         UNCHANGED <<mounts, attempt, foreign, grabs, faults>>
  PROVE  IInv'
<1>1. \A e \in Disks : slot'[e] = IF e = d THEN new ELSE slot[e]
  BY DEF IInv, TypeOK, DisksTypeOK
<1>2. arrivals \in Nat /\ new.id \in Nat /\ \A e \in Disks : slot[e].id \in Nat
  BY DEF IInv, TypeOK, DisksTypeOK, Disk
<1>3. TypeOK'
  BY DEF IInv, TypeOK, DisksTypeOK
<1>4. IdsHaveArrived'
  BY <1>1, <1>2 DEF IInv, IdsHaveArrived
<1>5. \A k \in Keys : k[1] \in Disks
  BY DEF Keys
<1>6. ASSUME NEW k \in Keys, Mounted(k)
      PROVE  mounts[k].of.meta \in Nat /\ mounts[k].of.meta <= arrivals
  BY <1>6 DEF IInv, TypeOK, Mounted, Volume, Handles, MountedIdsHaveArrived
<1>7. MountedIdsHaveArrived' /\ HandlesAgree'
  BY <1>2, <1>6 DEF IInv, MountedIdsHaveArrived, HandlesAgree, Mounted
<1>8. AttemptOpened'
  <2> SUFFICES ASSUME Trying PROVE Opened(attempt)'
    BY DEF AttemptOpened, Trying
  <2>1. attempt \in Attempt
    BY TryingType DEF IInv
  <2>2. /\ attempt.key[1] \in Disks
        /\ attempt.of.meta \in Nat
        /\ attempt.of.raw \in Nat
        /\ attempt.of.size \in Nat
    BY <1>5, <2>1 DEF Attempt, Handles
  <2>3. Opened(attempt)
    BY DEF IInv, AttemptOpened
  <2>4. ASSUME NEW id \in Nat, Between(id, attempt.of.meta, attempt.key[1])
        PROVE  Between(id, attempt.of.meta, attempt.key[1])'
    BY <1>1, <1>2, <2>2, <2>4 DEF Between
  <2> QED
    BY <2>2, <2>3, <2>4 DEF Opened
<1> QED
  BY <1>3, <1>4, <1>7, <1>8 DEF IInv

LEMMA PlugInIInv ==
  ASSUME IInv, NEW d \in Disks, NEW c \in Layouts, PlugIn(d, c)
  PROVE  IInv'
<1>1. arrivals \in Nat
  BY DEF IInv, TypeOK, DisksTypeOK
<1> DEFINE new == [id |-> arrivals + 1, table |-> c.table, volumes |-> c.volumes]
<1>2. new \in Disk
  BY <1>1, DisksAssumption DEF Disk
<1>3. /\ slot' = [slot EXCEPT ![d] = new]
      /\ new \in Disk
      /\ new.id = arrivals + 1
      /\ arrivals' = arrivals + 1
      /\ UNCHANGED <<mounts, attempt, foreign, grabs, faults>>
  BY <1>2 DEF PlugIn, Plug
<1> HIDE DEF new
<1>4. arrivals' \in Nat /\ arrivals <= arrivals'
  BY <1>1, <1>3
<1> QED
  BY <1>3, <1>4, SlotIInv

LEMMA PullOutIInv ==
  ASSUME IInv, NEW d \in Disks, PullOut(d)
  PROVE  IInv'
<1>1. NoDisk \in Disk /\ NoDisk.id = 0
  BY DEF NoDisk, Disk
<1>2. arrivals \in Nat
  BY DEF IInv, TypeOK, DisksTypeOK
<1>3. /\ slot' = [slot EXCEPT ![d] = NoDisk]
      /\ arrivals' = arrivals
      /\ UNCHANGED <<mounts, attempt, foreign, grabs, faults>>
  BY DEF PullOut, Unplug
<1>4. arrivals' \in Nat /\ arrivals <= arrivals'
  BY <1>2, <1>3
<1> QED
  BY <1>1, <1>3, <1>4, SlotIInv

LEMMA NextIInv == IInv /\ [Next]_vars => IInv'
<1> SUFFICES ASSUME IInv, [Next]_vars PROVE IInv'
  OBVIOUS
<1>1. ASSUME NEW k \in Keys, NEW o \in Offsets, NEW l \in Letters, Begin(k, o, l)
      PROVE  IInv'
  BY <1>1, BeginIInv
<1>2. CASE Step
  BY <1>2, OpenDiskIInv, ReopenRawIInv, ReopenForSizeIInv, OpenVolumeIInv,
     HostMountIInv, FailIInv DEF Step
<1>3. ASSUME NEW k \in Keys, Unmount(k) PROVE IInv'
  BY <1>3, UnmountIInv
<1>4. CASE OtherError \/ \E l \in Letters : TakeLetter(l) \/ ReleaseLetter(l)
  BY <1>4, OthersIInv
<1>5. ASSUME NEW d \in Disks, NEW c \in Layouts, PlugIn(d, c) PROVE IInv'
  BY <1>5, PlugInIInv
<1>6. ASSUME NEW d \in Disks, PullOut(d) PROVE IInv'
  BY <1>6, PullOutIInv
<1>7. CASE UNCHANGED vars
  <2>1. TypeOK'
    BY <1>7 DEF IInv, TypeOK, DisksTypeOK, vars
  <2> QED
    BY <1>7, <2>1, QuietIInv DEF vars
<1> QED
  BY <1>1, <1>2, <1>3, <1>4, <1>5, <1>6, <1>7 DEF Next

LEMMA Invariance == Spec => []IInv
  BY InitIInv, NextIInv, PTL DEF Spec
-----------------------------------------------------------------------------
(***************************************************************************)
(* Type correctness, of the attempt under way and of the map above all.     *)
(***************************************************************************)
THEOREM TypeCorrect == Spec => []TypeOK
<1>1. IInv => TypeOK
  BY DEF IInv
<1> QED
  BY <1>1, Invariance, PTL

(***************************************************************************)
(* A mounted driver never mixes two disks, however often disks are swapped  *)
(* while mount_partition runs.                                             *)
(***************************************************************************)
THEOREM OneDiskPerVolume == Spec => []HandlesAgree
<1>1. IInv => HandlesAgree
  BY DEF IInv
<1> QED
  BY <1>1, Invariance, PTL
=============================================================================
