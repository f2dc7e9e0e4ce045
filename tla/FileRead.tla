------------------------------ MODULE FileRead ------------------------------
(***************************************************************************)
(* How bytes get from the disk to the callers of a mounted volume: the      *)
(* threads of WinFsp in ApfsDriver::read (src/src/driver.rs), on the handle *)
(* "raw", and in the library's reads of metadata blocks (read_block in      *)
(* vendor/apfs/src/object.rs), on the handle "volume".  A mutex guards each *)
(* handle, held for the whole of a file read and of a metadata operation.   *)
(***************************************************************************)
EXTENDS Extents, DiskReader

CONSTANTS
    None,           \* no thread
    Ranges,         \* bound: the <<offset, length>> that reads of files ask for
    BlockLists      \* bound: the blocks a metadata operation reads, one by one

ASSUME FileReadAssumption ==
    /\ None \notin Threads
    /\ Files # {}
    /\ Handles = {"volume", "raw"}
    /\ StartOf = [h \in Handles |-> IF h = "raw" THEN 0 ELSE PartitionOffset]
    /\ Ranges \subseteq Nat \X Nat
    /\ BlockLists \subseteq Seq(Nat) \ {<<>>}

VARIABLES
    lock,           \* lock[h]: the thread that holds the mutex of the handle
    job             \* job[t]: the callback or library call that t is in

vars == <<pointer, call, lock, job>>

HandleOf == [file |-> "raw", block |-> "volume"]

Job == [task : {"file", "block"}, file : Files, todo : Seq(Nat),
        stage : {"idle", "wait", "seek", "loop", "ok"},
        at : Nat, want : Nat, buf : Seq(Nat)]

NoJob == [task |-> "file", file |-> CHOOSE f \in Files : TRUE, todo |-> <<>>,
          stage |-> "idle", at |-> 0, want |-> 0, buf |-> <<>>]

TypeOK ==
    /\ ReaderTypeOK
    /\ lock \in [Handles -> Threads \cup {None}]
    /\ job \in [Threads -> Job]

Init ==
    /\ ReaderInit
    /\ lock = [h \in Handles |-> None]
    /\ job = [t \in Threads |-> NoJob]

Outside(t) == job[t].stage \in {"idle", "ok"}

Got(t) == Len(job[t].buf)

\* Where the next byte is in the file.
LogicalPos(t) == job[t].at + Got(t)
-----------------------------------------------------------------------------
\* Mutant of ReadFile: the offset is not compared with the size first.
ReadFileUnchecked(t, f, offset, len) ==
    LET want == Lesser(len, FileSize[f] - offset)
    IN  /\ Outside(t)
        /\ job' = [job EXCEPT ![t] =
               [task |-> "file", file |-> f, todo |-> <<>>,
                stage |-> IF want = 0 THEN "ok" ELSE "wait",
                at |-> offset, want |-> want, buf |-> <<>>]]
        /\ UNCHANGED <<pointer, call, lock>>

\* ApfsDriver::read up to the mutex: nothing is read at and after the end.
ReadFile(t, f, offset, len) ==
    LET want == IF offset >= FileSize[f] THEN 0
                ELSE Lesser(len, FileSize[f] - offset)
    IN  /\ Outside(t)
        /\ job' = [job EXCEPT ![t] =
               [task |-> "file", file |-> f, todo |-> <<>>,
                stage |-> IF want = 0 THEN "ok" ELSE "wait",
                at |-> offset, want |-> want, buf |-> <<>>]]
        /\ UNCHANGED <<pointer, call, lock>>

\* An operation of the volume reads some blocks of metadata.
ReadBlocks(t, blocks) ==
    /\ Outside(t)
    /\ job' = [job EXCEPT ![t] =
           [task |-> "block", file |-> NoJob.file, todo |-> blocks,
            stage |-> "wait", at |-> Head(blocks) * BlockSize,
            want |-> BlockSize, buf |-> <<>>]]
    /\ UNCHANGED <<pointer, call, lock>>

\* Mutant of Lock: nobody waits for the mutex.
LockUnlocked(t) ==
    /\ job[t].stage = "wait"
    /\ lock' = [lock EXCEPT ![HandleOf[job[t].task]] = t]
    /\ job' = [job EXCEPT ![t].stage =
                   IF job[t].task = "block" THEN "seek" ELSE "loop"]
    /\ UNCHANGED <<pointer, call>>

Lock(t) ==
    /\ job[t].stage = "wait"
    /\ lock[HandleOf[job[t].task]] = None
    /\ lock' = [lock EXCEPT ![HandleOf[job[t].task]] = t]
    /\ job' = [job EXCEPT ![t].stage =
                   IF job[t].task = "block" THEN "seek" ELSE "loop"]
    /\ UNCHANGED <<pointer, call>>

\* The guard of the mutex is dropped with the return.  With an error nobody looks
\* at the buffer.
Unlock(t) == lock' = [lock EXCEPT ![HandleOf[job[t].task]] = None]

ReturnOk(t) == job' = [job EXCEPT ![t].stage = "ok"] /\ Unlock(t)

ReturnError(t) == job' = [job EXCEPT ![t] = NoJob] /\ Unlock(t)

\* Inside of the mutex, between two calls of the DiskReader.
Between(t, stage) == job[t].stage = stage /\ call[t].stage = "none"

\* ApfsDriver::read asks for the rest of the extent, or of what it wants.
NextChunk(t) ==
    /\ Between(t, "loop")
    /\ job[t].task = "file"
    /\ Got(t) < job[t].want
    /\ Mapped(job[t].file, LogicalPos(t))
    /\ ReadAtAbsolute(t, "raw",
           PartitionOffset + LogicalToPhysical(job[t].file, LogicalPos(t)),
           Lesser(job[t].want - Got(t),
                  ExtentRemaining(job[t].file, LogicalPos(t))))
    /\ UNCHANGED <<lock, job>>

\* No extent has the byte: the read is an error, whatever was read before.
BeyondMap(t) ==
    /\ Between(t, "loop")
    /\ job[t].task = "file"
    /\ Got(t) < job[t].want
    /\ ~ Mapped(job[t].file, LogicalPos(t))
    /\ ReturnError(t)
    /\ UNCHANGED <<pointer, call>>

\* read_block seeks to its block each time, and reads it with read_exact.
SeekBlock(t) ==
    /\ Between(t, "seek")
    /\ SeekStart(t, "volume", job[t].at)
    /\ UNCHANGED <<lock, job>>

Sought(t) ==
    /\ job[t].stage = "seek"
    /\ call[t].stage = "done"
    /\ Taken(t)
    /\ job' = [job EXCEPT ![t].stage = "loop"]
    /\ UNCHANGED lock

ReadExact(t) ==
    /\ Between(t, "loop")
    /\ job[t].task = "block"
    /\ Got(t) < job[t].want
    /\ Read(t, "volume", job[t].want - Got(t))
    /\ UNCHANGED <<lock, job>>

Absorb(t) ==
    /\ job[t].stage = "loop"
    /\ call[t].stage = "done"
    /\ call[t].data # <<>>
    /\ Taken(t)
    /\ job' = [job EXCEPT ![t].buf = @ \o call[t].data]
    /\ UNCHANGED lock

\* Mutant of NoBytes: the loop of ApfsDriver::read does not look at bytes == 0.
NoBytesAgain(t) ==
    /\ job[t].stage = "loop"
    /\ call[t].stage = "done"
    /\ call[t].data = <<>>
    /\ Taken(t)
    /\ IF job[t].task = "file" THEN UNCHANGED <<lock, job>> ELSE ReturnError(t)

\* Nothing was read: ApfsDriver::read returns what it has, read_exact fails.
NoBytes(t) ==
    /\ job[t].stage = "loop"
    /\ call[t].stage = "done"
    /\ call[t].data = <<>>
    /\ Taken(t)
    /\ IF job[t].task = "file" THEN ReturnOk(t) ELSE ReturnError(t)

CallFailed(t) ==
    /\ job[t].stage \in {"seek", "loop"}
    /\ call[t].stage = "failed"
    /\ Taken(t)
    /\ ReturnError(t)

NextBlock(t) ==
    /\ Between(t, "loop")
    /\ Got(t) = job[t].want
    /\ Len(job[t].todo) > 1
    /\ job' = [job EXCEPT ![t].stage = "seek", ![t].todo = Tail(@),
                          ![t].at = Head(Tail(job[t].todo)) * BlockSize,
                          ![t].buf = <<>>]
    /\ UNCHANGED <<pointer, call, lock>>

\* Mutant of Finish: the first piece is returned, as if it were the whole.
FinishAfterPiece(t) ==
    /\ Between(t, "loop")
    /\ Got(t) > 0
    /\ Len(job[t].todo) <= 1
    /\ ReturnOk(t)
    /\ UNCHANGED <<pointer, call>>

Finish(t) ==
    /\ Between(t, "loop")
    /\ Got(t) = job[t].want
    /\ Len(job[t].todo) <= 1
    /\ ReturnOk(t)
    /\ UNCHANGED <<pointer, call>>

ThreadStep(t) ==
    \/ ReaderStep(t) /\ UNCHANGED <<lock, job>>
    \/ Lock(t) \/ NextChunk(t) \/ BeyondMap(t) \/ SeekBlock(t) \/ Sought(t)
    \/ ReadExact(t) \/ Absorb(t) \/ NoBytes(t) \/ CallFailed(t)
    \/ NextBlock(t) \/ Finish(t)

Next == \E t \in Threads :
    \/ \E f \in Files, r \in Ranges : ReadFile(t, f, r[1], r[2])
    \/ \E blocks \in BlockLists : ReadBlocks(t, blocks)
    \/ ThreadStep(t)
    \/ WindowsFails(t) /\ UNCHANGED <<lock, job>>

\* A thread that can run does, and a call of Windows returns.
Fairness == \A t \in Threads : WF_vars(ThreadStep(t))

Spec == Init /\ [][Next]_vars /\ Fairness
-----------------------------------------------------------------------------
(***************************************************************************)
(* disk.rs says above "unsafe impl Send" that all who share a DiskReader    *)
(* serialise their calls: no two threads are in calls on one handle.        *)
(***************************************************************************)
OneCallPerHandle ==
    \A s, t \in Threads :
        s # t /\ call[s].stage # "none" /\ call[t].stage # "none"
            => call[s].handle # call[t].handle

(***************************************************************************)
(* What is in a buffer is what belongs there: byte by byte that of the file *)
(* at its offset, or that of the metadata block, however the threads        *)
(* interleave and whatever calls failed before.  Of a file this is said if  *)
(* it is Dense, since stat_and_extents ignores the records' addresses.      *)
(***************************************************************************)
ReadIsExact ==
    \A t \in Threads : \A i \in DOMAIN job[t].buf :
        CASE job[t].task = "block" ->
                 job[t].buf[i] = PartitionOffset + job[t].at + i - 1
          [] job[t].task = "file" ->
                 Dense(job[t].file) =>
                     IsByteOf(job[t].file, job[t].at + i - 1, job[t].buf[i])

(* All of the file is on the disk, as opposed to one on a truncated image.  *)
OnDisk(f) ==
    \A e \in ExtentMap(f) : PartitionOffset + e.phys + e.len <= DiskSize

(***************************************************************************)
(* A read that answers without an error has all that was asked for, up to   *)
(* the end of the file, though it is put together from extents and sectors; *)
(* less only if the disk ends.                                             *)
(***************************************************************************)
ReadIsWhole ==
    \A t \in Threads :
        job[t].stage = "ok" /\ (job[t].task = "file" => OnDisk(job[t].file))
            => Len(job[t].buf) = job[t].want

(***************************************************************************)
(* The thread that holds a handle's mutex gives it back: the loops end at   *)
(* the end of the disk and after errors, too.                              *)
(***************************************************************************)
LocksAreReleased ==
    \A h \in Handles : lock[h] # None ~> lock[h] = None

(***************************************************************************)
(* The handle of the metadata is a byte stream that begins at the           *)
(* partition.  While a read is under way the position is where it began,    *)
(* though the file pointer is at a sector before it.                       *)
(***************************************************************************)
Reading(t) ==
    /\ call[t].handle = "volume"
    /\ call[t].method = "read"
    /\ call[t].stage \in {"align", "transfer", "restore"}

Answered(t) ==
    /\ call[t].handle = "volume"
    /\ call[t].method = "read"
    /\ call[t].stage = "done"

StreamPos ==
    (IF \E t \in Threads : Reading(t)
     THEN call[CHOOSE t \in Threads : Reading(t)].pos
     ELSE pointer["volume"]) - PartitionOffset

StreamData ==
    IF \E t \in Threads : Answered(t)
    THEN call[CHOOSE t \in Threads : Answered(t)].data ELSE <<>>

Stream == INSTANCE ByteStream WITH
    Size <- DiskSize - PartitionOffset, Origin <- PartitionOffset,
    pos <- StreamPos, data <- StreamData

IsByteStream == Stream!Spec
=============================================================================
