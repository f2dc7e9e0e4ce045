----------------------------- MODULE DiskReader -----------------------------
(***************************************************************************)
(* DiskReader (src/src/disk.rs): a handle on a raw disk, which is read in   *)
(* whole sectors and has one file pointer.  Each call of Windows is a step, *)
(* since all users of a handle share its pointer, and each may fail.  This  *)
(* module has the steps; the modules that use a handle decide who takes     *)
(* them when.                                                              *)
(***************************************************************************)
EXTENDS Integers, Sequences

CONSTANTS
    Threads,        \* the threads that call
    Handles,        \* the open handles
    DiskSize,       \* bytes on the disk
    SectorSize,     \* SECTOR_SIZE
    StartOf         \* StartOf[h]: the field "offset" of the DiskReader

ASSUME DiskReaderAssumption ==
    /\ DiskSize \in Nat
    /\ SectorSize \in Nat \ {0}
    /\ StartOf \in [Handles -> Nat]

VARIABLES
    pointer,        \* pointer[h]: the file pointer of the handle
    call            \* call[t]: the call of a method that t is in

readerVars == <<pointer, call>>

(***************************************************************************)
(* "query", "align", "transfer", "restore" are before the four calls of     *)
(* Windows in Read::read; read_at_absolute has the two in the middle only,  *)
(* and seek has "move".                                                    *)
(***************************************************************************)
Stages == {"none", "query", "align", "transfer", "restore", "move",
           "done", "failed"}

Methods == {"read", "read_at_absolute", "seek"}

Call == [stage : Stages, method : Methods, handle : Handles, pos : Nat,
         len : Nat, data : Seq(Nat)]

ReaderTypeOK ==
    /\ pointer \in [Handles -> Nat]
    /\ call \in [Threads -> Call]

NoCall == [stage |-> "none", method |-> "seek",
           handle |-> CHOOSE h \in Handles : TRUE,
           pos |-> 0, len |-> 0, data |-> <<>>]

\* open_with_offset leaves the pointer where CreateFileA puts it: at the start of
\* the disk, which is not the start of the partition.
ReaderInit ==
    /\ pointer = [h \in Handles |-> 0]
    /\ call = [t \in Threads |-> NoCall]

Lesser(a, b) == IF a <= b THEN a ELSE b

(* n bytes of the disk from a place on, each named by its place.            *)
Bytes(place, n) == [i \in 1 .. n |-> place + i - 1]

(* sector_offset, aligned_pos (or aligned_offset), aligned_len.             *)
SectorOffset(pos) == pos % SectorSize
AlignedPos(pos) == pos - SectorOffset(pos)
AlignedLen(pos, len) ==
    ((SectorOffset(pos) + len + SectorSize - 1) \div SectorSize) * SectorSize

-----------------------------------------------------------------------------
Calls(t, method, stage, h, pos, len) ==
    /\ call[t].stage = "none"
    /\ call' = [call EXCEPT ![t] =
           [stage |-> stage, method |-> method, handle |-> h, pos |-> pos,
            len |-> len, data |-> <<>>]]
    /\ UNCHANGED pointer

\* Read::read: where to read from is what the pointer says.
Read(t, h, len) ==
    Calls(t, "read", IF len = 0 THEN "done" ELSE "query", h, 0, len)

\* read_at_absolute: a place on the disk, not in the partition.
ReadAtAbsolute(t, h, pos, len) ==
    Calls(t, "read_at_absolute", IF len = 0 THEN "done" ELSE "align", h, pos, len)

\* Seek::seek with SeekFrom::Start, from the start of the partition.
SeekStart(t, h, n) == Calls(t, "seek", "move", h, StartOf[h] + n, 0)

In(t, stage) == call[t].stage = stage

Goes(t, stage) == call' = [call EXCEPT ![t].stage = stage]

Moves(t, place) == pointer' = [pointer EXCEPT ![call[t].handle] = place]

\* SetFilePointerEx(0, FILE_CURRENT) asks for the position.
Query(t) ==
    /\ In(t, "query")
    /\ call' = [call EXCEPT ![t].stage = "align",
                            ![t].pos = pointer[call[t].handle]]
    /\ UNCHANGED pointer

Align(t) ==
    /\ In(t, "align")
    /\ Moves(t, AlignedPos(call[t].pos))
    /\ Goes(t, "transfer")

\* ReadFile from wherever the pointer is, into tmp; what was asked for is copied
\* from behind sector_offset.
Transfer(t) ==
    /\ In(t, "transfer")
    /\ LET c == call[t]
           from == pointer[c.handle]
           left == IF from <= DiskSize THEN DiskSize - from ELSE 0
           read == Lesser(AlignedLen(c.pos, c.len), left)
           available == IF read <= SectorOffset(c.pos) THEN 0
                        ELSE read - SectorOffset(c.pos)
       IN  /\ Moves(t, from + read)
           /\ call' = [call EXCEPT
                  ![t].data = Bytes(from + SectorOffset(c.pos),
                                    Lesser(available, c.len)),
                  ![t].stage = IF c.method = "read" THEN "restore" ELSE "done"]

\* Mutant of Restore: the pointer stays behind the last whole sector.
RestoreForgotten(t) ==
    /\ In(t, "restore")
    /\ Goes(t, "done")
    /\ UNCHANGED pointer

Restore(t) ==
    /\ In(t, "restore")
    /\ Moves(t, call[t].pos + Len(call[t].data))
    /\ Goes(t, "done")

Move(t) ==
    /\ In(t, "move")
    /\ Moves(t, call[t].pos)
    /\ Goes(t, "done")

\* A call of Windows fails, and the method returns at once with its error.
WindowsFails(t) ==
    /\ call[t].stage \in {"query", "align", "transfer", "restore", "move"}
    /\ call' = [call EXCEPT ![t].stage = "failed", ![t].data = <<>>]
    /\ UNCHANGED pointer

ReaderStep(t) ==
    \/ Query(t) \/ Align(t) \/ Transfer(t) \/ Restore(t) \/ Move(t)

\* The caller has taken the answer.
Taken(t) ==
    /\ call' = [call EXCEPT ![t] = NoCall]
    /\ UNCHANGED pointer
=============================================================================
