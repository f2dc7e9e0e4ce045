----------------------------- MODULE ByteStream -----------------------------
(***************************************************************************)
(* What std::io::{Read, Seek} promise of a stream and what the APFS library *)
(* relies on: from a known position a read returns the bytes that lie       *)
(* there, in order and without a gap, and advances the position by as many; *)
(* after an error the position is unspecified.                             *)
(***************************************************************************)
EXTENDS Integers, Sequences

CONSTANTS
    Size,           \* the bytes of the stream are 0 .. Size - 1
    Origin          \* where the stream begins on the disk

VARIABLES
    pos,            \* the stream's position; it may lie outside of the stream
    data            \* what the last read returned, until the caller takes it

vars == <<pos, data>>

Init ==
    /\ pos \in Int
    /\ data = <<>>

SeekTo ==
    /\ pos' \in Nat
    /\ UNCHANGED data

\* A read may return less than was asked for, and nothing at the end only.
ReadSome ==
    /\ data = <<>>
    /\ pos' > pos
    /\ data' = [i \in 1 .. pos' - pos |-> Origin + pos + i - 1]
    /\ pos' <= Size

ReadNothing ==
    /\ pos >= Size
    /\ UNCHANGED vars

Take ==
    /\ data' = <<>>
    /\ UNCHANGED pos

Fail ==
    /\ pos' \in Int
    /\ UNCHANGED data

Next == SeekTo \/ ReadSome \/ ReadNothing \/ Take \/ Fail

Spec == Init /\ [][Next]_vars
=============================================================================
