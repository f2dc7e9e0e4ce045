------------------------------ MODULE Extents ------------------------------
(***************************************************************************)
(* Where the bytes of a file lie: the extent map that stat_and_extents      *)
(* (vendor/apfs/src/lib.rs) builds from the extent records of the catalog,  *)
(* and the two functions by which ApfsDriver::read (driver.rs) searches it. *)
(*                                                                         *)
(* A byte of the disk is named by its place on the disk, so that a byte     *)
(* that was read tells where it came from.                                 *)
(***************************************************************************)
EXTENDS Integers, Sequences

CONSTANTS
    Files,          \* the files that are open
    Records,        \* Records[f]: the extent records of f, in catalog order
    FileSize,       \* FileSize[f]: the logical size of the inode
    BlockSize,      \* the container's block size
    PartitionOffset \* where the partition begins on the disk

(* A record: the logical address it is for, its length, its first block.    *)
Record == [addr : Nat, len : Nat, block : Nat]

ASSUME ExtentsAssumption ==
    /\ Records \in [Files -> Seq(Record)]
    /\ FileSize \in [Files -> Nat]
    /\ BlockSize \in Nat \ {0}
    /\ PartitionOffset \in Nat

(***************************************************************************)
(* logical_offset as the loop of stat_and_extents has it before the record  *)
(* i: the lengths of the records so far.  The records' own addresses are    *)
(* not looked at.                                                          *)
(***************************************************************************)
LogicalOffset(f) ==
    LET sum[i \in Nat] ==
            IF i <= 1 THEN 0 ELSE sum[i - 1] + Records[f][i - 1].len
    IN  sum

(* extent_map: records of length 0 are left out.                            *)
ExtentMap(f) ==
    { [log |-> LogicalOffset(f)[i], len |-> Records[f][i].len,
       phys |-> Records[f][i].block * BlockSize] :
      i \in { j \in DOMAIN Records[f] : Records[f][j].len # 0 } }

Covers(e, logical) == e.log <= logical /\ logical < e.log + e.len

Mapped(f, logical) == \E e \in ExtentMap(f) : Covers(e, logical)

ExtentAt(f, logical) == CHOOSE e \in ExtentMap(f) : Covers(e, logical)

(* ApfsDriver::logical_to_physical, where it answers Some.                  *)
LogicalToPhysical(f, logical) ==
    LET e == ExtentAt(f, logical) IN e.phys + (logical - e.log)

\* Mutant of ExtentRemaining: the length of the whole extent.
ExtentRemainingWhole(f, logical) == ExtentAt(f, logical).len

(* ApfsDriver::extent_remaining, where it does not answer 0.                *)
ExtentRemaining(f, logical) ==
    LET e == ExtentAt(f, logical) IN (e.log + e.len) - logical
-----------------------------------------------------------------------------
(***************************************************************************)
(* What the records mean: byte l of the file lies in the record whose       *)
(* addresses l is among.                                                   *)
(***************************************************************************)
Holds(r, l) == r.addr <= l /\ l < r.addr + r.len

IsByteOf(f, l, place) ==
    \E i \in DOMAIN Records[f] :
        /\ Holds(Records[f][i], l)
        /\ place = PartitionOffset + Records[f][i].block * BlockSize
                                   + (l - Records[f][i].addr)

(***************************************************************************)
(* The files the code is written for: the records follow each other without *)
(* a gap from address 0, and none is a hole (which APFS records as an       *)
(* extent with the block number 0).                                        *)
(***************************************************************************)
Dense(f) ==
    \A i \in DOMAIN Records[f] :
        /\ Records[f][i].addr = LogicalOffset(f)[i]
        /\ Records[f][i].block # 0

(* Every byte of the file, up to its size, has a record.                    *)
Complete(f) == \A l \in 0 .. FileSize[f] - 1 : Mapped(f, l)
=============================================================================
