----------------------------- MODULE MCFileRead -----------------------------
(* FileRead on a disk of seven sectors, with a partition from the second on. *)
EXTENDS FileRead

R(addr, len, block) == [addr |-> addr, len |-> len, block |-> block]

\* Two extents in the opposite order on the disk, with an empty record between;
\* a file whose second extent lies behind the end of the disk; one with a gap in
\* its addresses and no extent for its end.
MCFiles == {"dense", "truncated", "sparse"}

MCRecords ==
    [dense |-> <<R(0, 4, 2), R(4, 0, 3), R(4, 4, 1)>>,
     truncated |-> <<R(0, 4, 1), R(4, 4, 3)>>,
     sparse |-> <<R(0, 4, 1), R(8, 4, 2)>>]

MCFileSize == [dense |-> 7, truncated |-> 8, sparse |-> 12]

\* Over an edge of sectors and of extents to the end of the file; a byte
\* beyond the end of the first file, at the end of the second, in the gap of the
\* third.
MCRanges == { <<3, 20>>, <<8, 1>> }

\* A block; one after another, of which the second is cut off by the disk's end.
MCBlockLists == { <<0>>, <<2, 3>> }

MCStartOf == [volume |-> 1, raw |-> 0]
=============================================================================
