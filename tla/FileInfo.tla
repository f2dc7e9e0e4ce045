------------------------------ MODULE FileInfo ------------------------------
(***************************************************************************)
(* What the driver tells Windows of a file: fill_file_info of driver.rs     *)
(* with its conversions.  Times come as signed nanoseconds since 1970 and   *)
(* leave as unsigned intervals since 1601; both, and sizes, are words.      *)
(***************************************************************************)
EXTENDS Integers

CONSTANTS
    Half,        \* 2^63: words are 0 .. 2 * Half - 1, times -Half .. Half - 1
    Epoch,       \* UNIX_EPOCH_IN_FILETIME, the intervals from 1601 to 1970
    Interval,    \* nanoseconds in an interval, 100
    Cluster      \* what an allocation is a multiple of, 4096

\* The values of the code meet these: 2^63 / 100 < 116444736000000000 < 2^63.
ASSUME FileInfoAssumption ==
    /\ Half \in Nat /\ Epoch \in Nat
    /\ Interval \in Nat \ {0} /\ Cluster \in Nat \ {0}
    /\ Half <= Epoch * Interval
    /\ Epoch + Half <= 2 * Half
    /\ (2 * Half) % Cluster = 0

Word == 2 * Half

Words == 0 .. Word - 1

Times == -Half .. Half - 1

\* Division of signed words rounds towards 0.
Quotient(n, d) == IF n >= 0 THEN n \div d ELSE -((-n) \div d)

\* Mutant of FileTime: the cast comes before the division.
FileTimeCastFirst(nanos) == (Epoch + ((nanos % Word) \div Interval)) % Word

\* apfs_time_to_filetime: a negative quotient is cast to a word, and the sum of
\* words wraps (in a release build; a debug build checks it and panics).
FileTime(nanos) == (Epoch + (Quotient(nanos, Interval) % Word)) % Word

\* (size + 4095) & !4095
Allocation(size) ==
    ((size + Cluster - 1) % Word) - (((size + Cluster - 1) % Word) % Cluster)

\* entry_kind_to_attributes
Attributes(kind) == IF kind = "directory" THEN "directory" ELSE "readonly"

\* fill_file_info.  The times of access, write and change are that of change.
FillFileInfo(kind, oid, size, created, modified) ==
    [attributes |-> Attributes(kind), index |-> oid,
     size |-> size, allocation |-> Allocation(size),
     created |-> FileTime(created), modified |-> FileTime(modified)]
-----------------------------------------------------------------------------
\* The file time that is not more than an interval from a time, on its side of 1970.
IsFileTime(t, nanos) ==
    /\ t \in Words
    /\ nanos >= 0 => (t - Epoch) * Interval \in (nanos - Interval + 1) .. nanos
    /\ nanos < 0 => (t - Epoch) * Interval \in nanos .. (nanos + Interval - 1)

\* The least multiple of Cluster that holds size bytes.
IsAllocation(a, size) == a % Cluster = 0 /\ a - size \in 0 .. Cluster - 1
=============================================================================
