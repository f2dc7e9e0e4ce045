--------------------------- MODULE PhysicalDisks ---------------------------
(***************************************************************************)
(* The disks Windows exposes as \\.\PhysicalDrive0, \\.\PhysicalDrive1 ...  *)
(* This is the environment of ARFW: nothing here is code of the repository. *)
(* It is modelled from what the repository asks of it - a disk is opened by *)
(* its number (disk.rs, device_monitor.rs), and its partition table is read *)
(* through the handle.                                                      *)
(*                                                                         *)
(* A drive number is only a name.  Windows gives the number of a disk that  *)
(* was pulled out to the next disk that is plugged in, so each arrival gets *)
(* an identity of its own, and a handle is the identity of the arrival it   *)
(* was opened on: it works as long as that arrival is still in its slot.    *)
(***************************************************************************)
EXTENDS Integers

CONSTANTS
    NDisks,         \* drive numbers are 0 .. NDisks-1 (100 in device_monitor.rs)
    PartNumbers,    \* GPT partition numbers
    Offsets,        \* byte offsets at which a partition starts
    Layouts,        \* what disks come with: a partition table, and the volumes
    MaxArrivals     \* bound: how many times a disk is plugged in

ASSUME DisksAssumption ==
    /\ NDisks \in Nat
    /\ Layouts \subseteq [table : UNION { [S -> Offsets] : S \in SUBSET PartNumbers },
                          volumes : SUBSET Offsets]
    /\ MaxArrivals \in Nat

VARIABLES
    slot,           \* slot[d]: the disk that has drive number d now
    arrivals        \* how many disks were ever plugged in

diskVars == <<slot, arrivals>>

Disks == 0 .. NDisks - 1

(***************************************************************************)
(* The disk with identity "id" (0 is the empty slot).  Of its GPT only the  *)
(* entries with the APFS partition type matter: table[n] is the offset of   *)
(* the partition with the number n.  At the offsets in "volumes" there is   *)
(* an APFS container that can be opened.  Table and containers need not     *)
(* agree: a partition may be unformatted, and a container may be left over  *)
(* where the disk had a partition once.                                    *)
(***************************************************************************)
NoTable == [n \in {} |-> 0]

Disk == [id : Nat, table : { c.table : c \in Layouts } \cup {NoTable},
         volumes : SUBSET Offsets]

NoDisk == [id |-> 0, table |-> NoTable, volumes |-> {}]

Present(d) == slot[d].id # 0

DisksTypeOK ==
    /\ slot \in [Disks -> Disk]
    /\ arrivals \in Nat

DisksInit ==
    /\ slot = [d \in Disks |-> NoDisk]
    /\ arrivals = 0

\* A disk with the layout c arrives and is given the number d.
Plug(d, c) ==
    /\ ~Present(d)
    /\ arrivals < MaxArrivals
    /\ arrivals' = arrivals + 1
    /\ slot' = [slot EXCEPT ![d] =
                  [id |-> arrivals + 1, table |-> c.table, volumes |-> c.volumes]]

\* The disk with number d is pulled out; every handle on it is dead from now on.
Unplug(d) ==
    /\ Present(d)
    /\ slot' = [slot EXCEPT ![d] = NoDisk]
    /\ UNCHANGED arrivals
=============================================================================
