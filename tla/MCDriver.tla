------------------------------ MODULE MCDriver ------------------------------
(* Driver on a volume of one directory with two files.  Words have 8 bits.  *)
EXTENDS Driver

MCListing == [root |-> <<"a", "b">>]

\* Times at both ends of their range, and around 1970; no size and some.
MCInodes ==
    [root |-> [oid |-> 2, size |-> 0, created |-> -7, modified |-> 0],
     a |-> [oid |-> 17, size |-> 5, created |-> -128, modified |-> 127],
     b |-> [oid |-> 18, size |-> 0, created |-> -1, modified |-> 14]]
=============================================================================
