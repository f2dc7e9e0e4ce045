-------------------------- MODULE MCDeviceWatcher --------------------------
(* DeviceWatcher with a bound on what is on its way at a time.              *)
EXTENDS DeviceWatcher

CONSTANT
    MaxNotes        \* bound: notifications raised, running or queued at a time

ASSUME NotesAssumption == MaxNotes \in Nat

Outstanding ==
    raised["ARRIVAL"] + raised["REMOVAL"] + raised["OTHER"]
    + running["ARRIVAL"] + running["REMOVAL"] + running["OTHER"] + Len(chan)

MCNext == Next /\ Outstanding' <= MaxNotes

MCFairSpec == Init /\ [][MCNext]_vars /\ Fairness
=============================================================================
