--------------------------- MODULE DeviceWatcher ---------------------------
(***************************************************************************)
(* DeviceWatcher (src/src/device_watcher.rs): a registration with the       *)
(* Windows configuration manager (CM) whose callback, run on threads of the *)
(* operating system, turns device notifications into DeviceEvents on a      *)
(* channel.  The callback reaches the channel's Sender through a raw        *)
(* pointer to a heap box; who may free that box, and when, is what this     *)
(* module is about.                                                        *)
(***************************************************************************)
EXTENDS Naturals, Sequences, SequencesExt

VARIABLES
    watch,          \* the registration: unborn, registered, unregistering, dropped
    box,            \* the boxed Sender behind sender_ptr: none, live, freed
    raised,         \* raised[a]: notifications of action a CM has yet to dispatch
    running,        \* running[a]: callbacks now executing for action a
    chan            \* the crossbeam channel: DeviceEvents in the order sent

vars == <<watch, box, raised, running, chan>>

(* CM_NOTIFY_ACTION_DEVICEINTERFACEARRIVAL, ..._REMOVAL and any other action *)
Actions == {"ARRIVAL", "REMOVAL", "OTHER"}

DeviceEvent == {"Added", "Removed"}

\* Mutant of EventsOf: arrivals fall into the arm for unknown actions.
EventsOfForgetsArrival(a) == IF a = "REMOVAL" THEN <<"Removed">> ELSE <<>>

(***************************************************************************)
(* What the callback sends for an action: nothing for one it does not know. *)
(***************************************************************************)
EventsOf(a) ==
    CASE a = "ARRIVAL" -> <<"Added">>
      [] a = "REMOVAL" -> <<"Removed">>
      [] OTHER         -> <<>>

TypeOK ==
    /\ watch \in {"unborn", "registered", "unregistering", "dropped"}
    /\ box \in {"none", "live", "freed"}
    /\ raised \in [Actions -> Nat]
    /\ running \in [Actions -> Nat]
    /\ chan \in Seq(DeviceEvent)

NoNotes == [a \in Actions |-> 0]

Init ==
    /\ watch = "unborn"
    /\ box = "none"
    /\ raised = NoNotes
    /\ running = NoNotes
    /\ chan = <<>>
-----------------------------------------------------------------------------
\* DeviceWatcher::new: box the Sender, register the callback with the pointer.
Register ==
    /\ watch = "unborn"
    /\ watch' = "registered"
    /\ box' = "live"
    /\ UNCHANGED <<raised, running, chan>>

\* Mutant of RegisterFails: new() bails out and leaves the box behind.
RegisterFailsLeaks ==
    /\ watch = "unborn"
    /\ watch' = "dropped"
    /\ box' = "live"
    /\ UNCHANGED <<raised, running, chan>>

\* CM_Register_Notification fails: the box is reclaimed and new() returns Err.
RegisterFails ==
    /\ watch = "unborn"
    /\ watch' = "dropped"
    /\ box' = "freed"
    /\ UNCHANGED <<raised, running, chan>>

\* CM notices a device change.  Only a registered client is notified.
Raise(a) ==
    /\ raised' = IF watch = "registered"
                 THEN [raised EXCEPT ![a] = @ + 1] ELSE raised
    /\ UNCHANGED <<watch, box, running, chan>>

\* CM starts the callback on one of its threads, in no particular order.
CallbackStart(a) ==
    /\ watch = "registered"
    /\ raised[a] > 0
    /\ raised' = [raised EXCEPT ![a] = @ - 1]
    /\ running' = [running EXCEPT ![a] = @ + 1]
    /\ UNCHANGED <<watch, box, chan>>

\* Mutant of Callback: the channel has room for one event and send() waits for it.
CallbackIntoBounded(a) ==
    /\ running[a] > 0
    /\ chan = <<>>
    /\ running' = [running EXCEPT ![a] = @ - 1]
    /\ chan' = chan \o EventsOf(a)
    /\ UNCHANGED <<watch, box, raised>>

\* callback: dereference the context, send the event (the channel is
\* unbounded, so this never blocks) and return.
Callback(a) ==
    /\ running[a] > 0
    /\ running' = [running EXCEPT ![a] = @ - 1]
    /\ chan' = chan \o EventsOf(a)
    /\ UNCHANGED <<watch, box, raised>>

\* The owner of the receiving end takes the oldest event.
Receive ==
    /\ chan # <<>>
    /\ chan' = Tail(chan)
    /\ UNCHANGED <<watch, box, raised, running>>

\* Mutant of Unregister: the box is freed before CM_Unregister_Notification is called.
UnregisterAfterFree ==
    /\ watch = "registered"
    /\ watch' = "unregistering"
    /\ raised' = NoNotes
    /\ box' = "freed"
    /\ UNCHANGED <<running, chan>>

\* Drop, first half: CM_Unregister_Notification is called.  CM starts no
\* callback from here on; notifications it has not dispatched are discarded.
\* Drop ignores what the call returns (device_watcher.rs:122): it is taken to
\* succeed, as it does with the handle that new() was given and nobody else closes.
Unregister ==
    /\ watch = "registered"
    /\ watch' = "unregistering"
    /\ raised' = NoNotes
    /\ UNCHANGED <<box, running, chan>>

\* No callback is executing: CM_Unregister_Notification may return.
CallbacksDone == \A a \in Actions : running[a] = 0

\* Drop, second half: the call has returned, the Sender's box is freed.
Reclaim ==
    /\ watch = "unregistering"
    /\ CallbacksDone
    /\ watch' = "dropped"
    /\ box' = "freed"
    /\ UNCHANGED <<raised, running, chan>>
-----------------------------------------------------------------------------
\* The watcher's own steps, and those of CM on its behalf.
Deliver == \E a \in Actions : CallbackStart(a) \/ Callback(a)

\* After the drop nothing is left to happen.
Dropped == watch = "dropped" /\ UNCHANGED vars

Next ==
    \/ Register
    \/ RegisterFails
    \/ \E a \in Actions : Raise(a)
    \/ Deliver
    \/ Receive
    \/ Unregister
    \/ Reclaim
    \/ Dropped

\* CM runs the callbacks it owes, a callback returns, and Drop goes on when
\* CM_Unregister_Notification does.  Nobody has to receive, raise or drop.
Fairness ==
    /\ WF_vars(Reclaim)
    /\ \A a \in Actions : WF_vars(CallbackStart(a)) /\ WF_vars(Callback(a))

Spec == Init /\ [][Next]_vars

FairSpec == Spec /\ Fairness
-----------------------------------------------------------------------------
(***************************************************************************)
(* A callback that is executing dereferences sender_ptr, so the box must be *)
(* live as long as one is.  This is what the SAFETY comments of new(),      *)
(* callback() and drop() argue: free only after CM_Unregister_Notification  *)
(* returned.                                                               *)
(***************************************************************************)
ContextAlive == (\E a \in Actions : running[a] > 0) => box = "live"

(***************************************************************************)
(* The box is live exactly while a registration exists that could still use *)
(* it: it is neither leaked after the drop nor freed under a registration,  *)
(* on the failure path of new() and on the drop path alike.                 *)
(***************************************************************************)
BoxFollowsRegistration ==
    box = "live" <=> watch \in {"registered", "unregistering"}

(***************************************************************************)
(* Drop returns even if nobody receives any more: CM_Unregister waits for   *)
(* the callbacks, and those only wait for room in the channel, which an     *)
(* unbounded channel always has.                                           *)
(***************************************************************************)
DropTerminates == watch = "unregistering" ~> watch = "dropped"

(***************************************************************************)
(* A disk arrival that CM has raised becomes an Added event on the channel, *)
(* whatever other notifications are dispatched around it, unless the        *)
(* watcher is dropped first.                                               *)
(***************************************************************************)
ArrivalsAreReported ==
    raised["ARRIVAL"] + running["ARRIVAL"] > 0
        ~> "Added" \in ToSet(chan) \/ watch = "dropped"
=============================================================================
