------------------------ MODULE DeviceWatcherProofs ------------------------
(***************************************************************************)
(* Safety of DeviceWatcher for any number of notifications: the Sender's    *)
(* box is not freed under a running callback, nor leaked.                   *)
(***************************************************************************)
EXTENDS DeviceWatcher, TLAPS

(***************************************************************************)
(* The inductive invariant.  ContextAlive alone is not inductive: that no   *)
(* callback is left when the box is freed rests on CallbacksDone, and that  *)
(* none starts later on the registration being over by then, so what can    *)
(* still be raised or running is tied to "watch".                           *)
(***************************************************************************)
OnlyWhileWatched ==
    /\ \A a \in Actions : raised[a] > 0 => watch = "registered"
    /\ \A a \in Actions : running[a] > 0 => watch \in {"registered", "unregistering"}

IInv == TypeOK /\ BoxFollowsRegistration /\ OnlyWhileWatched

\* What the callback sends for an action is a sequence of DeviceEvents.
LEMMA EventsOfType == \A a \in Actions : EventsOf(a) \in Seq(DeviceEvent)
<1> SUFFICES ASSUME NEW a \in Actions PROVE EventsOf(a) \in Seq(DeviceEvent)
  OBVIOUS
<1>1. /\ <<>> \in Seq(DeviceEvent)
      /\ <<"Added">> \in Seq(DeviceEvent)
      /\ <<"Removed">> \in Seq(DeviceEvent)
  BY DEF DeviceEvent
<1>2. EventsOf(a) \in {<<>>, <<"Added">>, <<"Removed">>}
  BY DEF EventsOf
<1> QED
  BY <1>1, <1>2

LEMMA InitIInv == Init => IInv
  BY DEF Init, IInv, TypeOK, BoxFollowsRegistration, OnlyWhileWatched, NoNotes,
         Actions, DeviceEvent

LEMMA NextIInv == IInv /\ [Next]_vars => IInv'
<1> SUFFICES ASSUME IInv, [Next]_vars PROVE IInv'
  OBVIOUS
<1> USE DEF IInv, TypeOK, BoxFollowsRegistration, OnlyWhileWatched
<1>1. CASE Register
  BY <1>1 DEF Register
<1>2. CASE RegisterFails
  BY <1>2 DEF RegisterFails
<1>3. ASSUME NEW a \in Actions, Raise(a) PROVE IInv'
  BY <1>3 DEF Raise
<1>4. ASSUME NEW a \in Actions, CallbackStart(a) PROVE IInv'
  BY <1>4 DEF CallbackStart
<1>5. ASSUME NEW a \in Actions, Callback(a) PROVE IInv'
  <2>1. chan' \in Seq(DeviceEvent)
    BY <1>5, EventsOfType DEF Callback
  <2>2. running' \in [Actions -> Nat]
    BY <1>5 DEF Callback
  <2>3. \A b \in Actions : running'[b] <= running[b]
    BY <1>5 DEF Callback
  <2> QED
    BY <1>5, <2>1, <2>2, <2>3 DEF Callback
<1>6. CASE Receive
  <2>1. chan' \in Seq(DeviceEvent)
    BY <1>6 DEF Receive
  <2> QED
    BY <1>6, <2>1 DEF Receive
<1>7. CASE Unregister
  BY <1>7 DEF Unregister, NoNotes
<1>8. CASE Reclaim
  BY <1>8 DEF Reclaim, CallbacksDone
<1>9. CASE UNCHANGED vars
  BY <1>9 DEF vars
<1> QED
  BY <1>1, <1>2, <1>3, <1>4, <1>5, <1>6, <1>7, <1>8, <1>9
  DEF Next, Deliver, Dropped

LEMMA Invariance == Spec => []IInv
  BY InitIInv, NextIInv, PTL DEF Spec

(***************************************************************************)
(* The variables keep their types; only DeviceEvents reach the channel.     *)
(***************************************************************************)
THEOREM TypeCorrect == Spec => []TypeOK
<1>1. IInv => TypeOK
  BY DEF IInv
<1> QED
  BY <1>1, Invariance, PTL

(***************************************************************************)
(* No callback ever dereferences a freed Sender, for any number of          *)
(* notifications: what the SAFETY comments of device_watcher.rs argue.      *)
(***************************************************************************)
THEOREM NoUseAfterFree == Spec => []ContextAlive
<1>1. IInv => ContextAlive
  BY DEF IInv, ContextAlive, OnlyWhileWatched, BoxFollowsRegistration
<1> QED
  BY <1>1, Invariance, PTL

(***************************************************************************)
(* The box of the Sender is live exactly as long as the registration.       *)
(***************************************************************************)
THEOREM NoLeak == Spec => []BoxFollowsRegistration
<1>1. IInv => BoxFollowsRegistration
  BY DEF IInv
<1> QED
  BY <1>1, Invariance, PTL
=============================================================================
