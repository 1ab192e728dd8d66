------------------------------ MODULE PushContract -----------------------------
(***************************************************************************)
(* What the announcement of an OTP is to whoever asks for it: a call that  *)
(* stores the OTP, draws up a list of destinations, asks the push service  *)
(* of each of them once, in any order, and returns when all were asked,    *)
(* with exactly the subscriptions that no longer exist.  Nobody is told    *)
(* before the OTP is stored, nor after the call has returned.              *)
(*                                                                         *)
(* There are no goroutines here, no channel and no counting of results.    *)
(* PushFanout shows that Broadcast's way of waiting amounts to this.       *)
(***************************************************************************)
CONSTANTS
  Device,
  Sub,   \* push subscriptions
  Otp,
  None

VARIABLES
  devices,  \* the registered devices and their subscriptions
  live,     \* the subscriptions that exist
  stored,   \* the OTPs that can be claimed
  phase,    \* where the call for each OTP stands
  due,      \* the destinations on its list
  asked,    \* those of them whose service has been asked
  told,     \* those of them that got the signal
  missed,   \* those of them whose subscription was found not to exist
  report    \* what the call returned

vars == <<devices, live, stored, phase, due, asked, told, missed, report>>

Nobody == [o \in Otp |-> {}]

Init ==
  /\ devices = [d \in Device |-> [state |-> "absent", sub |-> None]]
  /\ live = Sub
  /\ stored = {}
  /\ phase = [o \in Otp |-> "idle"]
  /\ due = Nobody /\ asked = Nobody /\ told = Nobody /\ missed = Nobody
  /\ report = Nobody
--------------------------------------------------------------------------------
(* The world around the call: it stops for none of these. *)
Enrol(d, s) ==
  /\ devices[d].state = "absent"
  /\ devices' = [devices EXCEPT ![d] = [state |-> "active", sub |-> s]]
  /\ UNCHANGED <<live, stored, phase, due, asked, told, missed, report>>

Revoke(d) ==
  /\ devices[d].state # "absent"
  /\ devices' = [devices EXCEPT ![d].state = "revoked"]
  /\ UNCHANGED <<live, stored, phase, due, asked, told, missed, report>>

Drop(s) ==
  /\ live' = live \ {s}
  /\ UNCHANGED <<devices, stored, phase, due, asked, told, missed, report>>

Store(o) ==
  /\ phase[o] = "idle"
  /\ stored' = stored \cup {o}
  /\ phase' = [phase EXCEPT ![o] = "stored"]
  /\ UNCHANGED <<devices, live, due, asked, told, missed, report>>

(* The list: every active device with a subscription. *)
Draw(o) ==
  /\ phase[o] = "stored"
  /\ phase' = [phase EXCEPT ![o] = "sending"]
  /\ due' = [due EXCEPT
       ![o] = {d \in Device : devices[d].state = "active" /\ devices[d].sub # None}]
  /\ UNCHANGED <<devices, live, stored, asked, told, missed, report>>

(* There is no list, and the call is over. *)
Skip(o) ==
  /\ phase[o] = "stored"
  /\ phase' = [phase EXCEPT ![o] = "returned"]
  /\ UNCHANGED <<devices, live, stored, due, asked, told, missed, report>>

(* The service of d is asked: it delivers, knows no such subscription, or   *)
(* fails in some other way.                                                 *)
Ask(o, d) ==
  /\ phase[o] = "sending"
  /\ o \in stored
  /\ d \in due[o] \ asked[o]
  /\ asked' = [asked EXCEPT ![o] = @ \cup {d}]
  /\ \/ /\ devices[d].sub \in live
        /\ told' = [told EXCEPT ![o] = @ \cup {d}]
        /\ UNCHANGED missed
     \/ /\ devices[d].sub \notin live
        /\ missed' = [missed EXCEPT ![o] = @ \cup {d}]
        /\ UNCHANGED told
     \/ UNCHANGED <<told, missed>>
  /\ UNCHANGED <<devices, live, stored, phase, due, report>>

Return(o) ==
  /\ phase[o] = "sending"
  /\ asked[o] = due[o]
  /\ phase' = [phase EXCEPT ![o] = "returned"]
  /\ report' = [report EXCEPT ![o] = {devices[d].sub : d \in missed[o]}]
  /\ UNCHANGED <<devices, live, stored, due, asked, told, missed>>

Next ==
  \/ \E d \in Device : Revoke(d) \/ \E s \in Sub \cup {None} : Enrol(d, s)
  \/ \E s \in Sub : Drop(s)
  \/ \E o \in Otp : Store(o) \/ Draw(o) \/ Skip(o) \/ Return(o) \/ \E d \in Device : Ask(o, d)

Spec == Init /\ [][Next]_vars
================================================================================
