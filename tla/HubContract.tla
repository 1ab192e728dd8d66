------------------------------ MODULE HubContract ------------------------------
(***************************************************************************)
(* What internal/ws promises to whoever sends through it, with nothing of  *)
(* how it does it: a device has one line at most, and sending to a device  *)
(* is one step that puts a frame on the line the device has at that        *)
(* moment.  A line that is replaced or left is past: nothing is put on it  *)
(* any more, what it carries may still be delivered.  The process can end  *)
(* by a panic only while some line is past, and never by closing one       *)
(* twice.                                                                  *)
(*                                                                         *)
(* There are no pumps, locks, channels or goroutines here, and sending has *)
(* no two halves.  Hub shows that its lookup under the lock, the send      *)
(* after it and everything that may come in between amount to this.        *)
(***************************************************************************)
EXTENDS Naturals

CONSTANTS
  Device,
  Conn,    \* the names a line may have
  Buffer,  \* frames a line holds
  None

VARIABLES
  line,      \* the line of each device, None while it is offline
  admitted,  \* the device for which a line is being set up, None for the others
  load,      \* the frames on each line
  past,      \* the lines that were replaced or left and are not yet forgotten
  revoked,   \* the devices that are not admitted any more
  fate       \* why the process ended, None while it runs

vars == <<line, admitted, load, past, revoked, fate>>

Running == fate = None
Unused(k) == admitted[k] = None /\ k \notin past /\ \A d \in Device : line[d] # k

Init ==
  /\ line = [d \in Device |-> None]
  /\ admitted = [k \in Conn |-> None]
  /\ load = [k \in Conn |-> 0]
  /\ past = {}
  /\ revoked = {}
  /\ fate = None
--------------------------------------------------------------------------------
(* A device that is not revoked asks for a line, and gets it or not. *)
Admit(k, d) ==
  /\ Unused(k) /\ load[k] = 0
  /\ d \notin revoked
  /\ admitted' = [admitted EXCEPT ![k] = d]
  /\ UNCHANGED <<line, load, past, revoked, fate>>

TurnAway(k) ==
  /\ admitted[k] # None
  /\ admitted' = [admitted EXCEPT ![k] = None]
  /\ UNCHANGED <<line, load, past, revoked, fate>>

(* The line is up; the one the device had is past. *)
Attach(k) ==
  LET d == admitted[k] IN
  /\ d # None
  /\ line' = [line EXCEPT ![d] = k]
  /\ past' = past \cup ({line[d]} \ {None})
  /\ admitted' = [admitted EXCEPT ![k] = None]
  /\ UNCHANGED <<load, revoked, fate>>

(* A device leaves its line, and goes offline. *)
Detach(d) ==
  /\ line[d] # None
  /\ line' = [line EXCEPT ![d] = None]
  /\ past' = past \cup {line[d]}
  /\ UNCHANGED <<admitted, load, revoked, fate>>

(* A frame for d.  One that finds d offline or its line full changes        *)
(* nothing.                                                                 *)
Send(d) ==
  LET k == line[d] IN
  /\ k # None
  /\ load[k] < Buffer
  /\ load' = [load EXCEPT ![k] = @ + 1]
  /\ UNCHANGED <<line, admitted, past, revoked, fate>>

Deliver(k) ==
  /\ load[k] > 0
  /\ load' = [load EXCEPT ![k] = @ - 1]
  /\ UNCHANGED <<line, admitted, past, revoked, fate>>

(* A past line is forgotten, and what it carried is lost. *)
Release(k) ==
  /\ k \in past
  /\ past' = past \ {k}
  /\ load' = [load EXCEPT ![k] = 0]
  /\ UNCHANGED <<line, admitted, revoked, fate>>

Revoke(d) ==
  /\ revoked' = revoked \cup {d}
  /\ UNCHANGED <<line, admitted, load, past, fate>>

(* Something was to be put on a past line. *)
Die ==
  /\ past # {}
  /\ fate' \in {"send_to_device", "try_send"}
  /\ UNCHANGED <<line, admitted, load, past, revoked>>

Restart ==
  /\ line' = [d \in Device |-> None]
  /\ admitted' = [k \in Conn |-> None]
  /\ load' = [k \in Conn |-> 0]
  /\ past' = {}
  /\ fate' = None
  /\ UNCHANGED revoked

Next ==
  \/ /\ Running
     /\ \/ \E k \in Conn, d \in Device : Admit(k, d)
        \/ \E k \in Conn : TurnAway(k) \/ Attach(k) \/ Deliver(k) \/ Release(k)
        \/ \E d \in Device : Detach(d) \/ Send(d) \/ Revoke(d)
        \/ Die
  \/ Restart

Spec == Init /\ [][Next]_vars
================================================================================
