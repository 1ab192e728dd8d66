------------------------------- MODULE PushFanout ------------------------------
(***************************************************************************)
(* The announcement of an OTP: claim.Ingest stores the row, dispatchPush   *)
(* lists the active destinations, and push.Broadcast runs one Notify       *)
(* goroutine per subscription and waits for all of them.                   *)
(*                                                                         *)
(* dispatchPush is called, not started: the source's HTTP handler, or the  *)
(* read pump of its WebSocket, is inside Ingest until Broadcast returns,   *)
(* and a Notify has no deadline.  Devices are registered and revoked, and  *)
(* browsers unsubscribe, while all this goes on.                           *)
(*                                                                         *)
(* An entry of the subscription list, its goroutine and its result are     *)
(* named by the device the entry came from: two devices may have the same  *)
(* subscription, but a device has one entry.                               *)
(***************************************************************************)
EXTENDS Naturals, FiniteSets

CONSTANTS
  Device,  \* destination devices
  Sub,     \* push subscriptions
  Otp,     \* one per Ingest
  Deaf,    \* subscriptions whose push service accepts and never answers
  None

ASSUME PushAssumption ==
  /\ IsFiniteSet(Device)
  /\ Deaf \subseteq Sub
  /\ None \notin Sub

VARIABLES
  devices,  \* the devices table
  live,     \* the subscriptions the browsers still hold
  otps,     \* the ids that have a row
  ingest,   \* the Ingest call of each OTP
  heard,    \* history: devices that were sent the signal of the OTP
  barred    \* history: devices already revoked when the OTP was stored

vars == <<devices, live, otps, ingest, heard, barred>>

Row == [state : {"absent", "active", "revoked"}, sub : Sub \cup {None}]

(* sub: the subscription list; result: what became of each goroutine;       *)
(* taken: the results received from the channel; dead: deadSubs.            *)
Ingestion == [pc : {"idle", "stored", "sending", "returned"},
              sub : [Device -> Sub \cup {None}],
              result : [Device -> {"none", "posting", "kept", "gone"}],
              taken : SUBSET Device,
              dead : SUBSET Sub]

TypeOK ==
  /\ devices \in [Device -> Row]
  /\ live \in SUBSET Sub
  /\ otps \in SUBSET Otp
  /\ ingest \in [Otp -> Ingestion]
  /\ heard \in [Otp -> SUBSET Device]
  /\ barred \in [Otp -> SUBSET Device]

Idle == [pc |-> "idle", sub |-> [d \in Device |-> None],
         result |-> [d \in Device |-> "none"], taken |-> {}, dead |-> {}]

Init ==
  /\ devices = [d \in Device |-> [state |-> "absent", sub |-> None]]
  /\ live = Sub
  /\ otps = {}
  /\ ingest = [o \in Otp |-> Idle]
  /\ heard = [o \in Otp |-> {}]
  /\ barred = [o \in Otp |-> {}]

Revoked == {d \in Device : devices[d].state = "revoked"}
Listed(o) == {d \in Device : ingest[o].sub[d] # None}
-------------------------------------------------------------------------------
(* Registry.Register of a destination, with or without a subscription. *)
Register(d, s) ==
  /\ devices[d].state = "absent"
  /\ devices' = [devices EXCEPT ![d] = [state |-> "active", sub |-> s]]
  /\ UNCHANGED <<live, otps, ingest, heard, barred>>

(* Registry.Revoke.  Nothing else is told. *)
Revoke(d) ==
  /\ devices[d].state # "absent"
  /\ devices' = [devices EXCEPT ![d].state = "revoked"]
  /\ UNCHANGED <<live, otps, ingest, heard, barred>>

(* A browser drops its subscription. *)
Unsubscribe(s) ==
  /\ s \in live
  /\ live' = live \ {s}
  /\ UNCHANGED <<devices, otps, ingest, heard, barred>>
-------------------------------------------------------------------------------
(* Ingest's INSERT; if it fails, Ingest returns and there is no OTP.        *)
(* Mutant: the error is not looked at.                                      *)
StoreUnchecked(o) ==
  /\ ingest[o].pc = "idle"
  /\ otps' \in {otps, otps \cup {o}}
  /\ barred' = [barred EXCEPT ![o] = Revoked]
  /\ ingest' = [ingest EXCEPT ![o].pc = "stored"]
  /\ UNCHANGED <<devices, live, heard>>

Store(o) ==
  /\ ingest[o].pc = "idle"
  /\ otps' = otps \cup {o}
  /\ barred' = [barred EXCEPT ![o] = Revoked]
  /\ ingest' = [ingest EXCEPT ![o].pc = "stored"]
  /\ UNCHANGED <<devices, live, heard>>

(* db.ListPushTargets and the nil check after it.  Mutants: the revoked     *)
(* column is not in the WHERE; push_sub is not looked at.                   *)
ActiveDevices == {d \in Device : devices[d].state = "active"}
AllPushTargets == {d \in Device : devices[d].state # "absent" /\ devices[d].sub # None}
PushTargets == {d \in Device : devices[d].state = "active" /\ devices[d].sub # None}

(* dispatchPush up to the goroutines that Broadcast starts. *)
Fan(o) ==
  /\ ingest[o].pc = "stored"
  /\ PushTargets # {}
  /\ ingest' = [ingest EXCEPT
       ![o].pc = "sending",
       ![o].sub = [d \in Device |-> IF d \in PushTargets THEN devices[d].sub ELSE None],
       ![o].result = [d \in Device |-> IF d \in PushTargets THEN "posting" ELSE "none"]]
  /\ UNCHANGED <<devices, live, otps, heard, barred>>

(* There is nobody to tell, or the query failed: logged, no more. *)
FanNobody(o) ==
  /\ ingest[o].pc = "stored"
  /\ ingest' = [ingest EXCEPT ![o].pc = "returned"]
  /\ UNCHANGED <<devices, live, otps, heard, barred>>

(* One Notify goroutine gets its answer and puts it in the channel, which   *)
(* has room for everybody's.  A 404 or 410 means gone; any other failure,   *)
(* of parsing, sending or of the service, is logged and counts as kept.     *)
(* Mutants: the notifications go out one after the other; any failure       *)
(* counts as gone.                                                          *)
Answer(o, d, what, to) ==
  /\ ingest[o].result[d] = "posting"
  /\ ingest' = [ingest EXCEPT ![o].result[d] = what]
  /\ heard' = [heard EXCEPT ![o] = @ \cup to]
  /\ UNCHANGED <<devices, live, otps, barred>>

NotifyInTurn(o, d) ==
  /\ ingest[o].result[d] = "posting"
  /\ d = CHOOSE e \in Device : ingest[o].result[e] = "posting"
  /\ \/ ingest[o].sub[d] \in live /\ Answer(o, d, "kept", {d})
     \/ ingest[o].sub[d] \notin live /\ Answer(o, d, "gone", {})
     \/ Answer(o, d, "kept", {})

Notify(o, d) ==
  \/ ingest[o].sub[d] \in live /\ Answer(o, d, "kept", {d})
  \/ ingest[o].sub[d] \notin live /\ Answer(o, d, "gone", {})
  \/ Answer(o, d, "kept", {})

(* The results that are in the channel. *)
Queued(o) == {d \in Device : ingest[o].result[d] \in {"kept", "gone"}} \ ingest[o].taken

(* How many results Broadcast waits for.  Mutants: one for every different  *)
(* subscription; one for every device.                                      *)
Distinct(o) == Cardinality({ingest[o].sub[d] : d \in Listed(o)})
Everybody(o) == Cardinality(Device)
Expected(o) == Cardinality(Listed(o))

(* Broadcast receives one of them. *)
Receive(o, d) ==
  /\ ingest[o].pc = "sending"
  /\ Cardinality(ingest[o].taken) < Expected(o)
  /\ d \in Queued(o)
  /\ ingest' = [ingest EXCEPT
       ![o].taken = @ \cup {d},
       ![o].dead = IF ingest[o].result[d] = "gone" THEN @ \cup {ingest[o].sub[d]} ELSE @]
  /\ UNCHANGED <<devices, live, otps, heard, barred>>

(* It has them all and returns, and so do dispatchPush, which only logs how *)
(* many subscriptions are dead, and Ingest.                                 *)
Finish(o) ==
  /\ ingest[o].pc = "sending"
  /\ Cardinality(ingest[o].taken) = Expected(o)
  /\ ingest' = [ingest EXCEPT ![o].pc = "returned"]
  /\ UNCHANGED <<devices, live, otps, heard, barred>>

Collector(o) ==
  \/ Fan(o) \/ FanNobody(o) \/ (\E d \in Device : Receive(o, d)) \/ Finish(o)

Next ==
  \/ \E d \in Device : Revoke(d) \/ \E s \in Sub \cup {None} : Register(d, s)
  \/ \E s \in Sub : Unsubscribe(s)
  \/ \E o \in Otp : Store(o) \/ Collector(o) \/ \E d \in Device : Notify(o, d)

Spec == Init /\ [][Next]_vars

(* Goroutines are scheduled, and a push service that answers does so in the *)
(* end; a deaf one need not.                                                *)
Reply(o, d) == ingest[o].sub[d] \notin Deaf /\ Notify(o, d)
Collects(o) == WF_vars(Collector(o))
Replies(o, d) == WF_vars(Reply(o, d))
Fairness == \A o \in Otp : Collects(o) /\ \A d \in Device : Replies(o, d)

FairSpec == Spec /\ Fairness
-------------------------------------------------------------------------------
(* Broadcast joins all it forked: once Ingest has returned none of its      *)
(* goroutines is still posting or has a result nobody will read, and the    *)
(* dead list is exactly the subscriptions that were reported gone.          *)
FanInExact ==
  \A o \in Otp : ingest[o].pc = "returned" =>
    /\ ingest[o].taken = Listed(o)
    /\ \A d \in Device : ingest[o].result[d] # "posting"
    /\ ingest[o].dead = {ingest[o].sub[d] : d \in {e \in Device : ingest[o].result[e] = "gone"}}

(* Whoever gets the signal can claim at once: the row it names is stored. *)
SignalledIsStored == \A o \in Otp : heard[o] # {} => o \in otps

(* A device that was revoked before the OTP was stored never hears of it,   *)
(* however long the fan-out takes.                                          *)
RevokedHearsNothing == \A o \in Otp : heard[o] \cap barred[o] = {}

(* A slow service delays nobody else's signal: every goroutine whose        *)
(* service answers gets through.                                            *)
NobodyWaitsForTheDeaf ==
  \A o \in Otp, d \in Device :
    ingest[o].result[d] = "posting" /\ ingest[o].sub[d] \notin Deaf
      ~> ingest[o].result[d] # "posting"

(* But the source does wait: Ingest returns if no service it has to hear    *)
(* from is deaf.                                                            *)
IngestReturns ==
  \A o \in Otp : ingest[o].pc # "idle" ~>
    \/ ingest[o].pc = "returned"
    \/ \E d \in Listed(o) : ingest[o].sub[d] \in Deaf
-------------------------------------------------------------------------------
(* A fan-out as its caller sees it: what is in the channel does not show    *)
(* until Broadcast returns.                                                 *)
Phase == [o \in Otp |-> ingest[o].pc]
Due == [o \in Otp |-> Listed(o)]
Asked == [o \in Otp |-> {d \in Device : ingest[o].result[d] \in {"kept", "gone"}}]
Missed == [o \in Otp |-> {d \in Device : ingest[o].result[d] = "gone"}]
Report == [o \in Otp |-> IF ingest[o].pc = "returned" THEN ingest[o].dead ELSE {}]

Contract == INSTANCE PushContract WITH
  stored <- otps, phase <- Phase, due <- Due, asked <- Asked, told <- heard,
  missed <- Missed, report <- Report

(* Every run of the fan-out is a run of the contract: every destination     *)
(* that was listed is asked once, while the row is there and before Ingest  *)
(* returns, and the dead subscriptions of the report are those of the       *)
(* devices that were asked in vain, whatever order the answers come in.     *)
KeepsPushContract == Contract!Spec
================================================================================
