--------------------------- MODULE PushFanoutProofs ---------------------------
(***************************************************************************)
(* Proofs about PushFanout, for any number of devices, subscriptions and   *)
(* OTPs.                                                                   *)
(*                                                                         *)
(* FanInExact is not inductive: that Broadcast may stop counting at        *)
(* Cardinality(Listed(o)) rests on each result being received once and     *)
(* only from a goroutine that was started, which IngestOK carries from     *)
(* step to step.  The liveness properties follow from the same invariant   *)
(* and the fairness of the goroutines.                                     *)
(***************************************************************************)
EXTENDS PushFanout, FiniteSetTheorems, TLAPS

(* What a running Broadcast has to show for the results it has taken. *)
Tally(i) == {i.sub[d] : d \in {e \in i.taken : i.result[e] = "gone"}}

IngestOK(i) ==
  /\ \A d \in Device : (i.sub[d] = None) <=> (i.result[d] = "none")
  /\ \A d \in i.taken : i.result[d] \in {"kept", "gone"}
  /\ i.dead = Tally(i)
  /\ i.pc \in {"idle", "stored"} => i.taken = {} /\ \A d \in Device : i.sub[d] = None
  /\ i.pc = "returned" => \A d \in Device : i.sub[d] # None => d \in i.taken

(* What the histories of one OTP say. *)
HeardOK(o) ==
  /\ ingest[o].pc # "idle" => o \in otps
  /\ heard[o] \subseteq Listed(o)
  /\ barred[o] \subseteq Revoked
  /\ Listed(o) \cap barred[o] = {}

IInv ==
  /\ TypeOK
  /\ \A o \in Otp : IngestOK(ingest[o]) /\ HeardOK(o)

LEMMA InitIInv == Init => IInv
  <1> SUFFICES ASSUME Init PROVE IInv
    OBVIOUS
  <1>1. /\ Idle \in Ingestion /\ Idle.pc = "idle" /\ Idle.taken = {} /\ Idle.dead = {}
        /\ \A d \in Device : Idle.sub[d] = None /\ Idle.result[d] = "none"
    BY PushAssumption DEF Idle, Ingestion
  <1>2. TypeOK
    BY <1>1, PushAssumption DEF Init, TypeOK, Row
  <1>3. IngestOK(Idle)
    BY <1>1 DEF IngestOK, Tally
  <1> QED
    BY <1>1, <1>2, <1>3 DEF Init, IInv, HeardOK, Listed
-------------------------------------------------------------------------------
LEMMA IngestionFields ==
  ASSUME NEW i \in Ingestion
  PROVE /\ i.pc \in {"idle", "stored", "sending", "returned"}
        /\ i.sub \in [Device -> Sub \cup {None}]
        /\ i.result \in [Device -> {"none", "posting", "kept", "gone"}]
        /\ i.taken \in SUBSET Device
        /\ i.dead \in SUBSET Sub
  BY DEF Ingestion

(* The five ways a step changes an Ingest call, each on the record alone. *)
LEMMA StoredOK ==
  ASSUME NEW i \in Ingestion, IngestOK(i), i.pc = "idle"
  PROVE LET j == [i EXCEPT !.pc = "stored"] IN
        j \in Ingestion /\ IngestOK(j) /\ j.sub = i.sub
  BY IngestionFields DEF Ingestion, IngestOK, Tally

Fanned(i, sub, result) == [i EXCEPT !.pc = "sending", !.sub = sub, !.result = result]

LEMMA FannedOK ==
  ASSUME NEW i \in Ingestion, IngestOK(i), i.pc = "stored",
         NEW sub \in [Device -> Sub \cup {None}],
         NEW result \in [Device -> {"none", "posting"}],
         \A d \in Device : (sub[d] = None) <=> (result[d] = "none")
  PROVE LET j == Fanned(i, sub, result) IN
        j \in Ingestion /\ IngestOK(j) /\ j.sub = sub
  <1> DEFINE j == Fanned(i, sub, result)
  <1>1. /\ j \in Ingestion /\ j.pc = "sending" /\ j.sub = sub /\ j.result = result
        /\ j.taken = i.taken /\ j.dead = i.dead
    BY IngestionFields DEF Ingestion, Fanned
  <1>2. i.taken = {} /\ i.dead = {}
    BY DEF IngestOK, Tally
  <1>3. Tally(j) = {}
    BY <1>1, <1>2 DEF Tally
  <1> QED
    BY <1>1, <1>2, <1>3 DEF IngestOK

LEMMA AnsweredOK ==
  ASSUME NEW i \in Ingestion, IngestOK(i), NEW d \in Device, i.result[d] = "posting",
         NEW what \in {"kept", "gone"}
  PROVE LET j == [i EXCEPT !.result[d] = what] IN
        j \in Ingestion /\ IngestOK(j) /\ j.sub = i.sub
  <1> DEFINE j == [i EXCEPT !.result[d] = what]
  <1>1. /\ j.pc = i.pc /\ j.sub = i.sub /\ j.taken = i.taken /\ j.dead = i.dead
        /\ j.result = [i.result EXCEPT ![d] = what] /\ j \in Ingestion
    BY IngestionFields DEF Ingestion
  <1>2. d \notin i.taken /\ i.sub[d] # None /\ i.taken \subseteq Device
    BY IngestionFields DEF IngestOK
  <1> HIDE DEF j
  <1>3. \A e \in Device : e # d => j.result[e] = i.result[e]
    BY <1>1, IngestionFields
  <1>4. j.result[d] = what
    BY <1>1, IngestionFields
  <1>5. Tally(j) = Tally(i)
    BY <1>1, <1>2, <1>3 DEF Tally
  <1> QED
    BY <1>1, <1>2, <1>3, <1>4, <1>5 DEF IngestOK, j

LEMMA ReceivedOK ==
  ASSUME NEW i \in Ingestion, IngestOK(i), i.pc = "sending", NEW d \in Device,
         i.result[d] \in {"kept", "gone"}
  PROVE LET j == [i EXCEPT !.taken = @ \cup {d},
                           !.dead = IF i.result[d] = "gone" THEN @ \cup {i.sub[d]} ELSE @]
        IN j \in Ingestion /\ IngestOK(j) /\ j.sub = i.sub
  <1> DEFINE j == [i EXCEPT !.taken = @ \cup {d},
                            !.dead = IF i.result[d] = "gone" THEN @ \cup {i.sub[d]} ELSE @]
  <1>0. i.sub[d] \in Sub
    BY IngestionFields DEF IngestOK
  <1>1. /\ j.pc = i.pc /\ j.sub = i.sub /\ j.result = i.result
        /\ j.taken = i.taken \cup {d}
        /\ j.dead = IF i.result[d] = "gone" THEN i.dead \cup {i.sub[d]} ELSE i.dead
        /\ j \in Ingestion
    BY <1>0, IngestionFields DEF Ingestion
  <1> HIDE DEF j
  <1>2. Tally(j) = IF i.result[d] = "gone" THEN Tally(i) \cup {i.sub[d]} ELSE Tally(i)
    BY <1>1 DEF Tally
  <1> QED
    BY <1>1, <1>2 DEF IngestOK, j

(* Where the count comes in: as many results as entries, no two from one    *)
(* goroutine, is all of them.                                               *)
LEMMA FinishedOK ==
  ASSUME NEW i \in Ingestion, IngestOK(i), i.pc \in {"stored", "sending"},
         Cardinality(i.taken) = Cardinality({d \in Device : i.sub[d] # None})
  PROVE LET j == [i EXCEPT !.pc = "returned"] IN
        j \in Ingestion /\ IngestOK(j) /\ j.sub = i.sub
  <1> DEFINE listed == {d \in Device : i.sub[d] # None}
             j == [i EXCEPT !.pc = "returned"]
  <1>1. i.taken \subseteq listed
    BY IngestionFields DEF IngestOK
  <1>2. IsFiniteSet(listed)
    BY FS_Subset, PushAssumption
  <1>3. i.taken = listed
    BY <1>1, <1>2, FS_Subset
  <1>4. /\ j.pc = "returned" /\ j.sub = i.sub /\ j.taken = i.taken /\ j.dead = i.dead
        /\ j.result = i.result /\ j \in Ingestion
    BY IngestionFields DEF Ingestion
  <1> HIDE DEF j
  <1>5. Tally(j) = Tally(i)
    BY <1>4 DEF Tally
  <1> QED
    BY <1>3, <1>4, <1>5 DEF IngestOK, j
-------------------------------------------------------------------------------
(* A step of one Ingest call that keeps its list keeps the invariant.       *)
LEMMA CallStep ==
  ASSUME IInv, NEW o \in Otp, NEW j \in Ingestion, IngestOK(j),
         ingest' = [ingest EXCEPT ![o] = j], j.pc # "idle",
         ingest[o].pc # "idle", j.sub = ingest[o].sub,
         UNCHANGED <<devices, live, otps, heard, barred>>
  PROVE IInv'
  <1>1. ingest \in [Otp -> Ingestion]
    BY DEF IInv, TypeOK
  <1>2. ingest' \in [Otp -> Ingestion] /\ \A p \in Otp : IngestOK(ingest'[p])
    BY <1>1 DEF IInv
  <1>3. \A p \in Otp : ingest'[p].sub = ingest[p].sub
                       /\ (ingest'[p].pc = "idle" <=> ingest[p].pc = "idle")
    BY <1>1
  <1>4. \A p \in Otp : HeardOK(p)'
    BY <1>3 DEF IInv, HeardOK, Listed, Revoked
  <1>5. TypeOK'
    BY <1>2 DEF IInv, TypeOK
  <1> QED
    BY <1>2, <1>4, <1>5 DEF IInv

LEMMA DevicesStep ==
  ASSUME IInv, devices' \in [Device -> Row], live' \subseteq Sub, Revoked \subseteq Revoked',
         UNCHANGED <<otps, ingest, heard, barred>>
  PROVE IInv'
  <1>1. TypeOK'
    BY DEF IInv, TypeOK
  <1>2. \A o \in Otp : HeardOK(o)'
    BY DEF IInv, HeardOK, Listed
  <1>3. \A o \in Otp : IngestOK(ingest'[o])
    BY DEF IInv
  <1> QED
    BY <1>1, <1>2, <1>3 DEF IInv

LEMMA RegistryStep ==
  ASSUME IInv,
         \/ \E d \in Device : Revoke(d) \/ \E s \in Sub \cup {None} : Register(d, s)
         \/ \E s \in Sub : Unsubscribe(s)
         \/ UNCHANGED vars
  PROVE IInv'
  <1>0. devices \in [Device -> Row] /\ live \in SUBSET Sub
    BY DEF IInv, TypeOK
  <1>1. ASSUME NEW d \in Device, Revoke(d) PROVE IInv'
    <2>1. devices[d] \in Row
      BY <1>0
    <2>2. [devices[d] EXCEPT !.state = "revoked"] \in Row
      BY <2>1 DEF Row
    <2>3. devices' \in [Device -> Row] /\ Revoked \subseteq Revoked'
      BY <1>0, <1>1, <2>2 DEF Revoke, Revoked, Row
    <2> QED
      BY <1>0, <1>1, <2>3, DevicesStep DEF Revoke
  <1>2. ASSUME NEW d \in Device, NEW s \in Sub \cup {None}, Register(d, s) PROVE IInv'
    <2>1. [state |-> "active", sub |-> s] \in Row
      BY DEF Row
    <2>2. devices' \in [Device -> Row] /\ Revoked \subseteq Revoked'
      BY <1>0, <1>2, <2>1 DEF Register, Revoked
    <2> QED
      BY <1>0, <1>2, <2>2, DevicesStep DEF Register
  <1>3. ASSUME NEW s \in Sub, Unsubscribe(s) PROVE IInv'
    BY <1>0, <1>3, DevicesStep DEF Unsubscribe, Revoked
  <1>4. CASE UNCHANGED vars
    BY <1>0, <1>4, DevicesStep DEF vars, Revoked
  <1> QED
    BY <1>1, <1>2, <1>3, <1>4

LEMMA StoreStep ==
  ASSUME IInv, NEW o \in Otp, Store(o)
  PROVE IInv'
  <1>1. ingest \in [Otp -> Ingestion] /\ ingest[o] \in Ingestion /\ ingest[o].pc = "idle"
        /\ barred \in [Otp -> SUBSET Device]
    BY DEF IInv, TypeOK, Store
  <1> DEFINE j == [ingest[o] EXCEPT !.pc = "stored"]
  <1>2. ingest' = [ingest EXCEPT ![o] = j] /\ otps' = otps \cup {o}
        /\ barred' = [barred EXCEPT ![o] = Revoked]
        /\ devices' = devices /\ live' = live /\ heard' = heard
    BY DEF Store
  <1>3. j \in Ingestion /\ IngestOK(j) /\ j.sub = ingest[o].sub
    BY <1>1, StoredOK DEF IInv
  <1> HIDE DEF j
  <1>4. TypeOK'
    BY <1>1, <1>2, <1>3 DEF IInv, TypeOK, Revoked
  <1>5. \A p \in Otp : IngestOK(ingest'[p])
    BY <1>1, <1>2, <1>3 DEF IInv
  <1>6. \A p \in Otp : ingest'[p].sub = ingest[p].sub
    BY <1>1, <1>2, <1>3
  <1>7. Listed(o) = {}
    BY <1>1 DEF IInv, IngestOK, Listed
  <1>8. Revoked' = Revoked /\ \A p \in Otp : Listed(p)' = Listed(p)
    BY <1>2, <1>6 DEF Revoked, Listed
  <1>9. HeardOK(o)'
    BY <1>1, <1>2, <1>7, <1>8 DEF IInv, HeardOK
  <1>10. ASSUME NEW p \in Otp, p # o PROVE HeardOK(p)'
    BY <1>1, <1>2, <1>8, <1>10 DEF IInv, HeardOK
  <1> QED
    BY <1>4, <1>5, <1>9, <1>10 DEF IInv

(* The list is drawn up: whoever was revoked when the OTP was stored still  *)
(* is, and is not on it.                                                    *)
LEMMA FanStep ==
  ASSUME IInv, NEW o \in Otp, Fan(o)
  PROVE IInv'
  <1> DEFINE sub == [d \in Device |-> IF d \in PushTargets THEN devices[d].sub ELSE None]
             result == [d \in Device |-> IF d \in PushTargets THEN "posting" ELSE "none"]
             j == Fanned(ingest[o], sub, result)
  <1>1. ingest \in [Otp -> Ingestion] /\ ingest[o] \in Ingestion /\ ingest[o].pc = "stored"
        /\ devices \in [Device -> Row]
    BY DEF IInv, TypeOK, Fan
  <1>2. sub \in [Device -> Sub \cup {None}]
    BY <1>1 DEF Row
  <1>3. result \in [Device -> {"none", "posting"}]
    OBVIOUS
  <1>4. \A d \in Device : (sub[d] = None) <=> (result[d] = "none")
    BY DEF PushTargets
  <1>5. ingest' = [ingest EXCEPT ![o] = j]
        /\ devices' = devices /\ live' = live /\ otps' = otps /\ heard' = heard /\ barred' = barred
    BY DEF Fan, Fanned
  <1>6. \A d \in Device : sub[d] # None => devices[d].state = "active"
    BY DEF PushTargets
  <1> HIDE DEF sub, result
  <1>7. j \in Ingestion /\ IngestOK(j) /\ j.sub = sub
    <2>1. IngestOK(ingest[o])
      BY DEF IInv
    <2> QED
      BY <1>1, <1>2, <1>3, <1>4, <2>1, FannedOK
  <1> HIDE DEF j
  <1>8. TypeOK'
    BY <1>1, <1>5, <1>7 DEF IInv, TypeOK
  <1>9. \A p \in Otp : IngestOK(ingest'[p])
    BY <1>1, <1>5, <1>7 DEF IInv
  <1>10. Listed(o) = {} /\ heard[o] = {}
    BY <1>1 DEF IInv, IngestOK, Listed, HeardOK
  <1>11. \A d \in Listed(o)' : d \notin Revoked
    BY <1>1, <1>5, <1>6, <1>7 DEF Listed, Revoked
  <1>12. HeardOK(o)'
    BY <1>1, <1>5, <1>10, <1>11 DEF IInv, HeardOK, Revoked
  <1>13. ASSUME NEW p \in Otp, p # o PROVE HeardOK(p)'
    BY <1>1, <1>5, <1>13 DEF IInv, HeardOK, Revoked, Listed
  <1> QED
    BY <1>8, <1>9, <1>12, <1>13 DEF IInv

LEMMA NotifyStep ==
  ASSUME IInv, NEW o \in Otp, NEW d \in Device, Notify(o, d)
  PROVE IInv'
  <1>1. PICK what \in {"kept", "gone"}, to \in {{}, {d}} : Answer(o, d, what, to)
    BY DEF Notify
  <1>2. ingest \in [Otp -> Ingestion] /\ ingest[o] \in Ingestion /\ ingest[o].result[d] = "posting"
        /\ heard \in [Otp -> SUBSET Device]
    BY <1>1 DEF IInv, TypeOK, Answer
  <1> DEFINE j == [ingest[o] EXCEPT !.result[d] = what]
  <1>3. ingest' = [ingest EXCEPT ![o] = j] /\ heard' = [heard EXCEPT ![o] = @ \cup to]
        /\ devices' = devices /\ live' = live /\ otps' = otps /\ barred' = barred
    BY <1>1 DEF Answer
  <1>4. j \in Ingestion /\ IngestOK(j) /\ j.sub = ingest[o].sub
    BY <1>2, AnsweredOK DEF IInv
  <1>5. d \in Listed(o) /\ ingest[o].pc # "idle"
    BY <1>2 DEF IInv, IngestOK, Listed
  <1> HIDE DEF j
  <1>6. TypeOK'
    BY <1>2, <1>3, <1>4 DEF IInv, TypeOK
  <1>7. \A p \in Otp : IngestOK(ingest'[p])
    BY <1>2, <1>3, <1>4 DEF IInv
  <1>8. Revoked' = Revoked /\ \A p \in Otp : Listed(p)' = Listed(p)
    BY <1>2, <1>3, <1>4 DEF Revoked, Listed
  <1>9. HeardOK(o)'
    BY <1>2, <1>3, <1>5, <1>8 DEF IInv, HeardOK
  <1>10. ASSUME NEW p \in Otp, p # o PROVE HeardOK(p)'
    BY <1>2, <1>3, <1>8, <1>10 DEF IInv, HeardOK
  <1> QED
    BY <1>6, <1>7, <1>9, <1>10 DEF IInv

LEMMA CollectStep ==
  ASSUME IInv, NEW o \in Otp, FanNobody(o) \/ Finish(o) \/ \E d \in Device : Receive(o, d)
  PROVE IInv'
  <1>0. ingest \in [Otp -> Ingestion] /\ ingest[o] \in Ingestion /\ IngestOK(ingest[o])
    BY DEF IInv, TypeOK
  <1>1. CASE FanNobody(o) \/ Finish(o)
    <2> DEFINE i == ingest[o]
               j == [i EXCEPT !.pc = "returned"]
    <2>1. i.pc \in {"stored", "sending"} /\ ingest' = [ingest EXCEPT ![o] = j]
          /\ UNCHANGED <<devices, live, otps, heard, barred>>
      BY <1>1 DEF FanNobody, Finish
    <2>2. Cardinality(i.taken) = Cardinality({d \in Device : i.sub[d] # None})
      <3>1. CASE FanNobody(o)
        <4>1. i.taken = {} /\ {d \in Device : i.sub[d] # None} = {}
          BY <1>0, <3>1 DEF FanNobody, IngestOK
        <4> QED
          BY <4>1
      <3>2. CASE Finish(o)
        BY <3>2 DEF Finish, Expected, Listed
      <3> QED
        BY <1>1, <3>1, <3>2
    <2>3. j \in Ingestion /\ IngestOK(j) /\ j.sub = i.sub
      BY <1>0, <2>1, <2>2, FinishedOK
    <2>4. j.pc # "idle" /\ i.pc # "idle"
      BY <1>0, <2>1 DEF Ingestion
    <2> HIDE DEF j
    <2> QED
      BY <2>1, <2>3, <2>4, CallStep
  <1>2. ASSUME NEW d \in Device, Receive(o, d) PROVE IInv'
    <2> DEFINE i == ingest[o]
               j == [i EXCEPT !.taken = @ \cup {d},
                              !.dead = IF i.result[d] = "gone" THEN @ \cup {i.sub[d]} ELSE @]
    <2>1. /\ i.pc = "sending" /\ i.result[d] \in {"kept", "gone"}
          /\ ingest' = [ingest EXCEPT ![o] = j]
          /\ UNCHANGED <<devices, live, otps, heard, barred>>
      <3>1. d \in Queued(o) /\ ingest[o].pc = "sending"
        BY <1>2 DEF Receive
      <3>2. ingest[o].result[d] \in {"kept", "gone"}
        BY <3>1 DEF Queued
      <3>3. /\ ingest' = [ingest EXCEPT ![o] = j]
            /\ UNCHANGED <<devices, live, otps, heard, barred>>
        BY <1>2 DEF Receive
      <3> QED
        BY <3>1, <3>2, <3>3
    <2>2. j \in Ingestion /\ IngestOK(j) /\ j.sub = i.sub
      BY <1>0, <2>1, ReceivedOK
    <2>3. j.pc # "idle" /\ i.pc # "idle"
      BY <1>0, <2>1 DEF Ingestion
    <2> HIDE DEF j
    <2> QED
      BY <2>1, <2>2, <2>3, CallStep
  <1> QED
    BY <1>1, <1>2

LEMMA NextIInv == IInv /\ [Next]_vars => IInv'
  BY RegistryStep, StoreStep, FanStep, NotifyStep, CollectStep DEF Next, Collector

THEOREM InductiveInvariant == Spec => []IInv
  BY InitIInv, NextIInv, PTL DEF Spec
-------------------------------------------------------------------------------
(* Every state has the shape TypeOK gives. *)
THEOREM TypeCorrect == Spec => []TypeOK
  BY InductiveInvariant, PTL DEF IInv

(* Broadcast joins every goroutine it forks and reports exactly the dead,   *)
(* whatever the number of subscriptions and the order of the answers.       *)
THEOREM BroadcastJoins == Spec => []FanInExact
  <1>1. IInv => FanInExact
    <2> SUFFICES ASSUME IInv, NEW o \in Otp, ingest[o].pc = "returned"
                 PROVE /\ ingest[o].taken = Listed(o)
                       /\ \A d \in Device : ingest[o].result[d] # "posting"
                       /\ ingest[o].dead = {ingest[o].sub[d] :
                            d \in {e \in Device : ingest[o].result[e] = "gone"}}
      BY DEF FanInExact
    <2> DEFINE i == ingest[o]
    <2>1. i \in Ingestion /\ IngestOK(i)
      BY DEF IInv, TypeOK
    <2>2. i.taken = Listed(o)
      BY <2>1, IngestionFields DEF IngestOK, Listed
    <2>3. \A d \in Device : i.result[d] # "posting"
      BY <2>1, <2>2 DEF IngestOK, Listed
    <2>4. {e \in Device : i.result[e] = "gone"} = {e \in i.taken : i.result[e] = "gone"}
      BY <2>1, <2>2 DEF IngestOK, Listed
    <2> QED
      BY <2>1, <2>2, <2>3, <2>4 DEF IngestOK, Tally
  <1> QED
    BY <1>1, InductiveInvariant, PTL

(* A signal never precedes the row that it names. *)
THEOREM SignalFollowsStore == Spec => []SignalledIsStored
  <1>1. IInv => SignalledIsStored
    <2> SUFFICES ASSUME IInv, NEW o \in Otp, heard[o] # {} PROVE o \in otps
      BY DEF SignalledIsStored
    <2>1. ingest[o].pc # "idle"
      BY DEF IInv, HeardOK, IngestOK, Listed
    <2> QED
      BY <2>1 DEF IInv, HeardOK
  <1> QED
    BY <1>1, InductiveInvariant, PTL

(* Revocation before an OTP is stored keeps its signal from the device. *)
THEOREM RevokedStaysSilent == Spec => []RevokedHearsNothing
  <1>1. IInv => RevokedHearsNothing
    BY DEF IInv, HeardOK, RevokedHearsNothing
  <1> QED
    BY <1>1, InductiveInvariant, PTL
-------------------------------------------------------------------------------
(* The fan-out keeps its contract.  What that needs beside IInv: the        *)
(* subscription an entry was listed with is still its device's.             *)
ListStands ==
  \A o \in Otp : \A d \in Listed(o) :
    devices[d].state # "absent" /\ devices[d].sub = ingest[o].sub[d]

CInv == IInv /\ ListStands

LEMMA ListStandsStep == CInv /\ [Next]_vars => ListStands'
  <1> SUFFICES ASSUME CInv, [Next]_vars, NEW o \in Otp, NEW d \in Device,
                      ingest'[o].sub[d] # None
               PROVE  devices'[d].state # "absent" /\ devices'[d].sub = ingest'[o].sub[d]
    BY DEF ListStands, Listed
  <1>1. /\ devices \in [Device -> Row] /\ devices[d] \in Row
        /\ ingest \in [Otp -> Ingestion] /\ ingest[o] \in Ingestion
        /\ ingest[o].sub[d] # None =>
             devices[d].state # "absent" /\ devices[d].sub = ingest[o].sub[d]
    BY DEF CInv, IInv, TypeOK, ListStands, Listed
  <1>2. ASSUME NEW e \in Device, Revoke(e) \/ \E s \in Sub \cup {None} : Register(e, s)
        PROVE  devices'[d].state # "absent" /\ devices'[d].sub = ingest'[o].sub[d]
    <2>1. ingest' = ingest
      BY <1>2 DEF Revoke, Register
    <2>2. CASE e = d
      BY <1>1, <1>2, <2>1, <2>2 DEF Revoke, Register, Row
    <2>3. CASE e # d
      BY <1>1, <1>2, <2>1, <2>3 DEF Revoke, Register
    <2> QED
      BY <2>2, <2>3
  <1>3. ASSUME NEW p \in Otp, Fan(p)
        PROVE  devices'[d].state # "absent" /\ devices'[d].sub = ingest'[o].sub[d]
    <2>1. CASE p = o
      <3>1. ingest'[o].sub[d] = IF d \in PushTargets THEN devices[d].sub ELSE None
        BY <1>1, <1>3, <2>1 DEF Fan, Ingestion
      <3> QED
        BY <1>3, <3>1 DEF Fan, PushTargets
    <2>2. CASE p # o
      BY <1>1, <1>3, <2>2 DEF Fan
    <2> QED
      BY <2>1, <2>2
  <1>4. ASSUME devices' = devices, NEW p \in Otp, NEW j \in Ingestion,
               ingest' = [ingest EXCEPT ![p] = j], j.sub = ingest[p].sub
        PROVE  devices'[d].state # "absent" /\ devices'[d].sub = ingest'[o].sub[d]
    BY <1>1, <1>4
  <1>5. ASSUME NEW p \in Otp, Store(p) \/ FanNobody(p) \/ Finish(p)
        PROVE  devices'[d].state # "absent" /\ devices'[d].sub = ingest'[o].sub[d]
    <2>1. ASSUME NEW pc \in {"stored", "returned"}
          PROVE  /\ [ingest[p] EXCEPT !.pc = pc] \in Ingestion
                 /\ [ingest[p] EXCEPT !.pc = pc].sub = ingest[p].sub
      BY <1>1, IngestionFields DEF Ingestion
    <2> QED
      BY <1>4, <1>5, <2>1 DEF Store, FanNobody, Finish
  <1>6. ASSUME NEW p \in Otp, NEW e \in Device, Notify(p, e)
        PROVE  devices'[d].state # "absent" /\ devices'[d].sub = ingest'[o].sub[d]
    <2>1. PICK what \in {"kept", "gone"}, to \in SUBSET Device : Answer(p, e, what, to)
      BY <1>6 DEF Notify
    <2>2. /\ [ingest[p] EXCEPT !.result[e] = what] \in Ingestion
          /\ [ingest[p] EXCEPT !.result[e] = what].sub = ingest[p].sub
      BY <1>1, <2>1, AnsweredOK DEF Answer, CInv, IInv
    <2> QED
      BY <1>4, <2>1, <2>2 DEF Answer
  <1>7. ASSUME NEW p \in Otp, NEW e \in Device, Receive(p, e)
        PROVE  devices'[d].state # "absent" /\ devices'[d].sub = ingest'[o].sub[d]
    <2> DEFINE i == ingest[p]
               j == [i EXCEPT !.taken = @ \cup {e},
                              !.dead = IF i.result[e] = "gone" THEN @ \cup {i.sub[e]} ELSE @]
    <2>1. ingest' = [ingest EXCEPT ![p] = j] /\ devices' = devices
      BY <1>7 DEF Receive
    <2>2. i.pc = "sending" /\ i.result[e] \in {"kept", "gone"}
      BY <1>7 DEF Receive, Queued
    <2>3. i \in Ingestion /\ IngestOK(i)
      BY <1>1 DEF CInv, IInv
    <2>4. j \in Ingestion /\ j.sub = i.sub
      BY <2>2, <2>3, ReceivedOK
    <2> HIDE DEF j
    <2> QED
      BY <1>4, <2>1, <2>4
  <1>8. ASSUME UNCHANGED vars \/ \E s \in Sub : Unsubscribe(s)
        PROVE  devices'[d].state # "absent" /\ devices'[d].sub = ingest'[o].sub[d]
    BY <1>1, <1>8 DEF vars, Unsubscribe
  <1> QED
    BY <1>2, <1>3, <1>5, <1>6, <1>7, <1>8 DEF Next, Collector

LEMMA ContractInvariant == Spec => []CInv
  <1>1. Init => ListStands
    BY DEF Init, Idle, ListStands, Listed
  <1>2. CInv /\ [Next]_vars => CInv'
    BY NextIInv, ListStandsStep DEF CInv
  <1>3. Init => CInv
    BY <1>1, InitIInv DEF CInv
  <1> QED
    BY <1>2, <1>3, PTL DEF Spec

(* What the contract sees of a step of one Ingest call. *)
LEMMA Seen ==
  ASSUME IInv, NEW o \in Otp, NEW j \in Ingestion, ingest' = [ingest EXCEPT ![o] = j]
  PROVE  /\ Phase' = [Phase EXCEPT ![o] = j.pc]
         /\ Due' = [Due EXCEPT ![o] = {d \in Device : j.sub[d] # None}]
         /\ Asked' = [Asked EXCEPT ![o] = {d \in Device : j.result[d] \in {"kept", "gone"}}]
         /\ Missed' = [Missed EXCEPT ![o] = {d \in Device : j.result[d] = "gone"}]
         /\ Report' = [Report EXCEPT ![o] = IF j.pc = "returned" THEN j.dead ELSE {}]
  <1>1. ingest'[o] = j /\ \A p \in Otp : p # o => ingest'[p] = ingest[p]
    BY DEF IInv, TypeOK
  <1>2. Phase' = [Phase EXCEPT ![o] = j.pc]
    <2> DEFINE pc == j.pc
    <2>1. \A p \in Otp : ingest'[p].pc = IF p = o THEN pc ELSE ingest[p].pc
      BY <1>1
    <2> HIDE DEF pc
    <2> QED
      BY <2>1 DEF Phase, pc
  <1>3. Due' = [Due EXCEPT ![o] = {d \in Device : j.sub[d] # None}]
    BY <1>1 DEF Due, Listed
  <1>4. Asked' = [Asked EXCEPT ![o] = {d \in Device : j.result[d] \in {"kept", "gone"}}]
    BY <1>1 DEF Asked
  <1>5. Missed' = [Missed EXCEPT ![o] = {d \in Device : j.result[d] = "gone"}]
    BY <1>1 DEF Missed
  <1>6. Report' = [Report EXCEPT ![o] = IF j.pc = "returned" THEN j.dead ELSE {}]
    <2> DEFINE report(i) == IF i.pc = "returned" THEN i.dead ELSE {}
    <2>1. \A p \in Otp : report(ingest'[p]) = IF p = o THEN report(j) ELSE report(ingest[p])
      BY <1>1
    <2>2. Report = [p \in Otp |-> report(ingest[p])]
      BY DEF Report
    <2>3. Report' = [p \in Otp |-> report(ingest'[p])]
      BY DEF Report
    <2> HIDE DEF report
    <2>4. Report' = [Report EXCEPT ![o] = report(j)]
      BY <2>1, <2>2, <2>3
    <2> QED
      BY <2>4 DEF report
  <1> QED
    BY <1>2, <1>3, <1>4, <1>5, <1>6

(* And of the call before it. *)
LEMMA SeenNow ==
  ASSUME IInv, NEW o \in Otp
  PROVE  /\ Phase[o] = ingest[o].pc
         /\ Due[o] = {d \in Device : ingest[o].sub[d] # None}
         /\ Asked[o] = {d \in Device : ingest[o].result[d] \in {"kept", "gone"}}
         /\ Missed[o] = {d \in Device : ingest[o].result[d] = "gone"}
         /\ Report[o] = IF ingest[o].pc = "returned" THEN ingest[o].dead ELSE {}
  BY DEF Phase, Due, Listed, Asked, Missed, Report

(* It sees no change of what stays the same. *)
LEMMA Unseen ==
  ASSUME IInv, NEW o \in Otp, NEW j \in Ingestion, ingest' = [ingest EXCEPT ![o] = j]
  PROVE  /\ j.pc = ingest[o].pc => Phase' = Phase
         /\ j.sub = ingest[o].sub => Due' = Due
         /\ j.result = ingest[o].result => Asked' = Asked /\ Missed' = Missed
         /\ j.pc # "returned" /\ ingest[o].pc # "returned" => Report' = Report
  <1>1. ingest'[o] = j /\ \A p \in Otp : p # o => ingest'[p] = ingest[p]
    BY DEF IInv, TypeOK
  <1>2. j.pc = ingest[o].pc => Phase' = Phase
    <2>1. j.pc = ingest[o].pc => \A p \in Otp : ingest'[p].pc = ingest[p].pc
      BY <1>1
    <2> QED
      BY <2>1 DEF Phase
  <1>3. j.sub = ingest[o].sub => Due' = Due
    <2>1. j.sub = ingest[o].sub => \A p \in Otp : ingest'[p].sub = ingest[p].sub
      BY <1>1
    <2> QED
      BY <2>1 DEF Due, Listed
  <1>4. j.result = ingest[o].result => Asked' = Asked /\ Missed' = Missed
    <2>1. j.result = ingest[o].result => \A p \in Otp : ingest'[p].result = ingest[p].result
      BY <1>1
    <2> QED
      BY <2>1 DEF Asked, Missed
  <1>5. j.pc # "returned" /\ ingest[o].pc # "returned" => Report' = Report
    <2> DEFINE report(i) == IF i.pc = "returned" THEN i.dead ELSE {}
    <2>1. j.pc # "returned" /\ ingest[o].pc # "returned" =>
            \A p \in Otp : report(ingest'[p]) = report(ingest[p])
      BY <1>1
    <2>2. Report = [p \in Otp |-> report(ingest[p])]
      BY DEF Report
    <2>3. Report' = [p \in Otp |-> report(ingest'[p])]
      BY DEF Report
    <2> HIDE DEF report
    <2> QED
      BY <2>1, <2>2, <2>3
  <1> QED
    BY <1>2, <1>3, <1>4, <1>5

(* The steps one by one. *)
LEMMA StoreMaps ==
  ASSUME CInv, NEW o \in Otp, Store(o)
  PROVE  Contract!Store(o)
  <1> DEFINE i == ingest[o]
             j == [i EXCEPT !.pc = "stored"]
  <1>1. i \in Ingestion /\ i.pc = "idle" /\ IInv /\ ingest' = [ingest EXCEPT ![o] = j]
    BY DEF CInv, IInv, TypeOK, Store
  <1>2. j \in Ingestion /\ j.pc = "stored" /\ j.sub = i.sub /\ j.result = i.result
    BY <1>1, IngestionFields DEF Ingestion
  <1> HIDE DEF j
  <1>3. Due' = Due /\ Asked' = Asked /\ Missed' = Missed /\ Report' = Report
    BY <1>1, <1>2, Unseen
  <1>4. Phase' = [Phase EXCEPT ![o] = j.pc]
    BY <1>1, <1>2, Seen
  <1>5. Phase[o] = "idle"
    BY <1>1, SeenNow
  <1> QED
    BY <1>2, <1>3, <1>4, <1>5 DEF Contract!Store, Store

LEMMA FanMaps ==
  ASSUME CInv, NEW o \in Otp, Fan(o)
  PROVE  Contract!Draw(o)
  <1> DEFINE i == ingest[o]
             sub == [d \in Device |-> IF d \in PushTargets THEN devices[d].sub ELSE None]
             result == [d \in Device |-> IF d \in PushTargets THEN "posting" ELSE "none"]
             j == Fanned(i, sub, result)
  <1>1. /\ i \in Ingestion /\ i.pc = "stored" /\ IInv /\ ingest' = [ingest EXCEPT ![o] = j]
        /\ \A d \in Device : i.result[d] = "none"
    BY DEF CInv, IInv, TypeOK, IngestOK, Fan, Fanned
  <1>2. j \in Ingestion /\ j.pc = "sending" /\ j.sub = sub /\ j.result = result
    <2>1. sub \in [Device -> Sub \cup {None}]
      BY DEF CInv, IInv, TypeOK, Row
    <2>2. result \in [Device -> {"none", "posting"}]
      OBVIOUS
    <2>3. \A d \in Device : (sub[d] = None) <=> (result[d] = "none")
      BY DEF PushTargets
    <2> HIDE DEF sub, result
    <2>4. IngestOK(i)
      BY DEF CInv, IInv
    <2>5. j \in Ingestion /\ j.sub = sub
      BY <1>1, <2>1, <2>2, <2>3, <2>4, FannedOK
    <2>6. j.pc = "sending" /\ j.result = result
      BY <1>1 DEF Ingestion, Fanned
    <2> QED
      BY <2>5, <2>6
  <1>3. /\ {d \in Device : sub[d] # None} = PushTargets
        /\ {d \in Device : result[d] \in {"kept", "gone"}} = {}
        /\ {d \in Device : result[d] = "gone"} = {}
        /\ {d \in Device : i.result[d] \in {"kept", "gone"}} = {}
        /\ {d \in Device : i.result[d] = "gone"} = {}
    BY <1>1 DEF PushTargets
  <1> HIDE DEF j, sub, result
  <1>4. /\ Phase' = [Phase EXCEPT ![o] = j.pc]
        /\ Due' = [Due EXCEPT ![o] = {d \in Device : j.sub[d] # None}]
        /\ Asked' = [Asked EXCEPT ![o] = {d \in Device : j.result[d] \in {"kept", "gone"}}]
        /\ Missed' = [Missed EXCEPT ![o] = {d \in Device : j.result[d] = "gone"}]
    BY <1>1, <1>2, Seen
  <1>5. Phase[o] = "stored" /\ Asked[o] = {} /\ Missed[o] = {}
    BY <1>1, <1>3, SeenNow
  <1>6. Asked' = Asked /\ Missed' = Missed
    <2>1. Asked' = [Asked EXCEPT ![o] = {}] /\ Missed' = [Missed EXCEPT ![o] = {}]
      BY <1>2, <1>3, <1>4
    <2> QED
      BY <1>5, <2>1 DEF Asked, Missed
  <1>7. Report' = Report
    BY <1>1, <1>2, Unseen
  <1> QED
    BY <1>2, <1>3, <1>4, <1>5, <1>6, <1>7 DEF Contract!Draw, Fan, PushTargets

(* One goroutine's answer is the one time its device's service is asked. *)
LEMMA NotifyMaps ==
  ASSUME CInv, NEW o \in Otp, NEW d \in Device, Notify(o, d)
  PROVE  Contract!Ask(o, d)
  <1> DEFINE i == ingest[o]
  <1>1. PICK what \in {"kept", "gone"}, to \in {{}, {d}} :
          /\ Answer(o, d, what, to)
          /\ \/ what = "kept" /\ to = {d} /\ i.sub[d] \in live
             \/ what = "gone" /\ to = {} /\ i.sub[d] \notin live
             \/ what = "kept" /\ to = {}
    BY DEF Notify
  <1> DEFINE j == [i EXCEPT !.result[d] = what]
  <1>2. /\ i \in Ingestion /\ IInv /\ i.result[d] = "posting" /\ i.sub[d] # None
        /\ ingest' = [ingest EXCEPT ![o] = j]
        /\ heard' = [heard EXCEPT ![o] = @ \cup to] /\ heard \in [Otp -> SUBSET Device]
        /\ UNCHANGED <<devices, live, otps>>
    BY <1>1 DEF CInv, IInv, TypeOK, IngestOK, Answer
  <1>3. i.pc = "sending" /\ o \in otps /\ devices[d].sub = i.sub[d]
    <2>1. IngestOK(i) /\ HeardOK(o) /\ d \in Listed(o)
      BY <1>2 DEF IInv, Listed
    <2>2. i.pc \in {"sending", "returned"}
      BY <1>2, <2>1 DEF IngestOK, Ingestion
    <2>3. i.pc # "returned"
      BY <1>2, <2>1 DEF IngestOK
    <2> QED
      BY <2>1, <2>2, <2>3 DEF HeardOK, CInv, ListStands
  <1>4. /\ j \in Ingestion /\ j.pc = i.pc /\ j.sub = i.sub /\ j.dead = i.dead
        /\ \A e \in Device : j.result[e] = IF e = d THEN what ELSE i.result[e]
    BY <1>2, IngestionFields DEF Ingestion
  <1> HIDE DEF j
  <1>5. /\ Phase' = Phase /\ Due' = Due /\ Report' = Report
        /\ Asked' = [Asked EXCEPT ![o] = {e \in Device : j.result[e] \in {"kept", "gone"}}]
        /\ Missed' = [Missed EXCEPT ![o] = {e \in Device : j.result[e] = "gone"}]
    <2>1. Phase' = Phase /\ Due' = Due /\ Report' = Report
      BY <1>2, <1>3, <1>4, Unseen
    <2>2. /\ Asked' = [Asked EXCEPT ![o] = {e \in Device : j.result[e] \in {"kept", "gone"}}]
          /\ Missed' = [Missed EXCEPT ![o] = {e \in Device : j.result[e] = "gone"}]
      BY <1>2, <1>4, Seen
    <2> QED
      BY <2>1, <2>2
  <1>6. /\ {e \in Device : j.result[e] \in {"kept", "gone"}} = Asked[o] \cup {d}
        /\ {e \in Device : j.result[e] = "gone"} =
             IF what = "gone" THEN Missed[o] \cup {d} ELSE Missed[o]
    BY <1>2, <1>4, SeenNow
  <1>7. Phase[o] = "sending" /\ d \in Due[o] \ Asked[o]
    BY <1>2, <1>3, SeenNow
  <1>8. /\ Asked' = [Asked EXCEPT ![o] = @ \cup {d}]
        /\ what = "gone" => Missed' = [Missed EXCEPT ![o] = @ \cup {d}]
        /\ what = "kept" => Missed' = Missed
    BY <1>5, <1>6 DEF Asked, Missed
  <1>9. to = {} => heard' = heard
    BY <1>2
  <1> QED
    BY <1>1, <1>2, <1>3, <1>5, <1>7, <1>8, <1>9 DEF Contract!Ask

(* Receiving a result shows to nobody. *)
LEMMA ReceiveMaps ==
  ASSUME CInv, NEW o \in Otp, NEW d \in Device, Receive(o, d)
  PROVE  UNCHANGED Contract!vars
  <1> DEFINE i == ingest[o]
             taken == i.taken \cup {d}
             dead == IF i.result[d] = "gone" THEN i.dead \cup {i.sub[d]} ELSE i.dead
             j == [i EXCEPT !.taken = taken, !.dead = dead]
  <1>1. /\ i \in Ingestion /\ IInv /\ i.pc = "sending" /\ ingest' = [ingest EXCEPT ![o] = j]
        /\ UNCHANGED <<devices, live, otps, heard>>
    BY DEF CInv, IInv, TypeOK, Receive
  <1>2. taken \in SUBSET Device /\ dead \in SUBSET Sub
    <2>1. i.result[d] \in {"kept", "gone"} /\ IngestOK(i)
      BY <1>1 DEF Receive, Queued, IInv
    <2>2. i.sub[d] \in Sub
      BY <1>1, <2>1, IngestionFields DEF IngestOK
    <2> QED
      BY <1>1, <2>2, IngestionFields
  <1> HIDE DEF taken, dead
  <1>3. j \in Ingestion /\ j.pc = i.pc /\ j.sub = i.sub /\ j.result = i.result
    BY <1>1, <1>2, IngestionFields DEF Ingestion
  <1> HIDE DEF j
  <1>4. Phase' = Phase /\ Due' = Due /\ Asked' = Asked /\ Missed' = Missed /\ Report' = Report
    BY <1>1, <1>3, Unseen
  <1> QED
    BY <1>1, <1>4 DEF Contract!vars

(* The end of it: Broadcast has counted to the length of the list, so that  *)
(* all of the list have been asked, and what it returns is what was found.  *)
LEMMA ReturnMaps ==
  ASSUME CInv, NEW o \in Otp, FanNobody(o) \/ Finish(o)
  PROVE  Contract!Skip(o) \/ Contract!Return(o)
  <1> DEFINE i == ingest[o]
             j == [i EXCEPT !.pc = "returned"]
  <1>1. /\ i \in Ingestion /\ IngestOK(i) /\ IInv /\ ingest' = [ingest EXCEPT ![o] = j]
        /\ UNCHANGED <<devices, live, otps, heard>>
    BY DEF CInv, IInv, TypeOK, FanNobody, Finish
  <1>2. /\ j \in Ingestion /\ j.pc = "returned" /\ j.sub = i.sub /\ j.result = i.result
        /\ j.dead = i.dead /\ j.taken = i.taken
    BY <1>1, IngestionFields DEF Ingestion
  <1>3. Finish(o) => IngestOK(j)
    BY <1>1, FinishedOK DEF Finish, Expected, Listed
  <1> HIDE DEF j
  <1>4. /\ Phase' = [Phase EXCEPT ![o] = "returned"]
        /\ Due' = Due /\ Asked' = Asked /\ Missed' = Missed
        /\ Report' = [Report EXCEPT ![o] = i.dead]
    <2>1. Due' = Due /\ Asked' = Asked /\ Missed' = Missed
      BY <1>1, <1>2, Unseen
    <2>2. /\ Phase' = [Phase EXCEPT ![o] = j.pc]
          /\ Report' = [Report EXCEPT ![o] = IF j.pc = "returned" THEN j.dead ELSE {}]
      BY <1>1, <1>2, Seen
    <2> QED
      BY <1>2, <2>1, <2>2
  <1>5. CASE FanNobody(o)
    <2>1. i.pc = "stored" /\ i.dead = {}
      BY <1>1, <1>5 DEF FanNobody, IngestOK, Tally
    <2>2. Report[o] = {} /\ Phase[o] = "stored"
      BY <1>1, <2>1, SeenNow
    <2>3. Report' = Report
      BY <1>4, <2>1, <2>2 DEF Report
    <2> QED
      BY <1>1, <1>4, <2>2, <2>3 DEF Contract!Skip
  <1>6. CASE Finish(o)
    <2>1. i.pc = "sending" /\ \A d \in Device : i.sub[d] # None => d \in i.taken
      BY <1>2, <1>3, <1>6 DEF Finish, IngestOK
    <2>2. Asked[o] = Due[o] /\ Phase[o] = "sending"
      <3>1. \A d \in Device : i.result[d] \in {"kept", "gone"} <=> i.sub[d] # None
        BY <1>1, <2>1 DEF IngestOK
      <3>2. /\ Phase[o] = i.pc
            /\ Due[o] = {d \in Device : i.sub[d] # None}
            /\ Asked[o] = {d \in Device : i.result[d] \in {"kept", "gone"}}
        BY <1>1, SeenNow
      <3> QED
        BY <2>1, <3>1, <3>2
    <2>3. i.dead = {devices[d].sub : d \in Missed[o]}
      <3>1. Missed[o] = {d \in i.taken : i.result[d] = "gone"}
        <4>1. i.taken \subseteq Device
          BY <1>1, IngestionFields
        <4> QED
          BY <1>1, <2>1, <4>1, SeenNow DEF IngestOK
      <3>2. \A d \in Missed[o] : devices[d].sub = i.sub[d]
        BY <1>1, SeenNow DEF CInv, ListStands, Listed, IngestOK
      <3> QED
        BY <1>1, <3>1, <3>2 DEF IngestOK, Tally
    <2> QED
      BY <1>1, <1>4, <2>2, <2>3 DEF Contract!Return
  <1> QED
    BY <1>5, <1>6

(* Seen from outside, the announcement of an OTP is one call that asks each *)
(* listed destination once and returns with exactly the dead subscriptions, *)
(* for any number of destinations and every order of their answers.         *)
THEOREM PushKeepsContract == Spec => KeepsPushContract
  <1>1. Init => Contract!Init
    BY DEF Init, Contract!Init, Contract!Nobody, Idle, Phase, Due, Listed, Asked, Missed, Report
  <1>2. CInv /\ [Next]_vars => [Contract!Next]_(Contract!vars)
    <2> SUFFICES ASSUME CInv, [Next]_vars PROVE [Contract!Next]_(Contract!vars)
      OBVIOUS
    <2>1. ingest' = ingest =>
            Phase' = Phase /\ Due' = Due /\ Asked' = Asked /\ Missed' = Missed /\ Report' = Report
      BY DEF Phase, Due, Listed, Asked, Missed, Report
    <2>2. ASSUME NEW d \in Device, Revoke(d) PROVE Contract!Revoke(d)
      BY <2>1, <2>2 DEF Revoke, Contract!Revoke
    <2>3. ASSUME NEW d \in Device, NEW s \in Sub \cup {None}, Register(d, s)
          PROVE  Contract!Enrol(d, s)
      BY <2>1, <2>3 DEF Register, Contract!Enrol
    <2>4. ASSUME NEW s \in Sub, Unsubscribe(s) PROVE Contract!Drop(s)
      BY <2>1, <2>4 DEF Unsubscribe, Contract!Drop
    <2>5. UNCHANGED vars => UNCHANGED Contract!vars
      BY <2>1 DEF vars, Contract!vars
    <2> QED
      BY <2>2, <2>3, <2>4, <2>5, StoreMaps, FanMaps, NotifyMaps, ReceiveMaps, ReturnMaps
      DEF Next, Collector, Contract!Next
  <1> QED
    BY <1>1, <1>2, ContractInvariant, PTL DEF Spec, KeepsPushContract, Contract!Spec
-------------------------------------------------------------------------------
(* Liveness.  That the guards of a reply and of the collector are all that  *)
(* these need, and that a number which falls until something happens does   *)
(* not fall for ever, stand among the hypotheses: the provers have no       *)
(* ENABLED and no induction over temporal formulas.                         *)
CanReply(o, d) == ENABLED <<Reply(o, d)>>_vars
CanCollect(o) == ENABLED <<Collector(o)>>_vars

Posting(o, d) == ingest[o].result[d] = "posting" /\ ingest[o].sub[d] \notin Deaf
Answered(o, d) == ingest[o].result[d] # "posting"

(* dispatchPush has the list; a result is in the channel; all are taken.    *)
Ready(o) == ingest[o].pc = "stored"
Returned(o) == ingest[o].pc = "returned"
DeafListed(o) == \E d \in Listed(o) : ingest[o].sub[d] \in Deaf
Left(o) == Listed(o) \ ingest[o].taken
Gathering(o, n) == ingest[o].pc = "sending" /\ ~DeafListed(o) /\ Cardinality(Left(o)) = n
HasResult(o, n) == Gathering(o, n) /\ Queued(o) # {}
Expecting(o, n, d) == Gathering(o, n) /\ Posting(o, d)

GuardsSuffice ==
  \A o \in Otp :
    /\ \A d \in Device : Posting(o, d) => CanReply(o, d)
    /\ \/ Ready(o)
       \/ ingest[o].pc = "sending" /\ Queued(o) # {}
            /\ Cardinality(ingest[o].taken) < Expected(o)
       \/ ingest[o].pc = "sending" /\ Cardinality(ingest[o].taken) = Expected(o)
       => CanCollect(o)

LeftFalls(o, n) == Gathering(o, n) ~> Gathering(o, n - 1)
LeftLands(o, n) == Gathering(o, n) ~> Gathering(o, 0)
CountdownsEnd ==
  \A o \in Otp :
    (\A n \in Nat \ {0} : LeftFalls(o, n)) => \A n \in Nat : LeftLands(o, n)

(* What holds of a run that is scheduled fairly, and of every suffix of it. *)
Scheduled == Spec /\ []Fairness /\ []GuardsSuffice /\ []CountdownsEnd
Run == []IInv /\ [][Next]_vars /\ []Fairness /\ []GuardsSuffice /\ []CountdownsEnd

LEMMA RunLasts == (Scheduled => Run) /\ (Run => []Run)
  BY InductiveInvariant, PTL DEF Run, Scheduled, Spec

LEMMA RunCounts == Run => CountdownsEnd
  BY PTL DEF Run

LEMMA ReplyServed ==
  ASSUME NEW o \in Otp, NEW d \in Device PROVE Fairness => Replies(o, d)
  BY DEF Fairness

LEMMA CollectorServed == ASSUME NEW o \in Otp PROVE Fairness => Collects(o)
  BY DEF Fairness

(* What a step may do to the Ingest call of one OTP. *)
Told(i, j) ==
  /\ j.pc = i.pc /\ j.sub = i.sub /\ j.taken = i.taken
  /\ \E d \in Device : /\ i.result[d] = "posting"
                       /\ \E what \in {"kept", "gone"} :
                            j.result = [i.result EXCEPT ![d] = what]
Took(i, j) ==
  /\ j.pc = i.pc /\ j.sub = i.sub /\ j.result = i.result
  /\ \E d \in Device : /\ i.result[d] \in {"kept", "gone"} /\ d \notin i.taken
                       /\ j.taken = i.taken \cup {d}
Ended(i, j) == j.pc = "returned" /\ j.sub = i.sub /\ j.result = i.result

LEMMA CollectorMoves ==
  ASSUME IInv, NEW o \in Otp, Collector(o)
  PROVE  \/ ingest[o].pc = "stored" /\ ingest'[o].pc \in {"sending", "returned"}
         \/ ingest[o].pc = "sending" /\ Took(ingest[o], ingest'[o])
         \/ /\ ingest[o].pc = "sending" /\ Ended(ingest[o], ingest'[o])
            /\ Cardinality(ingest[o].taken) = Expected(o)
  <1>1. ingest \in [Otp -> Ingestion] /\ ingest[o] \in Ingestion
    BY DEF IInv, TypeOK
  <1>2. ASSUME Fan(o) PROVE ingest[o].pc = "stored" /\ ingest'[o].pc = "sending"
    BY <1>1, <1>2 DEF Fan, Ingestion
  <1>3. ASSUME FanNobody(o) PROVE ingest[o].pc = "stored" /\ ingest'[o].pc = "returned"
    BY <1>1, <1>3 DEF FanNobody, Ingestion
  <1>4. ASSUME NEW d \in Device, Receive(o, d)
        PROVE  ingest[o].pc = "sending" /\ Took(ingest[o], ingest'[o])
    <2>1. /\ ingest'[o].pc = ingest[o].pc /\ ingest'[o].sub = ingest[o].sub
          /\ ingest'[o].result = ingest[o].result
          /\ ingest'[o].taken = ingest[o].taken \cup {d}
      BY <1>1, <1>4 DEF Receive, Ingestion
    <2> QED
      BY <1>4, <2>1 DEF Receive, Queued, Took
  <1>5. ASSUME Finish(o)
        PROVE  /\ ingest[o].pc = "sending" /\ Ended(ingest[o], ingest'[o])
               /\ Cardinality(ingest[o].taken) = Expected(o)
    BY <1>1, <1>5 DEF Finish, Ingestion, Ended
  <1> QED
    BY <1>2, <1>3, <1>4, <1>5 DEF Collector

LEMMA NotifyMoves ==
  ASSUME IInv, NEW o \in Otp, NEW d \in Device, Notify(o, d)
  PROVE  /\ ingest[o].result[d] = "posting" /\ Told(ingest[o], ingest'[o])
         /\ ingest'[o].result[d] # "posting"
  <1>1. ingest \in [Otp -> Ingestion] /\ ingest[o] \in Ingestion
    BY DEF IInv, TypeOK
  <1>2. PICK what \in {"kept", "gone"} :
          /\ ingest[o].result[d] = "posting"
          /\ ingest' = [ingest EXCEPT ![o].result[d] = what]
    BY DEF Notify, Answer
  <1>3. /\ ingest'[o].pc = ingest[o].pc /\ ingest'[o].sub = ingest[o].sub
        /\ ingest'[o].taken = ingest[o].taken
        /\ ingest'[o].result = [ingest[o].result EXCEPT ![d] = what]
    BY <1>1, <1>2 DEF Ingestion
  <1>4. ingest'[o].result[d] = what
    BY <1>1, <1>3 DEF Ingestion
  <1> QED
    BY <1>2, <1>3, <1>4 DEF Told

LEMMA IngestMoves ==
  ASSUME IInv, [Next]_vars, NEW o \in Otp
  PROVE  \/ ingest'[o] = ingest[o]
         \/ ingest[o].pc = "idle" /\ ingest'[o].pc = "stored"
         \/ Collector(o)
         \/ \E d \in Device : Notify(o, d)
  <1>1. ingest \in [Otp -> Ingestion] /\ ingest[o] \in Ingestion
    BY DEF IInv, TypeOK
  <1>2. ASSUME NEW x \in Otp, x # o, Store(x) \/ Collector(x) \/ \E d \in Device : Notify(x, d)
        PROVE  ingest'[o] = ingest[o]
    BY <1>1, <1>2 DEF Store, Collector, Fan, FanNobody, Receive, Finish, Notify, Answer
  <1>3. ASSUME Store(o) PROVE ingest[o].pc = "idle" /\ ingest'[o].pc = "stored"
    BY <1>1, <1>3 DEF Store, Ingestion
  <1>4. ASSUME \/ \E d \in Device : Revoke(d) \/ \E s \in Sub \cup {None} : Register(d, s)
               \/ \E s \in Sub : Unsubscribe(s)
               \/ UNCHANGED vars
        PROVE  ingest' = ingest
    BY <1>4 DEF Revoke, Register, Unsubscribe, vars
  <1> QED
    BY <1>2, <1>3, <1>4 DEF Next

(* While a fan-out gathers, its list stands, and all that may happen to it  *)
(* is that a goroutine gets its answer, that a result is taken, or that it  *)
(* has them all.                                                            *)
LEMMA GatheringMoves ==
  ASSUME IInv, [Next]_vars, NEW o \in Otp, ingest[o].pc = "sending"
  PROVE  \/ ingest'[o] = ingest[o]
         \/ Told(ingest[o], ingest'[o])
         \/ Took(ingest[o], ingest'[o])
         \/ Ended(ingest[o], ingest'[o]) /\ Cardinality(ingest[o].taken) = Expected(o)
  BY IngestMoves, CollectorMoves, NotifyMoves

(* A goroutine whose service answers is through in the end, whatever the    *)
(* others wait for.                                                         *)
LEMMA PostingAnswered ==
  ASSUME NEW o \in Otp, NEW d \in Device
  PROVE  Run => (Posting(o, d) ~> Answered(o, d))
  <1>1. IInv /\ Posting(o, d) /\ [Next]_vars => Posting(o, d)' \/ Answered(o, d)'
    <2> SUFFICES ASSUME IInv, Posting(o, d), [Next]_vars
                 PROVE  Posting(o, d)' \/ Answered(o, d)'
      OBVIOUS
    <2>1. ingest \in [Otp -> Ingestion] /\ ingest[o] \in Ingestion /\ IngestOK(ingest[o])
      BY DEF IInv, TypeOK
    <2>2. ingest[o].pc = "sending"
      BY <2>1, IngestionFields DEF IngestOK, Posting
    <2>3. ingest'[o].sub = ingest[o].sub
      BY <2>2, GatheringMoves DEF Told, Took, Ended
    <2> QED
      BY <2>3 DEF Posting, Answered
  <1>2. IInv /\ Posting(o, d) /\ <<Reply(o, d)>>_vars => Answered(o, d)'
    BY NotifyMoves DEF Reply, Answered
  <1>3. Posting(o, d) /\ GuardsSuffice => CanReply(o, d)
    BY DEF GuardsSuffice
  <1> QED
    BY <1>1, <1>2, <1>3, ReplyServed, PTL DEF Run, CanReply, Replies

(* A slow service delays nobody else's signal.                              *)
THEOREM NobodyIsDelayed == Scheduled => NobodyWaitsForTheDeaf
  <1> DEFINE Through(o, d) == Posting(o, d) ~> Answered(o, d)
  <1>1. ASSUME NEW o \in Otp, NEW d \in Device PROVE Run => Through(o, d)
    BY PostingAnswered
  <1>2. Run => \A o \in Otp, d \in Device : Through(o, d)
    <2> HIDE DEF Through
    <2> QED
      BY <1>1
  <1>3. (\A o \in Otp, d \in Device : Through(o, d)) => NobodyWaitsForTheDeaf
    BY DEF NobodyWaitsForTheDeaf, Posting, Answered
  <1> QED
    BY <1>2, <1>3, RunLasts, PTL
-------------------------------------------------------------------------------
LEMMA SameList ==
  ASSUME NEW o \in Otp, ingest'[o].sub = ingest[o].sub
  PROVE  /\ Listed(o)' = Listed(o) /\ DeafListed(o)' = DeafListed(o)
         /\ ingest'[o].taken = ingest[o].taken => Left(o)' = Left(o)
  BY DEF Listed, DeafListed, Left

LEMMA GatheringCount ==
  ASSUME IInv, NEW o \in Otp, ingest[o].pc = "sending"
  PROVE  /\ IsFiniteSet(Left(o)) /\ Cardinality(Left(o)) \in Nat
         /\ ingest[o].taken \subseteq Listed(o)
         /\ Cardinality(ingest[o].taken) = Expected(o) <=> Left(o) = {}
         /\ Left(o) # {} => Cardinality(ingest[o].taken) < Expected(o)
  <1>1. ingest[o] \in Ingestion /\ IngestOK(ingest[o])
    BY DEF IInv, TypeOK
  <1>2. ingest[o].taken \subseteq Listed(o)
    BY <1>1, IngestionFields DEF IngestOK, Listed
  <1>3. Listed(o) \subseteq Device /\ Left(o) \subseteq Device
    BY DEF Listed, Left
  <1>4. IsFiniteSet(Listed(o)) /\ IsFiniteSet(Left(o))
    BY <1>3, PushAssumption, FS_Subset
  <1>5. /\ IsFiniteSet(ingest[o].taken)
        /\ Cardinality(ingest[o].taken) <= Expected(o)
        /\ Expected(o) = Cardinality(ingest[o].taken) => Listed(o) = ingest[o].taken
    BY <1>2, <1>4, FS_Subset DEF Expected
  <1>6. Expected(o) \in Nat /\ Cardinality(ingest[o].taken) \in Nat /\ Cardinality(Left(o)) \in Nat
    BY <1>4, <1>5, FS_CardinalityType DEF Expected
  <1>7. Left(o) = {} <=> Listed(o) = ingest[o].taken
    BY <1>2 DEF Left
  <1> QED
    BY <1>2, <1>4, <1>5, <1>6, <1>7 DEF Expected

(* A step leaves as many results to gather, or one fewer; and it leaves a   *)
(* result that is in the channel there, unless that is the one it takes.    *)
LEMMA LeftMoves ==
  ASSUME IInv, [Next]_vars, NEW o \in Otp, NEW n \in Nat, Gathering(o, n)
  PROVE  \/ /\ Gathering(o, n)'
            /\ \A d \in Device : ingest[o].result[d] # "posting" => ingest'[o].result[d] = ingest[o].result[d]
            /\ ingest'[o].taken = ingest[o].taken /\ Left(o)' = Left(o)
         \/ n # 0 /\ Gathering(o, n - 1)' /\ Took(ingest[o], ingest'[o])
         \/ n = 0 /\ Returned(o)'
  <1>1. /\ ingest \in [Otp -> Ingestion] /\ ingest[o] \in Ingestion /\ IngestOK(ingest[o])
        /\ ingest[o].pc = "sending" /\ n = Cardinality(Left(o)) /\ ~DeafListed(o)
    BY DEF IInv, TypeOK, Gathering
  <1>2. ingest'[o].sub = ingest[o].sub
    BY <1>1, GatheringMoves DEF Told, Took, Ended
  <1>3. CASE ingest'[o] = ingest[o] \/ Told(ingest[o], ingest'[o])
    <2>1. \A d \in Device : ingest[o].result[d] # "posting" => ingest'[o].result[d] = ingest[o].result[d]
      BY <1>1, <1>3, IngestionFields DEF Told
    <2>2. ingest'[o].taken = ingest[o].taken /\ ingest'[o].pc = ingest[o].pc
      BY <1>3 DEF Told
    <2> QED
      BY <1>1, <1>2, <2>1, <2>2, SameList DEF Gathering
  <1>4. CASE Took(ingest[o], ingest'[o])
    <2>1. PICK d \in Device : /\ ingest[o].result[d] \in {"kept", "gone"} /\ d \notin ingest[o].taken
                              /\ ingest'[o].taken = ingest[o].taken \cup {d}
      BY <1>4 DEF Took
    <2>2. d \in Left(o)
      BY <1>1, <2>1 DEF Left, Listed, IngestOK
    <2>3. Left(o)' = Left(o) \ {d}
      BY <1>2, <2>1, SameList DEF Left
    <2>4. Cardinality(Left(o)') = n - 1 /\ n # 0
      BY <1>1, <2>2, <2>3, GatheringCount, FS_RemoveElement, FS_EmptySet
    <2> QED
      BY <1>1, <1>2, <1>4, <2>4, SameList DEF Gathering, Took
  <1>5. CASE Ended(ingest[o], ingest'[o]) /\ Cardinality(ingest[o].taken) = Expected(o)
    BY <1>1, <1>5, GatheringCount, FS_EmptySet DEF Ended, Returned
  <1> QED
    BY <1>1, <1>3, <1>4, <1>5, GatheringMoves

(* It receives what is in the channel.                                      *)
LEMMA ResultTaken ==
  ASSUME NEW o \in Otp, NEW n \in Nat \ {0}
  PROVE  Run => (HasResult(o, n) ~> Gathering(o, n - 1))
  <1>1. IInv /\ HasResult(o, n) /\ [Next]_vars => HasResult(o, n)' \/ Gathering(o, n - 1)'
    <2> SUFFICES ASSUME IInv, HasResult(o, n), [Next]_vars, ~Gathering(o, n - 1)'
                 PROVE  HasResult(o, n)'
      OBVIOUS
    <2>1. /\ Gathering(o, n)' /\ ingest'[o].taken = ingest[o].taken
          /\ \A d \in Device : ingest[o].result[d] # "posting" => ingest'[o].result[d] = ingest[o].result[d]
      BY LeftMoves DEF HasResult
    <2>2. PICK d \in Device : ingest[o].result[d] \in {"kept", "gone"} /\ d \notin ingest[o].taken
      BY DEF HasResult, Queued
    <2>3. d \in Queued(o)'
      BY <2>1, <2>2 DEF Queued
    <2> QED
      BY <2>1, <2>3 DEF HasResult
  <1>2. IInv /\ HasResult(o, n) /\ <<Collector(o)>>_vars => Gathering(o, n - 1)'
    <2> SUFFICES ASSUME IInv, HasResult(o, n), Collector(o) PROVE Gathering(o, n - 1)'
      OBVIOUS
    <2>1. ingest[o].pc = "sending" /\ Left(o) # {} /\ Cardinality(Left(o)) = n
      BY GatheringCount, FS_EmptySet DEF HasResult, Gathering
    <2>2. Took(ingest[o], ingest'[o])
      BY <2>1, CollectorMoves, GatheringCount DEF HasResult
    <2>3. ingest'[o].taken # ingest[o].taken
      BY <2>2 DEF Took
    <2>4. [Next]_vars
      BY DEF Next
    <2> QED
      BY <2>3, <2>4, LeftMoves DEF HasResult
  <1>3. IInv /\ HasResult(o, n) /\ GuardsSuffice => CanCollect(o)
    <2> SUFFICES ASSUME IInv, HasResult(o, n), GuardsSuffice PROVE CanCollect(o)
      OBVIOUS
    <2>1. ingest[o].pc = "sending" /\ Queued(o) # {} /\ Left(o) # {}
      BY GatheringCount, FS_EmptySet DEF HasResult, Gathering
    <2> QED
      BY <2>1, GatheringCount DEF GuardsSuffice
  <1> QED
    BY <1>1, <1>2, <1>3, CollectorServed, PTL DEF Run, CanCollect, Collects

(* Somebody it waits for answers.                                           *)
LEMMA ExpectedComes ==
  ASSUME NEW o \in Otp, NEW n \in Nat \ {0}, NEW d \in Device
  PROVE  Run => (Expecting(o, n, d) ~> HasResult(o, n) \/ Gathering(o, n - 1))
  <1>1. IInv /\ Expecting(o, n, d) /\ [Next]_vars =>
          Expecting(o, n, d)' \/ HasResult(o, n)' \/ Gathering(o, n - 1)'
    <2> SUFFICES ASSUME IInv, Expecting(o, n, d), [Next]_vars, ~Gathering(o, n - 1)'
                 PROVE  Expecting(o, n, d)' \/ HasResult(o, n)'
      OBVIOUS
    <2>1. /\ ingest \in [Otp -> Ingestion] /\ ingest[o] \in Ingestion /\ IngestOK(ingest[o])
          /\ ingest[o].pc = "sending"
      BY DEF IInv, TypeOK, Expecting, Gathering
    <2>2. Gathering(o, n)' /\ ingest'[o].taken = ingest[o].taken
      BY LeftMoves DEF Expecting
    <2>3. d \notin ingest[o].taken
      BY <2>1 DEF IngestOK, Expecting, Posting
    <2>4. ingest'[o].sub = ingest[o].sub
      BY <2>1, GatheringMoves DEF Told, Took, Ended
    <2>5. ingest'[o].result[d] \in {"posting", "kept", "gone"}
      BY <2>1, GatheringMoves, IngestionFields DEF Told, Took, Ended, Expecting, Posting
    <2> QED
      BY <2>2, <2>3, <2>4, <2>5 DEF Expecting, Posting, HasResult, Queued
  <1>2. IInv /\ Expecting(o, n, d) /\ <<Reply(o, d)>>_vars => ~Expecting(o, n, d)'
    BY NotifyMoves DEF Reply, Expecting, Posting
  <1>3. Expecting(o, n, d) /\ GuardsSuffice => CanReply(o, d)
    BY DEF GuardsSuffice, Expecting
  <1> QED
    BY <1>1, <1>2, <1>3, ReplyServed, PTL DEF Run, CanReply, Replies

LEMMA LeftShrinks ==
  ASSUME NEW o \in Otp, NEW n \in Nat \ {0} PROVE Run => LeftFalls(o, n)
  <1>1. ASSUME NEW d \in Device
        PROVE  Run => (Expecting(o, n, d) => <>Gathering(o, n - 1))
    <2>1. Run => (Expecting(o, n, d) ~> HasResult(o, n) \/ Gathering(o, n - 1))
      BY ExpectedComes
    <2>2. Run => (HasResult(o, n) ~> Gathering(o, n - 1))
      BY ResultTaken
    <2> QED
      BY <2>1, <2>2, PTL
  <1>2. Run => (HasResult(o, n) => <>Gathering(o, n - 1))
    <2>1. Run => (HasResult(o, n) ~> Gathering(o, n - 1))
      BY ResultTaken
    <2> QED
      BY <2>1, PTL
  <1>3. IInv /\ Gathering(o, n) => HasResult(o, n) \/ \E d \in Device : Expecting(o, n, d)
    <2> SUFFICES ASSUME IInv, Gathering(o, n)
                 PROVE  HasResult(o, n) \/ \E d \in Device : Expecting(o, n, d)
      OBVIOUS
    <2>1. ingest[o] \in Ingestion /\ IngestOK(ingest[o]) /\ ingest[o].pc = "sending"
      BY DEF IInv, TypeOK, Gathering
    <2>2. Left(o) # {}
      BY FS_EmptySet DEF Gathering
    <2>3. PICK d \in Listed(o) : d \notin ingest[o].taken
      BY <2>2 DEF Left
    <2>4. d \in Device /\ ingest[o].sub[d] \notin Deaf /\ ingest[o].result[d] # "none"
      BY <2>1 DEF Listed, IngestOK, Gathering, DeafListed
    <2>5. ingest[o].result[d] \in {"posting", "kept", "gone"}
      BY <2>1, <2>4, IngestionFields
    <2> QED
      BY <2>3, <2>4, <2>5 DEF HasResult, Queued, Expecting, Posting
  <1>4. Run /\ IInv => (Gathering(o, n) => <>Gathering(o, n - 1))
    BY <1>1, <1>2, <1>3
  <1> QED
    BY <1>4, RunLasts, PTL DEF Run, LeftFalls

(* It has them all.                                                         *)
LEMMA AllTakenReturns ==
  ASSUME NEW o \in Otp PROVE Run => (Gathering(o, 0) ~> Returned(o))
  <1>1. IInv /\ Gathering(o, 0) /\ [Next]_vars => Gathering(o, 0)' \/ Returned(o)'
    BY LeftMoves
  <1>2. IInv /\ Gathering(o, 0) /\ <<Collector(o)>>_vars => Returned(o)'
    <2> SUFFICES ASSUME IInv, Gathering(o, 0), Collector(o) PROVE Returned(o)'
      OBVIOUS
    <2>1. ingest[o].pc = "sending" /\ [Next]_vars
      BY DEF Gathering, Next
    <2>2. ~Took(ingest[o], ingest'[o])
      <3> SUFFICES ASSUME Took(ingest[o], ingest'[o]) PROVE FALSE
        OBVIOUS
      <3>1. ingest'[o].taken # ingest[o].taken /\ ingest'[o].pc = "sending"
        BY <2>1 DEF Took
      <3> QED
        BY <2>1, <3>1, LeftMoves DEF Returned
    <2> QED
      BY <2>1, <2>2, CollectorMoves DEF Ended, Returned
  <1>3. IInv /\ Gathering(o, 0) /\ GuardsSuffice => CanCollect(o)
    <2> SUFFICES ASSUME IInv, Gathering(o, 0), GuardsSuffice PROVE CanCollect(o)
      OBVIOUS
    <2>1. ingest[o].pc = "sending" /\ Left(o) = {}
      BY GatheringCount, FS_EmptySet DEF Gathering
    <2> QED
      BY <2>1, GatheringCount DEF GuardsSuffice
  <1> QED
    BY <1>1, <1>2, <1>3, CollectorServed, PTL DEF Run, CanCollect, Collects

LEMMA GatheringReturns ==
  ASSUME NEW o \in Otp, NEW n \in Nat PROVE Run => (Gathering(o, n) ~> Returned(o))
  <1>1. ASSUME NEW k \in Nat \ {0} PROVE Run => LeftFalls(o, k)
    BY LeftShrinks
  <1>2. Run => LeftLands(o, n)
    BY <1>1, RunCounts DEF CountdownsEnd
  <1>3. Run => (Gathering(o, 0) ~> Returned(o))
    BY AllTakenReturns
  <1> QED
    BY <1>2, <1>3, RunLasts, PTL DEF LeftLands

Going(o) == ingest[o].pc # "idle"
Free(o) ==
  \/ ingest[o].pc = "returned"
  \/ \E d \in Listed(o) : ingest[o].sub[d] \in Deaf
Fanning(o) == ingest[o].pc = "sending"

(* The fan-out begins, or there is nobody to tell.                          *)
LEMMA ReadyFans ==
  ASSUME NEW o \in Otp PROVE Run => (Ready(o) ~> Fanning(o) \/ Returned(o))
  <1>1. IInv /\ Ready(o) /\ [Next]_vars => Ready(o)' \/ Fanning(o)' \/ Returned(o)'
    BY IngestMoves, CollectorMoves, NotifyMoves DEF Ready, Fanning, Returned, Told
  <1>2. IInv /\ Ready(o) /\ <<Collector(o)>>_vars => Fanning(o)' \/ Returned(o)'
    BY CollectorMoves DEF Ready, Fanning, Returned
  <1>3. Ready(o) /\ GuardsSuffice => CanCollect(o)
    BY DEF GuardsSuffice
  <1> QED
    BY <1>1, <1>2, <1>3, CollectorServed, PTL DEF Run, CanCollect, Collects

(* The source is answered if no service on the list is deaf: Ingest comes   *)
(* back, however many destinations there are and in whatever order they     *)
(* answer.                                                                  *)
THEOREM SourceIsAnswered == Scheduled => IngestReturns
  <1> DEFINE Comes(o) == Going(o) ~> Free(o)
  <1>1. ASSUME NEW o \in Otp PROVE Run => Comes(o)
    <2>1. ASSUME NEW n \in Nat PROVE Run => (Gathering(o, n) => <>Free(o))
      <3>1. Run => (Gathering(o, n) ~> Returned(o))
        BY GatheringReturns
      <3>2. Returned(o) => Free(o)
        BY DEF Free, Returned, DeafListed
      <3> QED
        BY <3>1, <3>2, PTL
    <2>2. IInv /\ Fanning(o) => DeafListed(o) \/ \E n \in Nat : Gathering(o, n)
      BY GatheringCount DEF Fanning, Gathering
    <2>3. DeafListed(o) => Free(o)
      BY DEF Free, Returned, DeafListed
    <2>4. Run /\ IInv => (Fanning(o) => <>Free(o))
      <3>1. Free(o) => <>Free(o)
        BY PTL
      <3> QED
        BY <2>1, <2>2, <2>3, <3>1
    <2>5. Run => (Ready(o) ~> Fanning(o) \/ Returned(o))
      BY ReadyFans
    <2>6. IInv /\ Going(o) => Ready(o) \/ Fanning(o) \/ Returned(o)
      BY DEF IInv, TypeOK, Ingestion, Going, Ready, Fanning, Returned
    <2>7. Returned(o) => Free(o)
      BY DEF Free, Returned, DeafListed
    <2> QED
      BY <2>4, <2>5, <2>6, <2>7, RunLasts, PTL DEF Run
  <1>2. Run => \A o \in Otp : Comes(o)
    <2> HIDE DEF Comes
    <2> QED
      BY <1>1
  <1>3. (\A o \in Otp : Comes(o)) => IngestReturns
    BY DEF IngestReturns, Going, Free
  <1> QED
    BY <1>2, <1>3, RunLasts, PTL
===============================================================================
