----------------------------- MODULE DeliveryProofs -----------------------------
(***************************************************************************)
(* Results about the relay from end to end, on top of RelayProofs: to whom *)
(* the payload of an OTP travels at all when the manager's schedule is     *)
(* punctual, that both contracts hold of the components as they are wired, *)
(* and that no goroutine of the manager is ever left with nothing it could *)
(* do next.                                                                *)
(*                                                                         *)
(* The last rests on an invariant of its own: a pump or a handler has one  *)
(* claim in hand at a time, and is inside SendToDevice with that claim     *)
(* unfinished only when invalidate has told the first of its two rivals.   *)
(***************************************************************************)
EXTENDS RelayProofs

(* The devices to whose address a payload of o is on its way, in a sender's *)
(* hands or in a connection's queue.                                        *)
Bound(o) ==
  {d \in Device :
     \/ \E g \in Goroutine : About(mail[g], d, o) /\ mail[g].type = "otp_payload"
     \/ \E k \in Conn : \E i \in 1..Len(box[k]) :
          About(box[k][i], d, o) /\ box[k][i].type = "otp_payload"}

(* paid[o] is never reduced, so this speaks of the whole run: whoever the   *)
(* payload of o travels to, it is always the same device.                   *)
OneReceiver ==
  \A o \in Otp : Bound(o) \subseteq paid[o] /\ \A d, e \in paid[o] : d = e

LEMMA BoundIsPaid ==
  ASSUME IInv, NEW o \in Otp
  PROVE  Bound(o) \subseteq paid[o]
<1> SUFFICES ASSUME NEW d \in Device, d \in Bound(o) PROVE d \in paid[o]
    BY DEF Bound
<1>1. ASSUME NEW g \in Goroutine, About(mail[g], d, o), mail[g].type = "otp_payload"
      PROVE  d \in paid[o]
  BY <1>1 DEF IInv, MailOK, EnvelopeOK, About
<1>2. ASSUME NEW k \in Conn, NEW i \in 1..Len(box[k]), About(box[k][i], d, o),
             box[k][i].type = "otp_payload"
      PROVE  d \in paid[o]
  <2>1. box[k][i] # Local
    BY <1>2, RelayAssumption DEF About, Local, RelayAssumption, M!TableAssumption
  <2> QED
    BY <1>2, <2>1 DEF IInv, BoxOK, EnvelopeOK, About
<1> QED
  BY <1>1, <1>2 DEF Bound

(* Under a punctual schedule the payload of an OTP leaves for one device    *)
(* only, and no displaced or reused connection, nor a client looked up      *)
(* before a reconnect, brings it to another.                                *)
THEOREM PayloadHasOneReceiver == ASSUME MP!Punctual PROVE Spec => []OneReceiver
<1>1. MP!Spec => []MP!AtMostOneDelivery
  BY MP!OneDelivery, Assumptions
<1>2. Init => MP!Init
  BY SameManager DEF Init
<1>3. IInv /\ [Next]_vars => [MP!Next]_(MP!vars)
  BY ManagerSteps, SameManager DEF vars, manager, MP!vars
<1>4. IInv /\ MP!AtMostOneDelivery => OneReceiver
  BY BoundIsPaid DEF MP!AtMostOneDelivery, OneReceiver
<1> QED
  BY <1>1, <1>2, <1>3, <1>4, InductiveInvariant, PTL DEF Spec, MP!Spec

(* As they are wired, the manager and the hub each keep what they promise:  *)
(* the decisions and answers of ClaimContract, the frames of HubContract.   *)
THEOREM WiringKeepsContracts == Spec => MP!KeepsContract /\ HP!KeepsHubContract
<1>1. MP!Spec => MP!KeepsContract
  BY MP!ManagerKeepsContract, Assumptions
<1>2. HP!Spec => HP!KeepsHubContract
  BY HP!HubKeepsContract, Assumptions
<1>3. Init => MP!Init /\ HP!Init
  BY SameManager, SameHub DEF Init
<1>4. IInv /\ [Next]_vars => [MP!Next]_(MP!vars) /\ [HP!Next]_(HP!vars)
  BY ManagerSteps, SameManager, HubSteps, SameHub
  DEF vars, manager, hub, MP!vars, HP!vars
<1> QED
  BY <1>1, <1>2, <1>3, <1>4, InductiveInvariant, PTL DEF Spec, MP!Spec, HP!Spec
--------------------------------------------------------------------------------
OneJob == \A c, x \in Call : by[c] # None /\ by[c] = by[x] => c = x

InHand(c) ==
  by[c] # None =>
    /\ call[c].pc \in {"enter", "kill", "notify"}
    /\ mail[by[c]] # None => call[c].pc = "notify" /\ Len(call[c].who) = 1

JInv ==
  /\ IInv
  /\ OneJob
  /\ \A c \in Call : InHand(c)

LEMMA JobShape ==
  ASSUME IInv
  PROVE  /\ call \in [Call -> M!CallState]
         /\ by \in [Call -> Conn \cup Handler \cup {None}]
         /\ mail \in [Goroutine -> M!Envelope \cup {None}]
         /\ Conn \cap Call = {} /\ Handler \cap Call = {} /\ None \notin Goroutine
BY RelayAssumption
DEF IInv, MP!RInv, MP!IInv, MP!TypeOK, MP!CallState, M!CallState, MP!PC, M!PC, Wiring,
    RelayAssumption

(* A step of one activity leaves the others alone, but for a timer that it  *)
(* stops.                                                                   *)
LEMMA OthersKept ==
  ASSUME IInv, NEW c \in Call, M!Step(c), NEW x \in Call, x # c, call[x].pc # "armed"
  PROVE  call'[x] = call[x]
<1>1. call \in [Call -> M!CallState]
  BY JobShape
<1>2. M!SecondClaim(c) => call'[x] = call[x]
  BY <1>1 DEF M!SecondClaim, M!Stopped
<1>3. M!OpenWindow(c) \/ M!TakeWindow(c) \/ M!Notify(c) => call'[x] = call[x]
  BY <1>1 DEF M!OpenWindow, M!TakeWindow, M!Notify, M!Return
<1>4. M!RepeatClaim(c) \/ M!Fire(c) \/ M!Reload(c) \/ M!Mark(c) \/ M!Deliver(c) \/ M!Kill(c)
        => call'[x] = call[x]
  BY <1>1 DEF M!RepeatClaim, M!Fire, M!Reload, M!Mark, M!Deliver, M!Kill, M!Return, M!Goto
<1> QED
  BY <1>2, <1>3, <1>4 DEF M!Step

(* What is in hand after a step of the claim itself. *)
LEMMA OwnJobStep ==
  ASSUME JInv, NEW c \in Call, Advance(c), by[c] # None, by'[c] # None
  PROVE  by'[c] = by[c] /\ InHand(c)'
<1>1. /\ call \in [Call -> M!CallState] /\ call[c] \in M!CallState
      /\ by \in [Call -> Conn \cup Handler \cup {None}]
      /\ mail \in [Goroutine -> M!Envelope \cup {None}]
  BY JobShape DEF JInv
<1>2. /\ by' = by /\ call'[c].pc \in {"kill", "notify"}
      /\ mail[by[c]] = None /\ by[c] \in Goroutine
      /\ mail' = IF out' = None THEN mail ELSE [mail EXCEPT ![by[c]] = out']
      /\ M!Step(c) /\ call[c].pc \in {"enter", "kill", "notify"}
  BY <1>1 DEF Advance, At, JInv, InHand, Goroutine
<1>3. ASSUME M!SecondClaim(c) \/ M!Kill(c) PROVE InHand(c)'
  <2>1. out' = None
    BY <1>3 DEF M!SecondClaim, M!Kill, M!Quiet
  <2> QED
    BY <1>2, <2>1 DEF InHand
<1>4. ASSUME M!Notify(c) PROVE InHand(c)'
  <2>1. call[c].pc = "notify" /\ MP!IInv
    BY <1>4 DEF M!Notify, JInv, IInv, MP!RInv
  <2>2. /\ Len(call[c].who) \in {1, 2}
        /\ Len(Tail(call[c].who)) = Len(call[c].who) - 1
    BY <2>1, MP!TailShorter, Assumptions
  <2>3. CASE Tail(call[c].who) = <<>>
    BY <1>1, <1>2, <1>4, <2>3 DEF M!Notify, M!Return, M!Idle
  <2>4. CASE Tail(call[c].who) # <<>>
    <3>1. call'[c].pc = "notify" /\ call'[c].who = Tail(call[c].who)
      BY <1>1, <1>4, <2>1, <2>4 DEF M!Notify, M!CallState
    <3>2. Len(Tail(call[c].who)) = 1
      <4>1. call[c].who \in Seq(Device) /\ call[c].who # <<>>
        BY <1>1, <2>1 DEF M!CallState, MP!IInv, MP!CallsOK, MP!CallOK
      <4>2. Tail(call[c].who) \in Seq(Device)
        BY <4>1, HeadTailProperties
      <4>3. Len(Tail(call[c].who)) # 0
        BY <2>4, <4>2, EmptySeq
      <4> QED
        BY <2>2, <4>3
    <3> QED
      BY <1>2, <3>1, <3>2 DEF InHand
  <2> QED
    BY <2>3, <2>4
<1>5. ~(M!OpenWindow(c) \/ M!RepeatClaim(c))
  BY <1>1, <1>2 DEF M!OpenWindow, M!RepeatClaim, M!Return, M!Idle, M!CallState
<1>6. ~(M!Fire(c) \/ M!TakeWindow(c) \/ M!Reload(c) \/ M!Mark(c) \/ M!Deliver(c))
  BY <1>2 DEF M!Fire, M!TakeWindow, M!Reload, M!Mark, M!Deliver
<1> QED
  BY <1>2, <1>3, <1>4, <1>5, <1>6 DEF M!Step

(* A claim stays on its goroutine until it is over, and is taken up by one  *)
(* that has nothing in hand.                                                *)
LEMMA JobStep ==
  ASSUME JInv, Next, NEW c \in Call, by'[c] # None
  PROVE  \/ by'[c] = by[c] /\ InHand(c)'
         \/ \E g \in Conn \cup Handler :
              ~Busy(g) /\ by[c] = None /\ by' = [by EXCEPT ![c] = g] /\ InHand(c)'
<1>1. /\ call \in [Call -> M!CallState]
      /\ by \in [Call -> Conn \cup Handler \cup {None}]
      /\ mail \in [Goroutine -> M!Envelope \cup {None}]
      /\ Conn \cap Call = {} /\ Handler \cap Call = {}
  BY JobShape DEF JInv
<1>2. InHand(c)
  BY DEF JInv
<1>3. ASSUME by'[c] = by[c], call'[c].pc = call[c].pc, call'[c].who = call[c].who,
             mail'[by[c]] = mail[by[c]] \/ mail'[by[c]] = None
      PROVE  by'[c] = by[c] /\ InHand(c)'
  BY <1>2, <1>3 DEF InHand
<1>4. ASSUME NEW g \in Conn \cup Handler, ~Busy(g), NEW d, NEW o, Claim(g, d, o)
      PROVE  \/ by'[c] = by[c] /\ InHand(c)'
             \/ by[c] = None /\ by' = [by EXCEPT ![c] = g] /\ InHand(c)'
  <2>1. CASE M!ClaimRefused(d, o) /\ mail' = [mail EXCEPT ![g] = out'] /\ UNCHANGED by
    <3>1. by[c] # g /\ call' = call
      BY <1>4, <2>1 DEF Busy, M!ClaimRefused
    <3> QED
      BY <1>1, <1>3, <2>1, <3>1 DEF Goroutine
  <2>2. ASSUME NEW x \in Call, M!ClaimPending(x, d, o), by' = [by EXCEPT ![x] = g], mail' = mail
        PROVE  \/ by'[c] = by[c] /\ InHand(c)'
               \/ by[c] = None /\ by' = [by EXCEPT ![c] = g] /\ InHand(c)'
    <3>1. CASE x = c
      <4>1. call'[c].pc = "enter" /\ by'[c] = g /\ mail'[g] = None /\ by[c] = None
        BY <1>1, <1>2, <1>4, <2>2, <3>1 DEF M!ClaimPending, Busy, InHand
      <4> QED
        BY <2>2, <3>1, <4>1 DEF InHand
    <3>2. CASE x # c
      BY <1>1, <1>3, <2>2, <3>2 DEF M!ClaimPending
    <3> QED
      BY <3>1, <3>2
  <2> QED
    BY <1>4, <2>1, <2>2 DEF Claim
<1>5. ASSUME NEW h \in Handler, NEW d \in Device, NEW o \in Otp, ClaimByREST(h, d, o)
      PROVE  \/ by'[c] = by[c] /\ InHand(c)'
             \/ ~Busy(h) /\ by[c] = None /\ by' = [by EXCEPT ![c] = h] /\ InHand(c)'
  BY <1>4, <1>5 DEF ClaimByREST
<1>6. ASSUME NEW k \in Conn, NEW o \in Otp, ClaimOverSocket(k, o)
      PROVE  \/ by'[c] = by[c] /\ InHand(c)'
             \/ ~Busy(k) /\ by[c] = None /\ by' = [by EXCEPT ![c] = k] /\ InHand(c)'
  <2>1. ~Busy(k)
    BY <1>6 DEF ClaimOverSocket, H!Receive, JInv, IInv, ConnOK
  <2>2. UNCHANGED <<manager, by, mail>> => by'[c] = by[c] /\ InHand(c)'
    BY <1>3 DEF manager
  <2> QED
    BY <1>4, <1>6, <2>1, <2>2 DEF ClaimOverSocket
<1>7. ASSUME NEW x \in Call, Advance(x) PROVE by'[c] = by[c] /\ InHand(c)'
  <2>1. CASE x = c
    <3>1. by[c] # None
      BY <1>1, <1>7, <2>1 DEF Advance
    <3> QED
      BY <1>7, <2>1, <3>1, OwnJobStep
  <2>2. CASE x # c
    <3>1. by'[c] = by[c] /\ by[c] # None
      BY <1>1, <1>7, <2>2 DEF Advance
    <3>2. call'[c] = call[c]
      <4>1. call[c].pc # "armed" /\ M!Step(x)
        BY <1>2, <1>7, <3>1 DEF InHand, Advance
      <4> QED
        BY <2>2, <4>1, OthersKept DEF JInv
    <3>3. At(x) # by[c]
      BY <1>1, <2>2, <3>1 DEF At, JInv, OneJob
    <3>4. mail'[by[c]] = mail[by[c]]
      BY <1>1, <1>7, <3>1, <3>3 DEF Advance, Goroutine
    <3> QED
      BY <1>3, <3>1, <3>2, <3>4
  <2> QED
    BY <2>1, <2>2
<1>8. ASSUME NEW g \in Goroutine, SendToDevice(g) PROVE by'[c] = by[c] /\ InHand(c)'
  <2>1. mail' = mail \/ mail' = [mail EXCEPT ![g] = None]
    BY <1>8 DEF SendToDevice, Offline, Lookup, PushQueues, PushUnwinds, PushDies
  <2>2. by'[c] = by[c] /\ call'[c] = call[c]
    <3>1. CASE UNCHANGED <<manager, by>>
      BY <3>1 DEF manager
    <3>2. ASSUME NEW x \in Call, M!Unwind(x), by' = [by EXCEPT ![x] = None]
          PROVE  by'[c] = by[c] /\ call'[c] = call[c]
      <4>1. x # c
        BY <1>1, <3>2
      <4> QED
        BY <1>1, <3>2, <4>1 DEF M!Unwind, M!Return
    <3> QED
      BY <1>8, <3>1, <3>2
      DEF SendToDevice, Offline, Lookup, PushQueues, PushUnwinds, PushDies
  <2>3. by[c] \in Goroutine
    BY <1>1, <2>2 DEF Goroutine
  <2> QED
    BY <1>1, <1>3, <2>1, <2>2, <2>3
<1>9. ASSUME \/ Elsewhere \/ Tick \/ Connect
             \/ \E k \in Conn : OnClaimReturns(k) \/ ReceiveLocal(k) \/ ReplyLocal(k)
                                \/ WriteFrame(k) \/ Collect(k)
      PROVE  by'[c] = by[c] /\ InHand(c)'
  <2>1. UNCHANGED <<by, mail>>
    BY <1>9 DEF Elsewhere, Tick, Connect, OnClaimReturns, ReceiveLocal, ReplyLocal,
       WriteFrame, Collect
  <2>2. call'[c].pc = call[c].pc /\ call'[c].who = call[c].who
    <3>1. Tick => call'[c].pc = call[c].pc /\ call'[c].who = call[c].who
      BY <1>1 DEF Tick, M!Tick, M!CallState
    <3>2. ~Tick => call' = call
      BY <1>9 DEF Elsewhere, M!Ingest, M!Sweep, Connect, OnClaimReturns, ReceiveLocal,
         ReplyLocal, WriteFrame, Collect, manager
    <3> QED
      BY <3>1, <3>2
  <2> QED
    BY <1>3, <2>1, <2>2
<1>10. ~Restart
  BY DEF Restart
<1> QED
  BY <1>5, <1>6, <1>7, <1>8, <1>9, <1>10 DEF Next

LEMMA JobInvariant == Spec => []JInv
<1>1. Init => JInv
  BY InitIInv DEF JInv, OneJob, InHand, Init
<1>2. JInv /\ [Next]_vars => JInv'
  <2>1. ASSUME JInv, Next PROVE OneJob' /\ \A c \in Call : InHand(c)'
    <3>1. by \in [Call -> Conn \cup Handler \cup {None}]
      BY <2>1, JobShape DEF JInv
    <3>2. \A c \in Call : InHand(c)'
      BY <2>1, JobStep DEF InHand
    <3>3. ASSUME NEW c \in Call, NEW x \in Call, by'[c] # None, by'[c] = by'[x] PROVE c = x
      <4>1. CASE by'[c] = by[c] /\ by'[x] = by[x]
        BY <2>1, <3>3, <4>1 DEF JInv, OneJob
      <4>2. ASSUME NEW g \in Conn \cup Handler, ~Busy(g), NEW y \in Call,
                   by' = [by EXCEPT ![y] = g], y = c \/ y = x
            PROVE  c = x
        BY <3>1, <3>3, <4>2 DEF Busy
      <4> QED
        BY <2>1, <3>3, <4>1, <4>2, JobStep
    <3> QED
      BY <3>2, <3>3 DEF OneJob
  <2>2. UNCHANGED vars /\ JInv => OneJob' /\ \A c \in Call : InHand(c)'
    BY DEF vars, manager, JInv, OneJob, InHand
  <2> QED
    BY <2>1, <2>2, NextIInv DEF JInv
<1> QED
  BY <1>1, <1>2, PTL DEF Spec

(* The next step of a claim that is on a pump or a handler can be taken. *)
CanStep(c) ==
  \/ call[c].pc = "enter"
  \/ call[c].pc = "kill" /\ status[call[c].otp] # "absent"
  \/ call[c].pc = "notify" /\ call[c].who # <<>>

(* A handler that a panic unwinds leaves nothing behind but the rival that  *)
(* invalidate has not told yet: no lock, no window, no row half settled.    *)
(* And a pump that is in OnClaim is sending, or can take the next step of   *)
(* the one claim it has in hand, or can return to its read loop.            *)
NobodyWaits ==
  /\ \A h \in Handler : mail[h] # None =>
       \A c \in Call : by[c] = h => call[c].pc = "notify" /\ Len(call[c].who) = 1
  /\ \A k \in Conn : conn[k].reader = "dispatching" =>
       \/ mail[k] # None
       \/ ~Busy(k)
       \/ \E c \in Call : /\ by[c] = k /\ CanStep(c)
                          /\ \A x \in Call : by[x] = k => x = c

(* These are the guards behind NobodyIsStuck, for every number of pumps,    *)
(* handlers and claims.                                                     *)
THEOREM GoroutinesProceed == Spec => []NobodyWaits
<1>1. JInv => NobodyWaits
  <2> SUFFICES ASSUME JInv PROVE NobodyWaits
      OBVIOUS
  <2>1. None \notin Goroutine
    BY JobShape DEF JInv
  <2>2. ASSUME NEW h \in Handler, mail[h] # None, NEW c \in Call, by[c] = h
        PROVE  call[c].pc = "notify" /\ Len(call[c].who) = 1
    BY <2>1, <2>2 DEF JInv, InHand, Goroutine
  <2>3. ASSUME NEW k \in Conn, mail[k] = None, Busy(k)
        PROVE  \E c \in Call : /\ by[c] = k /\ CanStep(c)
                               /\ \A x \in Call : by[x] = k => x = c
    <3>1. PICK c \in Call : by[c] = k /\ k # None
      BY <2>1, <2>3 DEF Busy, Goroutine
    <3>2. call[c].pc \in {"enter", "kill", "notify"}
      BY <3>1 DEF JInv, InHand
    <3>3. CanStep(c)
      BY <3>2 DEF CanStep, JInv, IInv, MP!RInv, MP!IInv, MP!RowsExist, MP!CallsOK, MP!CallOK
    <3> QED
      BY <3>1, <3>3 DEF JInv, OneJob
  <2> QED
    BY <2>2, <2>3 DEF NobodyWaits
<1> QED
  BY <1>1, JobInvariant, PTL

(* The guards of the actions are all that they need.  ENABLED is only a     *)
(* name to the provers, so that this is a hypothesis: what SendToDevice can *)
(* do with its envelope is a question of the client it holds, unless it has *)
(* a handler to unwind.                                                     *)
GuardsSuffice ==
  H!Running =>
    /\ \A g \in Goroutine :
         /\ mail[g] # None
         /\ g \in Handler => \A c \in Call :
              by[c] = g => call[c].pc = "notify" /\ Len(call[c].who) = 1
         => CanSend(g)
    /\ \A k \in Conn : conn[k].reader = "dispatching" /\ ~Busy(k) => CanReturn(k)
    /\ \A c \in Call : mail[At(c)] = None /\ by[c] # None /\ CanStep(c) => CanAdvance(c)

(* Whoever is in SendToDevice can finish it, and a pump in OnClaim can take *)
(* its next step.                                                           *)
THEOREM NobodyEverStuck == Spec /\ []GuardsSuffice => []NobodyIsStuck
<1>1. JInv /\ NobodyWaits /\ GuardsSuffice => NobodyIsStuck
  <2> SUFFICES ASSUME JInv, NobodyWaits, GuardsSuffice, H!Running PROVE NobodyIsStuck
      BY DEF NobodyIsStuck
  <2>1. ASSUME NEW g \in Goroutine, mail[g] # None PROVE CanSend(g)
    BY <2>1 DEF NobodyWaits, GuardsSuffice
  <2>2. ASSUME NEW k \in Conn, conn[k].reader = "dispatching", mail[k] = None
        PROVE  CanReturn(k) \/ \E c \in Call : by[c] = k /\ CanAdvance(c)
    <3>1. None \notin Conn
      BY RelayAssumption DEF RelayAssumption, Goroutine
    <3>2. CASE ~Busy(k)
      BY <2>2, <3>2 DEF GuardsSuffice
    <3>3. ASSUME NEW c \in Call, by[c] = k, CanStep(c) PROVE CanAdvance(c)
      BY <2>2, <3>1, <3>3 DEF GuardsSuffice, At
    <3> QED
      BY <2>2, <3>2, <3>3 DEF NobodyWaits
  <2> QED
    BY <2>1, <2>2 DEF NobodyIsStuck
<1> QED
  BY <1>1, JobInvariant, GoroutinesProceed, PTL
--------------------------------------------------------------------------------
(* How many steps a goroutine has to take, at most, before the claim it has *)
(* in hand is off it: up to three for each of the claim's own, which are    *)
(* that step, the lookup of a client, and the send.                         *)
Sends(g) == IF mail[g] = None THEN 0 ELSE IF held[g] = None THEN 2 ELSE 1
Left(c) == Sends(by[c]) + 3 * MP!Remaining(c)

(* While a claim is on a pump or a handler, no step of anybody else gives   *)
(* that goroutine more to do, and each of its own leaves it less, unless it *)
(* is the one in which the process dies.                                    *)
ClaimGetsDone ==
  [][\A c \in Call : by[c] # None /\ by'[c] # None =>
       /\ Left(c)' <= Left(c)
       /\ Advance(c) \/ SendToDevice(by[c]) => Left(c)' < Left(c) \/ ~H!Running']_vars

(* Only the goroutine itself gets into and out of SendToDevice. *)
LEMMA SendsKept ==
  ASSUME JInv, Next, NEW c \in Call, by[c] # None, by'[c] # None,
         ~Advance(c), ~SendToDevice(by[c])
  PROVE  mail'[by[c]] = mail[by[c]] /\ held'[by[c]] = held[by[c]]
<1>1. /\ by \in [Call -> Conn \cup Handler \cup {None}]
      /\ mail \in [Goroutine -> M!Envelope \cup {None}]
      /\ held \in [Goroutine -> Conn \cup {None}]
      /\ Conn \cap Call = {} /\ Handler \cap Call = {}
      /\ by[c] \in Goroutine
  BY JobShape, Shape DEF JInv, Goroutine
<1>2. ASSUME NEW g \in Conn \cup Handler, ~Busy(g), NEW d, NEW o, Claim(g, d, o)
      PROVE  mail'[by[c]] = mail[by[c]]
  BY <1>1, <1>2 DEF Claim, Busy
<1>3. ASSUME NEW h \in Handler, NEW d \in Device, NEW o \in Otp, ClaimByREST(h, d, o)
      PROVE  mail'[by[c]] = mail[by[c]] /\ held' = held
  BY <1>2, <1>3 DEF ClaimByREST, hub
<1>4. ASSUME NEW k \in Conn, NEW o \in Otp, ClaimOverSocket(k, o)
      PROVE  mail'[by[c]] = mail[by[c]] /\ held' = held
  <2>1. ~Busy(k) /\ held' = held
    BY <1>4 DEF ClaimOverSocket, H!Receive, JInv, IInv, ConnOK
  <2> QED
    BY <1>2, <1>4, <2>1 DEF ClaimOverSocket
<1>5. ASSUME NEW x \in Call, Advance(x) PROVE mail'[by[c]] = mail[by[c]] /\ held' = held
  <2>1. x # c
    BY <1>5
  <2>2. At(x) # by[c]
    BY <1>1, <2>1 DEF At, JInv, OneJob
  <2> QED
    BY <1>1, <1>5, <2>2 DEF Advance, hub
<1>6. ASSUME NEW g \in Goroutine, SendToDevice(g)
      PROVE  mail'[by[c]] = mail[by[c]] /\ held'[by[c]] = held[by[c]]
  <2>1. g # by[c]
    BY <1>6
  <2>2. mail' = mail \/ mail' = [mail EXCEPT ![g] = None]
    BY <1>6 DEF SendToDevice, Offline, Lookup, PushQueues, PushUnwinds, PushDies
  <2>3. held' = held \/ \E k : held' = [held EXCEPT ![g] = k]
    BY <1>6 DEF SendToDevice, Offline, Lookup, PushQueues, PushUnwinds, PushDies, hub,
       H!Lookup, H!Push, H!Die
  <2> QED
    BY <1>1, <2>1, <2>2, <2>3
<1>7. ASSUME \/ Elsewhere \/ Tick \/ Connect
             \/ \E k \in Conn : OnClaimReturns(k) \/ ReceiveLocal(k) \/ ReplyLocal(k)
                                \/ WriteFrame(k) \/ Collect(k)
      PROVE  UNCHANGED <<mail, held>>
  BY <1>7 DEF Elsewhere, Tick, hub, Connect, OnClaimReturns, ReceiveLocal, ReplyLocal,
     WriteFrame, Collect, H!Upgrade, H!UpgradeFails, H!Register, H!PeerGone, H!ReadFails,
     H!Unregister, H!WriteFails, H!WriterEnds, H!Dispatched, H!Receive, H!Reply,
     H!WriteFrame, H!Collect, H!Die
<1>8. ~Restart
  BY DEF Restart
<1> QED
  BY <1>3, <1>4, <1>5, <1>6, <1>7, <1>8 DEF Next

(* SendToDevice takes two steps. *)
LEMMA SendsShrink ==
  ASSUME JInv, Next, NEW c \in Call, by[c] # None, by'[c] # None, SendToDevice(by[c])
  PROVE  /\ Sends(by[c])' \in Nat
         /\ \/ Sends(by[c])' < Sends(by[c])
            \/ Sends(by[c])' = Sends(by[c]) /\ ~H!Running'
<1> DEFINE g == by[c]
<1>1. /\ by \in [Call -> Conn \cup Handler \cup {None}]
      /\ mail \in [Goroutine -> M!Envelope \cup {None}]
      /\ held \in [Goroutine -> Conn \cup {None}]
      /\ g \in Goroutine
  BY JobShape, Shape DEF JInv, Goroutine
<1>2. by'[c] = g
  BY <1>1 DEF SendToDevice, Offline, Lookup, PushQueues, PushUnwinds, PushDies
<1>3. CASE Offline(g)
  BY <1>1, <1>2, <1>3 DEF Offline, Sends
<1>4. CASE Lookup(g)
  <2>1. /\ mail[g] # None /\ held[g] = None /\ mail' = mail
        /\ clients[mail[g].to] # None /\ held'[g] = clients[mail[g].to]
    BY <1>1, <1>4 DEF Lookup, H!Lookup
  <2> QED
    BY <1>2, <2>1 DEF Sends
<1>5. CASE PushQueues(g)
  <2>1. mail[g] # None
    BY <1>1, <1>5 DEF PushQueues, H!Push, JInv, IInv, HeldOK
  <2> QED
    BY <1>1, <1>2, <1>5, <2>1 DEF PushQueues, H!Push, Sends
<1>6. ~PushUnwinds(g)
  <2>1. ASSUME NEW x \in Call, by[x] = g, by' = [by EXCEPT ![x] = None] PROVE FALSE
    BY <1>1, <2>1 DEF JInv, OneJob
  <2> QED
    BY <2>1 DEF PushUnwinds
<1>7. CASE PushDies(g)
  <2>1. UNCHANGED <<by, mail, held>> /\ panic' # None
    BY <1>1, <1>7, RelayAssumption
    DEF PushDies, H!Push, H!Die, RelayAssumption, H!HubAssumption, H!Reason
  <2> QED
    BY <1>2, <2>1 DEF H!Running, Sends
<1> QED
  BY <1>3, <1>4, <1>5, <1>6, <1>7 DEF SendToDevice

LEMMA LeftStep ==
  ASSUME JInv, Next, NEW c \in Call, by[c] # None, by'[c] # None
  PROVE  /\ Left(c)' <= Left(c)
         /\ Advance(c) \/ SendToDevice(by[c]) => Left(c)' < Left(c) \/ ~H!Running'
<1>1. by'[c] = by[c] /\ by[c] \in Goroutine
  <2>1. by \in [Call -> Conn \cup Handler \cup {None}]
    BY JobShape DEF JInv
  <2> QED
    BY <2>1, JobStep DEF Goroutine
<1>2. MP!IInv /\ call[c].pc # "idle"
  BY DEF JInv, IInv, MP!RInv, InHand
<1>3. MP!Remaining(c) \in 0..6
  BY <1>2, MP!RemainingIs, Assumptions
<1>4. MP!Remaining(c)' <= MP!Remaining(c) /\ MP!Remaining(c)' \in Nat
  <2>1. CASE UNCHANGED manager
    BY <1>3, <2>1 DEF manager, MP!Remaining
  <2>2. CASE M!Next
    BY <1>2, <2>2, MP!WorkShrinksStep, MP!RemainingStays, SameManager, Assumptions
  <2> QED
    BY <2>1, <2>2, ManagerSteps DEF JInv
<1>5. Sends(by[c]) \in 0..2 /\ Sends(by[c])' \in 0..2
  BY DEF Sends
<1>6. CASE Advance(c)
  <2>1. MP!Remaining(c)' < MP!Remaining(c)
    <3>1. M!Step(c) /\ MP!Next
      BY <1>6, SameManager DEF Advance, M!Next
    <3> QED
      BY <1>2, <3>1, MP!WorkShrinksStep, SameManager, Assumptions
  <2>2. Sends(by[c]) = 0
    BY <1>6 DEF Advance, At, Sends
  <2>3. Left(c)' < Left(c)
    BY <1>1, <1>3, <1>4, <1>5, <2>1, <2>2 DEF Left
  <2> QED
    BY <1>1, <1>3, <1>4, <1>5, <2>3 DEF Left
<1>7. CASE SendToDevice(by[c])
  BY <1>1, <1>3, <1>4, <1>5, <1>7, SendsShrink DEF Left
<1>8. CASE ~Advance(c) /\ ~SendToDevice(by[c])
  <2>1. Sends(by[c])' = Sends(by[c])
    BY <1>1, <1>8, SendsKept DEF Sends
  <2> QED
    BY <1>1, <1>3, <1>4, <1>5, <1>8, <2>1 DEF Left
<1> QED
  BY <1>6, <1>7, <1>8

(* A claim keeps a pump from its read loop, or a handler from its reply,    *)
(* for eighteen steps of that goroutine at most, whatever the rest does.    *)
THEOREM ClaimsAreShort == Spec => ClaimGetsDone
<1>1. JInv /\ [Next]_vars =>
        [\A c \in Call : by[c] # None /\ by'[c] # None =>
           /\ Left(c)' <= Left(c)
           /\ Advance(c) \/ SendToDevice(by[c]) => Left(c)' < Left(c) \/ ~H!Running']_vars
  BY LeftStep
<1> QED
  BY <1>1, JobInvariant, PTL DEF Spec, ClaimGetsDone
================================================================================
