------------------------------- MODULE RelayProofs -------------------------------
(***************************************************************************)
(* Relay, for every set of devices, OTPs, calls, connections and handlers, *)
(* every window and TTL, and every buffer size.                            *)
(*                                                                         *)
(* A step of the relay is a step of the manager or leaves it alone, and    *)
(* likewise for the hub, so the components' invariants carry over.  What   *)
(* the wiring adds to them is that a goroutine is in one place at a time   *)
(* (ConnOK, HeldOK): a pump in OnClaim reads no frame, a client that was   *)
(* looked up is neither freed nor given to another device before it is let *)
(* go of.  On that rest the statements about what travels.                 *)
(***************************************************************************)
EXTENDS Relay, SequenceTheorems, TLAPS

MP == INSTANCE PromptProofs
HP == INSTANCE HubProofs WITH Source <- {}, Task <- Goroutine

(* The assumptions of the components. *)
LEMMA Assumptions ==
  MP!TableAssumption /\ MP!ManagerAssumption /\ HP!HubAssumption
  BY RelayAssumption DEF RelayAssumption, M!TableAssumption, M!ManagerAssumption,
     M!ClaimState, M!Envelope, M!Reply, H!HubAssumption, H!Reason,
     MP!TableAssumption, MP!ManagerAssumption, MP!ClaimState, MP!Envelope, MP!Reply,
     HP!HubAssumption, HP!Reason

(* What is needed of an envelope on its way. *)
EnvelopeOK(e) ==
  e.type = "otp_payload" =>
    /\ status[e.otp] \in {"claimed", "invalidated"}
    /\ e.to \in joined[e.otp] \cap paid[e.otp]

Wiring ==
  /\ by \in [Call -> Conn \cup Handler \cup {None}]
  /\ mail \in [Goroutine -> M!Envelope \cup {None}]
  /\ box \in [Conn -> Seq(M!Envelope \cup {Local})]

(* A connection carries what the hub counts; a client that is not           *)
(* registered yet has nothing queued, one that was has its writer or has    *)
(* lost its socket; and a pump that is in OnClaim reads no frame.           *)
ConnOK(k) ==
  /\ Len(box[k]) = conn[k].queued
  /\ conn[k].reader = "upgrading" => conn[k].queued = 0
  /\ conn[k].reader \notin {"none", "upgrading"} =>
       conn[k].writer = "running" \/ ~conn[k].link
  /\ Busy(k) => conn[k].reader = "dispatching"

BoxOK(k) ==
  \A i \in 1..Len(box[k]) : box[k][i] # Local =>
    box[k][i].to = conn[k].dev /\ EnvelopeOK(box[k][i])

(* A client that was looked up is the addressee's, and stays so. *)
HeldOK(g) ==
  held[g] # None => /\ mail[g] # None
                    /\ conn[held[g]].dev = mail[g].to
                    /\ conn[held[g]].reader \notin {"none", "upgrading"}

MailOK(g) == mail[g] # None => EnvelopeOK(mail[g])

IInv ==
  /\ MP!RInv
  /\ HP!IInv
  /\ Wiring
  /\ \A k \in Conn : ConnOK(k) /\ BoxOK(k)
  /\ \A g \in Goroutine : HeldOK(g) /\ MailOK(g)

(* The manager, reached through the module of its proofs, is the same. *)
LEMMA SameManager ==
  /\ M!Init => MP!Init
  /\ M!Next => MP!Next
  /\ \A c \in Call : (M!Step(c) => MP!Step(c)) /\ (MP!Unwind(c) => M!Unwind(c))
  /\ MP!Crash => M!Crash
<1>1. M!Init => MP!Init
  BY DEF M!Init, MP!Init, M!TableInit, MP!TableInit, M!Idle, MP!Idle
<1>2. ASSUME NEW o \in Otp, M!Ingest(o) PROVE MP!Ingest(o)
  BY <1>2 DEF M!Ingest, MP!Ingest, M!InsertOTP, MP!InsertOTP, M!Quiet, MP!Quiet
<1>3. ASSUME NEW d \in Device, NEW o \in Otp, M!ClaimRefused(d, o) PROVE MP!ClaimRefused(d, o)
  BY <1>3 DEF M!ClaimRefused, MP!ClaimRefused, M!Verdict, MP!Verdict, M!Lapsed, MP!Lapsed, M!Send,
     MP!Send, M!table, MP!table
<1>4. ASSUME NEW c \in Call, NEW d \in Device, NEW o \in Otp, M!ClaimPending(c, d, o)
      PROVE  MP!ClaimPending(c, d, o)
  BY <1>4 DEF M!ClaimPending, MP!ClaimPending, M!Verdict, MP!Verdict, M!Lapsed, MP!Lapsed, M!Quiet,
     MP!Quiet, M!table, MP!table
<1>5. ASSUME M!Sweep PROVE MP!Sweep
  BY <1>5 DEF M!Sweep, MP!Sweep, M!table, MP!table, M!ExpireStaleOTPs, MP!ExpireStaleOTPs, M!Lapsed, MP!Lapsed,
     M!Quiet, MP!Quiet
<1>6. ASSUME M!Crash PROVE MP!Crash
  BY <1>6 DEF M!Crash, MP!Crash, M!Idle, MP!Idle, M!Quiet, MP!Quiet, M!table, MP!table
<1>7. ASSUME M!Tick PROVE MP!Tick
  BY <1>7 DEF M!Tick, MP!Tick, M!AgeRows, MP!AgeRows, M!Lapsed, MP!Lapsed, M!Quiet, MP!Quiet,
     M!Runnable, MP!Runnable
<1>8. ASSUME NEW c \in Call, M!Step(c) PROVE MP!Step(c)
  <2>1. M!OpenWindow(c) => MP!OpenWindow(c)
    BY DEF M!OpenWindow, MP!OpenWindow, M!ClaimWindow, MP!ClaimWindow, M!Quiet, MP!Quiet,
       M!table, MP!table
  <2>2. M!RepeatClaim(c) => MP!RepeatClaim(c)
    BY DEF M!RepeatClaim, MP!RepeatClaim, M!Claimant, MP!Claimant, M!Return, MP!Return, M!Idle,
       MP!Idle, M!Quiet, MP!Quiet, M!table, MP!table
  <2>3. M!SecondClaim(c) => MP!SecondClaim(c)
    BY DEF M!SecondClaim, MP!SecondClaim, M!Claimant, MP!Claimant, M!CloseWindow,
       MP!CloseWindow, M!Stopped, MP!Stopped, M!Idle, MP!Idle, M!Quiet, MP!Quiet, M!table,
       MP!table
  <2>4. M!Fire(c) => MP!Fire(c)
    BY DEF M!Fire, MP!Fire, M!Goto, MP!Goto, M!Quiet, MP!Quiet, M!table, MP!table
  <2>5. M!TakeWindow(c) => MP!TakeWindow(c)
    BY DEF M!TakeWindow, MP!TakeWindow, M!Return, MP!Return, M!Idle, MP!Idle, M!CloseWindow,
       MP!CloseWindow, M!Quiet, MP!Quiet, M!table, MP!table
  <2>6. M!Reload(c) => MP!Reload(c)
    BY DEF M!Reload, MP!Reload, M!Deliverable, MP!Deliverable, M!Lapsed, MP!Lapsed, M!Goto,
       MP!Goto, M!Quiet, MP!Quiet, M!Return, MP!Return, M!Idle, MP!Idle, M!Send, MP!Send,
       M!table, MP!table
  <2>7. M!Mark(c) => MP!Mark(c)
    BY DEF M!Mark, MP!Mark, M!SetOTPStatus, MP!SetOTPStatus, M!Goto, MP!Goto, M!Quiet, MP!Quiet,
       M!Return, MP!Return, M!Idle, MP!Idle, M!Send, MP!Send, M!table, MP!table
  <2>8. M!Deliver(c) => MP!Deliver(c)
    BY DEF M!Deliver, MP!Deliver, M!Send, MP!Send, M!Return, MP!Return, M!Idle, MP!Idle,
       M!table, MP!table
  <2>9. M!Kill(c) => MP!Kill(c)
    BY DEF M!Kill, MP!Kill, M!SetOTPStatus, MP!SetOTPStatus, M!Goto, MP!Goto, M!Quiet, MP!Quiet,
       M!table, MP!table
  <2>10. M!Notify(c) => MP!Notify(c)
    BY DEF M!Notify, MP!Notify, M!Send, MP!Send, M!Return, MP!Return, M!Idle, MP!Idle, M!table,
       MP!table
  <2> QED
    BY <1>8, <2>1, <2>2, <2>3, <2>4, <2>5, <2>6, <2>7, <2>8, <2>9, <2>10 DEF M!Step, MP!Step
<1>9. ASSUME NEW c \in Call PROVE M!Unwind(c) <=> MP!Unwind(c)
  BY DEF M!Unwind, MP!Unwind, M!Return, MP!Return, M!Idle, MP!Idle, M!Quiet, MP!Quiet, M!table,
     MP!table
<1>10. MP!Crash => M!Crash
  BY DEF M!Crash, MP!Crash, M!Idle, MP!Idle, M!Quiet, MP!Quiet, M!table, MP!table
<1> QED
  BY <1>1, <1>2, <1>3, <1>4, <1>5, <1>6, <1>7, <1>8, <1>9, <1>10 DEF M!Next, MP!Next

LEMMA SameHub ==
  /\ H!Init => HP!Init
  /\ H!Next => HP!Next
  /\ \A t \in Goroutine : H!Push(t) => HP!Push(t)
<1>1. H!Init => HP!Init
  BY DEF H!Init, HP!Init, H!Free, HP!Free
<1>2. ASSUME NEW c \in Conn, NEW d \in Device, H!Upgrade(c, d) PROVE HP!Upgrade(c, d)
  BY <1>2 DEF H!Upgrade, HP!Upgrade, H!Running, HP!Running, H!Free, HP!Free, H!Authenticate,
     HP!Authenticate
<1>3. ASSUME NEW d \in Device, H!Revoke(d) PROVE HP!Revoke(d)
  BY <1>3 DEF H!Revoke, HP!Revoke, H!Running, HP!Running
<1>4. ASSUME NEW t \in Goroutine, NEW d \in Device, H!Lookup(t, d) PROVE HP!Lookup(t, d)
  BY <1>4 DEF H!Lookup, HP!Lookup, H!Running, HP!Running
<1>5. ASSUME NEW t \in Goroutine, H!Push(t) PROVE HP!Push(t)
  BY <1>5 DEF H!Push, HP!Push, H!Running, HP!Running, H!Enqueue, HP!Enqueue, H!Die, HP!Die
<1>6. ASSUME H!Restart PROVE HP!Restart
  BY <1>6 DEF H!Restart, HP!Restart, H!Free, HP!Free
<1>7. ASSUME NEW c \in Conn
     PROVE  /\ H!ReadPump(c) => HP!ReadPump(c)
            /\ H!WritePump(c) => HP!WritePump(c)
            /\ H!UpgradeFails(c) => HP!UpgradeFails(c)
            /\ H!Register(c) => HP!Register(c)
            /\ H!PeerGone(c) => HP!PeerGone(c)
            /\ H!Receive(c) => HP!Receive(c)
            /\ H!Dispatched(c) => HP!Dispatched(c)
            /\ H!Collect(c) => HP!Collect(c)
  <2>1. H!UpgradeFails(c) => HP!UpgradeFails(c)
    BY DEF H!UpgradeFails, HP!UpgradeFails, H!Running, HP!Running, H!Free, HP!Free
  <2>2. H!Register(c) => HP!Register(c)
    BY DEF H!Register, HP!Register, H!Running, HP!Running, H!Die, HP!Die
  <2>3. H!PeerGone(c) => HP!PeerGone(c)
    BY DEF H!PeerGone, HP!PeerGone, H!Running, HP!Running
  <2>4. H!Receive(c) => HP!Receive(c)
    BY DEF H!Receive, HP!Receive, H!Running, HP!Running
  <2>5. H!Dispatched(c) => HP!Dispatched(c)
    BY DEF H!Dispatched, HP!Dispatched, H!Running, HP!Running
  <2>6. H!Reply(c) => HP!Reply(c)
    BY DEF H!Reply, HP!Reply, H!Running, HP!Running, H!Enqueue, HP!Enqueue, H!Die, HP!Die
  <2>7. H!ReadFails(c) => HP!ReadFails(c)
    BY DEF H!ReadFails, HP!ReadFails, H!Running, HP!Running
  <2>8. H!Unregister(c) => HP!Unregister(c)
    BY DEF H!Unregister, HP!Unregister, H!Running, HP!Running, H!Die, HP!Die, H!Ended, HP!Ended
  <2>9. H!WriteFrame(c) => HP!WriteFrame(c)
    BY DEF H!WriteFrame, HP!WriteFrame, H!Running, HP!Running
  <2>10. H!WriteFails(c) => HP!WriteFails(c)
    BY DEF H!WriteFails, HP!WriteFails, H!Running, HP!Running
  <2>11. H!WriterEnds(c) => HP!WriterEnds(c)
    BY DEF H!WriterEnds, HP!WriterEnds, H!Running, HP!Running
  <2>12. H!Collect(c) => HP!Collect(c)
    BY DEF H!Collect, HP!Collect, H!Running, HP!Running, H!Free, HP!Free
  <2> QED
    BY <2>1, <2>2, <2>3, <2>4, <2>5, <2>6, <2>7, <2>8, <2>9, <2>10, <2>11, <2>12
       DEF H!ReadPump, HP!ReadPump, H!WritePump, HP!WritePump
<1> QED
  BY <1>1, <1>2, <1>3, <1>4, <1>5, <1>6, <1>7 DEF H!Next, HP!Next
--------------------------------------------------------------------------------
(* What the components' invariants say here. *)
LEMMA Shape ==
  ASSUME IInv
  PROVE  /\ clients \in [Device -> Conn \cup {None}]
         /\ conn \in [Conn -> H!Client]
         /\ held \in [Goroutine -> Conn \cup {None}]
         /\ \A k \in Conn : conn[k].reader = "reading" => conn[k].dev \in Device
         /\ \A d \in Device : clients[d] # None =>
              /\ conn[clients[d]].dev = d
              /\ conn[clients[d]].reader \notin {"none", "upgrading", "gone"}
         /\ Wiring
  BY DEF IInv, HP!IInv, HP!TypeOK, HP!Linked, HP!OpenIffRegistered, HP!RegisteredIsLive,
     HP!Pumping, HP!Client, H!Client

(* A step of the composition is one of the manager's, or leaves it alone. *)
LEMMA ManagerSteps ==
  ASSUME IInv, Next
  PROVE  M!Next \/ UNCHANGED manager
<1>1. ASSUME NEW g, NEW d \in Device, NEW o \in Otp, Claim(g, d, o) PROVE M!Next
  BY <1>1 DEF Claim, M!Next
<1>2. ASSUME NEW h \in Handler, NEW d \in Device, NEW o \in Otp, ClaimByREST(h, d, o)
      PROVE M!Next
  BY <1>1, <1>2 DEF ClaimByREST
<1>3. ASSUME NEW k \in Conn, NEW o \in Otp, ClaimOverSocket(k, o)
      PROVE M!Next \/ UNCHANGED manager
  <2>1. conn[k].dev \in Device
    BY <1>3, Shape DEF ClaimOverSocket, H!Receive
  <2> QED
    BY <1>1, <1>3, <2>1 DEF ClaimOverSocket
<1>4. ASSUME NEW c \in Call, Advance(c) PROVE M!Next
  BY <1>4 DEF Advance, M!Next
<1>5. ASSUME NEW g \in Goroutine, SendToDevice(g) PROVE M!Next \/ UNCHANGED manager
  BY <1>5 DEF SendToDevice, Offline, Lookup, PushQueues, PushUnwinds, PushDies, M!Next
<1>6. ASSUME Elsewhere PROVE M!Next
  BY <1>6 DEF Elsewhere, M!Next
<1>7. ASSUME Tick \/ Restart PROVE M!Next
  BY <1>7 DEF Tick, Restart, M!Next
<1>8. ASSUME NEW k \in Conn, OnClaimReturns(k) \/ ReceiveLocal(k) \/ ReplyLocal(k)
                                \/ WriteFrame(k) \/ Collect(k)
      PROVE UNCHANGED manager
  BY <1>8 DEF OnClaimReturns, ReceiveLocal, ReplyLocal, WriteFrame, Collect
<1>9. ASSUME Connect PROVE UNCHANGED manager
  BY <1>9 DEF Connect
<1> QED
  BY <1>2, <1>3, <1>4, <1>5, <1>6, <1>7, <1>8, <1>9 DEF Next

(* And one of the hub's, or leaves it alone. *)
LEMMA HubSteps ==
  ASSUME IInv, Next
  PROVE  H!Next \/ UNCHANGED hub
<1>1. ASSUME NEW h \in Handler, NEW d \in Device, NEW o \in Otp, ClaimByREST(h, d, o)
      PROVE UNCHANGED hub
  BY <1>1 DEF ClaimByREST
<1>2. ASSUME NEW k \in Conn, NEW o \in Otp, ClaimOverSocket(k, o) PROVE H!Next
  BY <1>2 DEF ClaimOverSocket, H!Next
<1>3. ASSUME NEW c \in Call, Advance(c) PROVE UNCHANGED hub
  BY <1>3 DEF Advance
<1>4. ASSUME NEW g \in Goroutine, SendToDevice(g) PROVE H!Next \/ UNCHANGED hub
  <2>1. ASSUME Lookup(g) PROVE H!Next
    <3>1. mail[g].to \in Device
      BY <2>1, Shape, RelayAssumption
      DEF Lookup, Wiring, M!Envelope, RelayAssumption, M!ManagerAssumption
    <3> QED
      BY <2>1, <3>1 DEF Lookup, H!Next
  <2>2. ASSUME PushQueues(g) \/ PushUnwinds(g) \/ PushDies(g) PROVE H!Next
    BY <2>2 DEF PushQueues, PushUnwinds, PushDies, H!Next
  <2> QED
    BY <1>4, <2>1, <2>2 DEF SendToDevice, Offline
<1>5. ASSUME Elsewhere \/ Tick PROVE UNCHANGED hub
  BY <1>5 DEF Elsewhere, Tick
<1>6. ASSUME Restart PROVE H!Next
  BY <1>6 DEF Restart, H!Next
<1>7. ASSUME NEW k \in Conn, OnClaimReturns(k) \/ ReceiveLocal(k) \/ ReplyLocal(k)
                                \/ WriteFrame(k) \/ Collect(k)
      PROVE H!Next
  BY <1>7 DEF OnClaimReturns, ReceiveLocal, ReplyLocal, WriteFrame, Collect,
     H!ReadPump, H!WritePump, H!Next
<1>8. ASSUME Connect PROVE H!Next
  BY <1>8, RelayAssumption DEF RelayAssumption, Connect, H!ReadPump, H!WritePump, H!Next
<1> QED
  BY <1>1, <1>2, <1>3, <1>4, <1>5, <1>6, <1>7, <1>8 DEF Next

(* So what is proved of the components holds here. *)
LEMMA ComponentsStep == IInv /\ [Next]_vars => MP!RInv' /\ HP!IInv'
<1>1. ASSUME IInv, [Next]_vars PROVE [MP!Next]_(MP!vars) /\ [HP!Next]_(HP!vars)
  <2>1. CASE UNCHANGED vars
    BY <2>1 DEF vars, manager, hub, MP!vars, HP!vars
  <2>2. CASE Next
    BY <1>1, <2>2, ManagerSteps, HubSteps, SameManager, SameHub
    DEF manager, hub, MP!vars, HP!vars
  <2> QED
    BY <1>1, <2>1, <2>2
<1>2. ASSUME IInv, [Next]_vars PROVE MP!RInv'
  <2>1. MP!IInv'
    BY <1>1, <1>2, MP!NextIInv, Assumptions DEF IInv, MP!RInv
  <2>2. MP!RowsExist'
    <3>1. CASE UNCHANGED MP!vars
      BY <1>2, <3>1 DEF IInv, MP!RInv, MP!RowsExist, MP!vars
    <3> QED
      BY <1>1, <1>2, <3>1, MP!RowsExistStep, Assumptions DEF IInv, MP!RInv
  <2> QED
    BY <2>1, <2>2 DEF MP!RInv
<1>3. ASSUME IInv, [Next]_vars PROVE HP!IInv'
  BY <1>1, <1>3, HP!NextIInv, Assumptions DEF IInv
<1> QED
  BY <1>2, <1>3

(* An envelope on its way stays right, whatever the manager does. *)
LEMMA EnvelopeKept ==
  ASSUME IInv, Next, NEW e \in M!Envelope, EnvelopeOK(e)
  PROVE  EnvelopeOK(e)'
<1>1. CASE UNCHANGED manager
  BY <1>1 DEF manager, EnvelopeOK
<1>2. CASE M!Next
  <2>1. MP!IInv /\ MP!Next /\ e.otp \in Otp
    BY <1>2, SameManager DEF IInv, MP!RInv, M!Envelope
  <2>2. paid[e.otp] \subseteq paid'[e.otp]
    BY <2>1, MP!PayloadWriters, Assumptions
    DEF MP!Deliver, MP!Send, MP!IInv, MP!TypeOK
  <2> QED
    BY <2>1, <2>2, MP!SettledStaysStep, MP!HistoryGrows, Assumptions DEF EnvelopeOK
<1> QED
  BY <1>1, <1>2, ManagerSteps

(* What the manager sends is right when it is sent. *)
LEMMA EnvelopeNew ==
  ASSUME IInv, Next, M!Next, out' # None
  PROVE  out' \in M!Envelope /\ EnvelopeOK(out)'
<1>1. MP!IInv' /\ MP!Next
  BY ComponentsStep, SameManager DEF MP!RInv
<1>2. out' \in M!Envelope
  BY <1>1 DEF MP!IInv, MP!TypeOK, MP!Envelope, MP!Reply, M!Envelope, M!Reply
<1>3. ASSUME out'.type = "otp_payload" PROVE out'.to \in paid'[out'.otp]
  <2>1. paid \in [Otp -> SUBSET Device] /\ \A c \in Call : MP!Deliver(c) => call[c].otp \in Otp
    BY MP!CallHolds, Assumptions
    DEF IInv, MP!RInv, MP!IInv, MP!TypeOK, MP!Deliver
  <2>2. ASSUME NEW d \in Device, NEW o \in Otp, MP!ClaimRefused(d, o) PROVE FALSE
    <3>1. MP!Verdict(o) # "otp_payload"
      BY DEF MP!Verdict
    <3> QED
      BY <1>3, <2>2, <3>1 DEF MP!ClaimRefused, MP!Send
  <2>3. ASSUME NEW c \in Call, MP!Step(c) PROVE MP!Deliver(c)
    <3>1. ~(MP!OpenWindow(c) \/ MP!RepeatClaim(c) \/ MP!SecondClaim(c) \/ MP!Fire(c)
            \/ MP!TakeWindow(c) \/ MP!Kill(c))
      BY DEF MP!OpenWindow, MP!RepeatClaim, MP!SecondClaim, MP!Fire, MP!TakeWindow, MP!Kill,
             MP!Quiet
    <3>2. ~(MP!Reload(c) \/ MP!Mark(c) \/ MP!Notify(c))
      BY <1>3 DEF MP!Reload, MP!Mark, MP!Notify, MP!Quiet, MP!Send
    <3> QED
      BY <2>3, <3>1, <3>2 DEF MP!Step
  <2>4. ASSUME \/ \E o \in Otp : MP!Ingest(o)
               \/ \E c \in Call, d \in Device, o \in Otp : MP!ClaimPending(c, d, o)
               \/ \E c \in Call : MP!Unwind(c)
               \/ MP!Sweep \/ MP!Crash \/ MP!Tick
        PROVE  FALSE
    BY <2>4 DEF MP!Ingest, MP!ClaimPending, MP!Sweep, MP!Crash, MP!Tick, MP!Unwind, MP!Quiet
  <2>5. PICK c \in Call : MP!Deliver(c)
    BY <1>1, <2>2, <2>3, <2>4 DEF MP!Next
  <2> QED
    BY <1>3, <2>1, <2>5 DEF MP!Deliver, MP!Send
<1> QED
  BY <1>1, <1>2, <1>3, RelayAssumption
  DEF EnvelopeOK, MP!IInv, MP!PaidSettled, MP!WinnerClaimed, M!Envelope,
      RelayAssumption, M!ManagerAssumption
--------------------------------------------------------------------------------
(* What is appended, and what is taken. *)
LEMMA QueuedIs ==
  ASSUME Wiring, NEW k \in Conn, NEW e \in M!Envelope \cup {Local}, Queued(k, e)
  PROVE  /\ box' \in [Conn -> Seq(M!Envelope \cup {Local})]
         /\ \A x \in Conn \ {k} : box'[x] = box[x]
         /\ \A i \in 1..Len(box[k]) : i \in 1..Len(box'[k]) /\ box'[k][i] = box[k][i]
         /\ IF Len(box[k]) < Buffer
            THEN Len(box'[k]) = Len(box[k]) + 1 /\ box'[k][Len(box[k]) + 1] = e
            ELSE box' = box
<1>1. box[k] \in Seq(M!Envelope \cup {Local}) /\ Len(box[k]) \in Nat
  BY LenProperties DEF Wiring
<1>2. CASE Len(box[k]) < Buffer
  <2>1. box'[k] = Append(box[k], e) /\ \A x \in Conn \ {k} : box'[x] = box[x]
    BY <1>2 DEF Queued, Wiring
  <2>2. /\ Append(box[k], e) \in Seq(M!Envelope \cup {Local})
        /\ Len(Append(box[k], e)) = Len(box[k]) + 1
        /\ \A i \in 1..Len(box[k]) : Append(box[k], e)[i] = box[k][i]
        /\ Append(box[k], e)[Len(box[k]) + 1] = e
    BY <1>1, AppendProperties
  <2>3. box' \in [Conn -> Seq(M!Envelope \cup {Local})]
    BY <1>2, <2>2 DEF Queued, Wiring
  <2> QED
    BY <1>1, <1>2, <2>1, <2>2, <2>3
<1>3. CASE ~(Len(box[k]) < Buffer)
  BY <1>3 DEF Queued, Wiring
<1> QED
  BY <1>2, <1>3

LEMMA TakenIs ==
  ASSUME Wiring, NEW k \in Conn, box[k] # <<>>, box' = [box EXCEPT ![k] = Tail(@)]
  PROVE  /\ box' \in [Conn -> Seq(M!Envelope \cup {Local})]
         /\ \A x \in Conn \ {k} : box'[x] = box[x]
         /\ Len(box'[k]) = Len(box[k]) - 1
         /\ Head(box[k]) = box[k][1]
         /\ \A i \in 1..Len(box'[k]) : i + 1 \in 1..Len(box[k]) /\ box'[k][i] = box[k][i + 1]
<1>1. box[k] \in Seq(M!Envelope \cup {Local}) /\ Len(box[k]) \in Nat \ {0}
  BY LenProperties, EmptySeq DEF Wiring
<1>2. /\ Tail(box[k]) \in Seq(M!Envelope \cup {Local})
      /\ Len(Tail(box[k])) = Len(box[k]) - 1
      /\ \A i \in 1..Len(Tail(box[k])) : Tail(box[k])[i] = box[k][i + 1]
  BY <1>1, HeadTailProperties
<1>3. box'[k] = Tail(box[k]) /\ \A x \in Conn \ {k} : box'[x] = box[x]
  BY DEF Wiring
<1>4. box' \in [Conn -> Seq(M!Envelope \cup {Local})]
  BY <1>2 DEF Wiring
<1> QED
  BY <1>1, <1>2, <1>3, <1>4

(* A pump that reads is not busy, nor is an idle handler: nothing that is   *)
(* in SendToDevice is overwritten by what a claim gives to send.            *)
LEMMA Enters ==
  ASSUME IInv, Next, NEW g \in Conn \cup Handler, NEW d \in Device, NEW o \in Otp,
         Claim(g, d, o), mail[g] = None
  PROVE  \A x \in Goroutine :
           mail'[x] = mail[x] \/ (mail[x] = None /\ mail'[x] = out' /\ out' # None /\ M!Next)
<1>1. mail \in [Goroutine -> M!Envelope \cup {None}] /\ g \in Goroutine
  BY DEF IInv, Wiring, Goroutine
<1>2. M!Next
  BY DEF Claim, M!Next
<1>3. ASSUME M!ClaimRefused(d, o) PROVE out' # None
  <2>1. \/ /\ out' = [to |-> d, otp |-> o, type |-> M!Verdict(o)]
           /\ M!Verdict(o) # "enter"
        \/ out' = [to |-> d, otp |-> o, type |-> "err_internal"]
    BY <1>3 DEF M!ClaimRefused, M!Send
  <2>2. M!Verdict(o) # "enter" => M!Verdict(o) \in M!Reply
    BY DEF M!Verdict, M!Reply
  <2>3. out' \in M!Envelope
    BY <2>1, <2>2 DEF M!Envelope, M!Reply
  <2> QED
    BY <2>3, RelayAssumption DEF RelayAssumption, M!ManagerAssumption
<1> QED
  BY <1>1, <1>2, <1>3 DEF Claim

(* What becomes of the envelope that g is inside SendToDevice with: it is   *)
(* handed over or lost, and g lets go of the client; or g had none and the  *)
(* manager gives it one.                                                    *)
Given(g) == mail[g] = None /\ mail'[g] = out' /\ out' # None /\ M!Next

LEMMA MailMoves ==
  ASSUME IInv, Next, NEW g \in Goroutine
  PROVE  /\ \/ mail'[g] = mail[g]
            \/ mail[g] # None /\ mail'[g] = None /\ held'[g] = None
            \/ Given(g) /\ held'[g] = held[g]
         /\ held'[g] # held[g] => held'[g] = None \/ Lookup(g)
<1>1. /\ mail \in [Goroutine -> M!Envelope \cup {None}]
      /\ by \in [Call -> Conn \cup Handler \cup {None}]
      /\ held \in [Goroutine -> Conn \cup {None}]
  BY Shape DEF Wiring
<1>2. ASSUME NEW h \in Handler, NEW d \in Device, NEW o \in Otp, ClaimByREST(h, d, o)
      PROVE  (mail'[g] = mail[g] \/ Given(g)) /\ held' = held
  <2>1. mail[h] = None /\ Claim(h, d, o) /\ held' = held
    BY <1>2 DEF ClaimByREST, Busy, hub
  <2> QED
    BY <2>1, Enters DEF Given
<1>3. ASSUME NEW k \in Conn, NEW o \in Otp, ClaimOverSocket(k, o)
      PROVE  (mail'[g] = mail[g] \/ Given(g)) /\ held' = held
  <2>1. conn[k].dev \in Device /\ held' = held /\ conn[k].reader = "reading"
    BY <1>3, Shape DEF ClaimOverSocket, H!Receive
  <2>2. mail[k] = None
    BY <2>1 DEF IInv, ConnOK, Busy
  <2>3. CASE Claim(k, conn[k].dev, o)
    BY <2>1, <2>2, <2>3, Enters DEF Given
  <2> QED
    BY <1>3, <2>1, <2>3 DEF ClaimOverSocket
<1>4. ASSUME NEW c \in Call, Advance(c)
      PROVE  (mail'[g] = mail[g] \/ Given(g)) /\ held' = held
  <2>1. At(c) \in Goroutine /\ mail[At(c)] = None /\ M!Next
    BY <1>1, <1>4 DEF Advance, At, Goroutine, M!Next
  <2> QED
    BY <1>1, <1>4, <2>1 DEF Advance, Given, hub
<1>5. ASSUME NEW x \in Goroutine, SendToDevice(x)
      PROVE  /\ mail'[g] = mail[g] \/ (mail[g] # None /\ mail'[g] = None /\ held'[g] = None)
             /\ held'[g] # held[g] => held'[g] = None \/ Lookup(g)
  <2>1. CASE Offline(x)
    BY <1>1, <2>1 DEF Offline, hub
  <2>2. CASE Lookup(x)
    BY <1>1, <2>2 DEF Lookup, H!Lookup
  <2>3. CASE PushQueues(x) \/ PushUnwinds(x)
    <3>1. /\ held[x] # None /\ held' = [held EXCEPT ![x] = None]
          /\ mail' = [mail EXCEPT ![x] = None]
      BY <2>3 DEF PushQueues, PushUnwinds, H!Push
    <3>2. mail[x] # None
      BY <3>1 DEF IInv, HeldOK
    <3> QED
      BY <1>1, <3>1, <3>2
  <2>4. CASE PushDies(x)
    BY <2>4 DEF PushDies, H!Push, H!Die
  <2> QED
    BY <1>5, <2>1, <2>2, <2>3, <2>4 DEF SendToDevice
<1>6. ASSUME \/ Elsewhere \/ Tick \/ Connect
             \/ \E k \in Conn : OnClaimReturns(k) \/ ReceiveLocal(k) \/ ReplyLocal(k)
                                \/ WriteFrame(k) \/ Collect(k)
      PROVE  UNCHANGED <<mail, held>>
  BY <1>6 DEF Elsewhere, Tick, hub, Connect, OnClaimReturns, ReceiveLocal, ReplyLocal,
     WriteFrame, Collect, H!Upgrade, H!UpgradeFails, H!Register, H!PeerGone, H!ReadFails,
     H!Unregister, H!WriteFails, H!WriterEnds, H!Dispatched, H!Receive, H!Reply,
     H!WriteFrame, H!Collect, H!Die
<1>7. ASSUME Restart PROVE mail'[g] = None /\ held'[g] = None
  BY <1>7 DEF Restart, H!Restart
<1> QED
  BY <1>2, <1>3, <1>4, <1>5, <1>6, <1>7 DEF Next
--------------------------------------------------------------------------------
(* What becomes of a connection: it keeps its device, or is new, or freed.  *)
Kept(k) ==
  /\ conn'[k].dev = conn[k].dev
  /\ conn[k].reader \notin {"none", "upgrading"} => conn'[k].reader \notin {"none", "upgrading"}

New(k) == conn[k] = H!Free /\ conn[k].queued = 0

Freed(k) ==
  /\ conn'[k] = H!Free
  /\ \/ conn[k].reader = "upgrading" /\ box' = box
     \/ box'[k] = <<>> /\ \A g \in Goroutine : held[g] = k => held'[g] = None

LEMMA ConnMoves ==
  ASSUME IInv, Next, NEW k \in Conn
  PROVE  Kept(k) \/ New(k) \/ Freed(k)
<1>1. /\ conn \in [Conn -> H!Client]
      /\ box \in [Conn -> Seq(M!Envelope \cup {Local})]
  BY Shape DEF Wiring
<1>2. ASSUME conn' = conn PROVE Kept(k)
  BY <1>2 DEF Kept
<1>3. ASSUME \/ \E h \in Handler, d \in Device, o \in Otp : ClaimByREST(h, d, o)
             \/ \E c \in Call : Advance(c)
             \/ Elsewhere \/ Tick
      PROVE  Kept(k)
  BY <1>2, <1>3 DEF ClaimByREST, Advance, Elsewhere, Tick, hub
<1>4. ASSUME NEW x \in Goroutine, SendToDevice(x) PROVE Kept(k)
  <2>1. CASE Offline(x) \/ Lookup(x) \/ PushUnwinds(x) \/ PushDies(x)
    BY <1>2, <2>1 DEF Offline, Lookup, PushUnwinds, PushDies, hub, H!Lookup, H!Push, H!Die
  <2>2. CASE PushQueues(x)
    <3>1. held[x] \in Conn /\ conn' = [conn EXCEPT ![held[x]].queued = H!Enqueue(held[x])]
      BY <2>2, Shape DEF PushQueues, H!Push
    <3> QED
      BY <1>1, <3>1 DEF Kept, H!Client
  <2> QED
    BY <1>4, <2>1, <2>2 DEF SendToDevice
<1>5. ASSUME NEW x \in Conn, \/ OnClaimReturns(x) \/ ReceiveLocal(x) \/ ReplyLocal(x)
                             \/ WriteFrame(x) \/ \E o \in Otp : ClaimOverSocket(x, o)
      PROVE  Kept(k)
  <2>1. \/ \E r \in {"reading", "replying", "dispatching"} :
             /\ conn[x].reader \in {"reading", "dispatching"}
             /\ conn' = [conn EXCEPT ![x].reader = r]
        \/ conn' = [conn EXCEPT ![x].reader = "reading", ![x].queued = H!Enqueue(x)]
        \/ conn' = [conn EXCEPT ![x].queued = @ - 1]
        \/ conn' = conn
    BY <1>5 DEF OnClaimReturns, ReceiveLocal, ReplyLocal, WriteFrame, ClaimOverSocket,
       H!Dispatched, H!Receive, H!Reply, H!WriteFrame, H!Die
  <2> QED
    BY <1>1, <2>1 DEF Kept, H!Client
<1>6. ASSUME NEW x \in Conn, Collect(x) PROVE Kept(k) \/ Freed(k)
  BY <1>1, <1>6 DEF Collect, H!Collect, Kept, Freed
<1>7. ASSUME Connect PROVE Kept(k) \/ New(k) \/ Freed(k)
  <2>1. ASSUME NEW x \in Conn, NEW d \in Online, H!Upgrade(x, d) PROVE Kept(k) \/ New(k)
    BY <1>1, <2>1 DEF H!Upgrade, Kept, New, H!Client, H!Free
  <2>2. ASSUME NEW x \in Conn, H!UpgradeFails(x) PROVE Kept(k) \/ Freed(k)
    BY <1>1, <1>7, <2>2 DEF H!UpgradeFails, Kept, Freed, Connect
  <2>3. ASSUME NEW x \in Conn, H!Register(x) PROVE Kept(k)
    <3>1. \/ conn' = conn
          \/ conn'[k] = [conn[k] EXCEPT !.reader = "reading", !.writer = "running"]
          \/ conn'[k] = [conn[k] EXCEPT !.open = FALSE]
          \/ conn'[k] = conn[k]
      BY <2>3 DEF H!Register, H!Die
    <3> QED
      BY <1>1, <3>1 DEF Kept, H!Client
  <2>4. ASSUME NEW x \in Conn, \/ H!PeerGone(x) \/ H!ReadFails(x) \/ H!Unregister(x)
                               \/ H!WriteFails(x) \/ H!WriterEnds(x)
        PROVE  Kept(k)
    <3>1. \/ conn' = conn
          \/ conn' = [conn EXCEPT ![x].link = FALSE]
          \/ conn' = [conn EXCEPT ![x].reader = "leaving"]
          \/ conn' = [conn EXCEPT ![x].writer = "gone", ![x].link = FALSE]
          \/ \E b : conn' = [conn EXCEPT ![x] = [H!Ended(x) EXCEPT !.open = b]]
      BY <2>4 DEF H!PeerGone, H!ReadFails, H!Unregister, H!WriteFails, H!WriterEnds, H!Die
    <3>2. /\ H!Ended(x) \in H!Client
          /\ H!Ended(x).dev = conn[x].dev /\ H!Ended(x).reader = "gone"
      BY <1>1 DEF H!Client, H!Ended
    <3>3. ASSUME NEW b, conn' = [conn EXCEPT ![x] = [H!Ended(x) EXCEPT !.open = b]] PROVE Kept(k)
      BY <1>1, <3>2, <3>3 DEF Kept, H!Client
    <3>4. ASSUME conn' = [conn EXCEPT ![x].link = FALSE] PROVE Kept(k)
      BY <1>1, <3>4 DEF Kept, H!Client
    <3>5. ASSUME conn' = [conn EXCEPT ![x].reader = "leaving"] PROVE Kept(k)
      BY <1>1, <3>5 DEF Kept, H!Client
    <3>6. ASSUME conn' = [conn EXCEPT ![x].writer = "gone", ![x].link = FALSE] PROVE Kept(k)
      BY <1>1, <3>6 DEF Kept, H!Client
    <3> QED
      BY <1>2, <3>1, <3>3, <3>4, <3>5, <3>6
  <2> QED
    BY <1>7, <2>1, <2>2, <2>3, <2>4 DEF Connect
<1>8. ASSUME Restart PROVE Freed(k)
  BY <1>8 DEF Restart, H!Restart, Freed
<1> QED
  BY <1>3, <1>4, <1>5, <1>6, <1>7, <1>8 DEF Next

(* A client that was looked up stays the addressee's until it is let go of. *)
LEMMA HeldStep ==
  ASSUME IInv, Next, NEW g \in Goroutine
  PROVE  HeldOK(g)'
<1>1. CASE Lookup(g)
  <2>1. /\ mail[g] # None /\ clients[mail[g].to] # None
        /\ held'[g] = clients[mail[g].to] /\ conn' = conn /\ mail' = mail
    BY <1>1, Shape DEF Lookup, H!Lookup
  <2>2. mail[g].to \in Device
    BY <2>1, Shape DEF Wiring, M!Envelope
  <2> QED
    BY <2>1, <2>2, Shape DEF HeldOK
<1>2. CASE ~Lookup(g) /\ held'[g] # None
  <2>1. held'[g] = held[g] /\ held[g] \in Conn
    BY <1>2, MailMoves, Shape
  <2>2. /\ mail[g] # None /\ conn[held[g]].dev = mail[g].to
        /\ conn[held[g]].reader \notin {"none", "upgrading"}
    BY <1>2, <2>1 DEF IInv, HeldOK
  <2>3. mail'[g] = mail[g]
    BY <1>2, <2>1, <2>2, MailMoves DEF Given
  <2>4. Kept(held[g])
    <3>1. ~New(held[g])
      BY <2>2 DEF New, H!Free
    <3> QED
      BY <1>2, <2>1, <2>2, <3>1, ConnMoves DEF Freed
  <2> QED
    BY <2>1, <2>2, <2>3, <2>4 DEF HeldOK, Kept
<1> QED
  BY <1>1, <1>2 DEF HeldOK

LEMMA MailStep ==
  ASSUME IInv, Next, NEW g \in Goroutine
  PROVE  MailOK(g)'
<1>1. CASE mail'[g] = mail[g] /\ mail[g] # None
  <2>1. mail[g] \in M!Envelope /\ EnvelopeOK(mail[g])
    BY <1>1 DEF IInv, Wiring, MailOK
  <2> QED
    BY <1>1, <2>1, EnvelopeKept DEF MailOK, EnvelopeOK
<1>2. CASE Given(g)
  BY <1>2, EnvelopeNew DEF Given, MailOK, EnvelopeOK
<1> QED
  BY <1>1, <1>2, MailMoves DEF MailOK
--------------------------------------------------------------------------------
(* A queue changes by an append or by a take, or is emptied. *)
LEMMA BoxWriters ==
  ASSUME IInv, Next
  PROVE  \/ box' = box
         \/ \E g \in Goroutine : /\ PushQueues(g) /\ held[g] \in Conn
                                /\ mail[g] \in M!Envelope /\ Queued(held[g], mail[g])
         \/ \E k \in Conn : ReplyLocal(k) /\ Queued(k, Local)
         \/ \E k \in Conn : WriteFrame(k) /\ box[k] # <<>> /\ box' = [box EXCEPT ![k] = Tail(@)]
         \/ \E k \in Conn : Collect(k) /\ box' = [box EXCEPT ![k] = <<>>]
         \/ Restart /\ box' = [k \in Conn |-> <<>>]
<1>1. ASSUME \/ \E h \in Handler, d \in Device, o \in Otp : ClaimByREST(h, d, o)
             \/ \E k \in Conn, o \in Otp : ClaimOverSocket(k, o)
             \/ \E k \in Conn : OnClaimReturns(k) \/ ReceiveLocal(k)
             \/ \E c \in Call : Advance(c)
             \/ \E g \in Goroutine : Offline(g) \/ Lookup(g) \/ PushUnwinds(g) \/ PushDies(g)
             \/ Elsewhere \/ Tick \/ Connect
      PROVE  box' = box
  BY <1>1 DEF ClaimByREST, ClaimOverSocket, OnClaimReturns, ReceiveLocal, Advance, Offline,
     Lookup, PushUnwinds, PushDies, Elsewhere, Tick, Connect
<1>2. ASSUME NEW g \in Goroutine, PushQueues(g)
      PROVE  held[g] \in Conn /\ mail[g] \in M!Envelope /\ Queued(held[g], mail[g])
  <2>1. held[g] \in Conn /\ Queued(held[g], mail[g])
    BY <1>2, Shape DEF PushQueues, H!Push
  <2> QED
    BY <2>1, RelayAssumption
    DEF IInv, HeldOK, Wiring, RelayAssumption, H!HubAssumption
<1>3. ASSUME NEW k \in Conn, WriteFrame(k)
      PROVE  box[k] # <<>> /\ box' = [box EXCEPT ![k] = Tail(@)]
  <2>1. conn[k].queued > 0 /\ Len(box[k]) = conn[k].queued
    BY <1>3 DEF IInv, ConnOK, WriteFrame, H!WriteFrame
  <2> QED
    BY <1>3, <2>1, EmptySeq DEF WriteFrame
<1>4. ASSUME NEW k \in Conn, ReplyLocal(k) PROVE box' = box \/ Queued(k, Local)
  BY <1>4 DEF ReplyLocal
<1>5. \A k \in Conn : Collect(k) => box' = [box EXCEPT ![k] = <<>>]
  BY DEF Collect
<1>6. Restart => box' = [k \in Conn |-> <<>>]
  BY DEF Restart
<1> QED
  BY <1>1, <1>2, <1>3, <1>4, <1>5, <1>6 DEF Next, SendToDevice

(* So what is in a queue was there before, or answers the peer, or is the   *)
(* envelope of a goroutine that has looked this client up.                  *)
LEMMA BoxMoves ==
  ASSUME IInv, Next, NEW k \in Conn, NEW i \in 1..Len(box'[k])
  PROVE  \/ \E j \in 1..Len(box[k]) : box'[k][i] = box[k][j]
         \/ box'[k][i] = Local
         \/ \E g \in Goroutine : held[g] = k /\ mail[g] # None /\ box'[k][i] = mail[g]
<1>1. Wiring /\ box \in [Conn -> Seq(M!Envelope \cup {Local})] /\ Len(box[k]) \in Nat
  BY LenProperties DEF IInv, Wiring
<1>2. CASE box'[k] = box[k]
  BY <1>2
<1>3. ASSUME box'[k] # box[k], NEW x \in Conn, NEW e \in M!Envelope \cup {Local}, Queued(x, e)
      PROVE  x = k /\ (box'[k][i] = e \/ \E j \in 1..Len(box[k]) : box'[k][i] = box[k][j])
  <2>1. x = k /\ Len(box[k]) < Buffer
    BY <1>1, <1>3, QueuedIs
  <2>2. /\ Len(box'[k]) = Len(box[k]) + 1 /\ box'[k][Len(box[k]) + 1] = e
        /\ \A j \in 1..Len(box[k]) : box'[k][j] = box[k][j]
    BY <1>1, <1>3, <2>1, QueuedIs
  <2>3. i \in 1..Len(box[k]) \/ i = Len(box[k]) + 1
    BY <1>1, <2>2
  <2> QED
    BY <2>1, <2>2, <2>3
<1>4. ASSUME NEW g \in Goroutine, held[g] \in Conn, mail[g] \in M!Envelope,
             Queued(held[g], mail[g]), box'[k] # box[k]
      PROVE  \/ \E j \in 1..Len(box[k]) : box'[k][i] = box[k][j]
             \/ held[g] = k /\ mail[g] # None /\ box'[k][i] = mail[g]
  <2>1. mail[g] # None
    BY <1>4, RelayAssumption DEF RelayAssumption, M!ManagerAssumption
  <2> QED
    BY <1>3, <1>4, <2>1
<1>5. ASSUME NEW x \in Conn, box[x] # <<>>, box' = [box EXCEPT ![x] = Tail(@)], box'[k] # box[k]
      PROVE  \E j \in 1..Len(box[k]) : box'[k][i] = box[k][j]
  BY <1>1, <1>5, TakenIs
<1>6. ASSUME box'[k] # box[k], \/ \E x \in Conn : box' = [box EXCEPT ![x] = <<>>]
                              \/ box' = [x \in Conn |-> <<>>]
      PROVE  FALSE
  <2>1. box'[k] = <<>>
    BY <1>1, <1>6
  <2> QED
    BY <2>1
<1> QED
  BY <1>2, <1>3, <1>4, <1>5, <1>6, BoxWriters

(* An envelope in the queue of a connection is for its device. *)
LEMMA BoxStep ==
  ASSUME IInv, Next, NEW k \in Conn
  PROVE  BoxOK(k)'
<1> SUFFICES ASSUME NEW i \in 1..Len(box'[k]), box'[k][i] # Local
             PROVE  box'[k][i].to = conn'[k].dev /\ EnvelopeOK(box[k][i])'
    BY DEF BoxOK
<1>1. /\ box \in [Conn -> Seq(M!Envelope \cup {Local})] /\ Len(box[k]) = conn[k].queued
      /\ mail \in [Goroutine -> M!Envelope \cup {None}]
      /\ BoxOK(k) /\ ConnOK(k)
  BY DEF IInv, Wiring, ConnOK
<1>2. ~Freed(k)
  <2>1. CASE box'[k] = <<>>
    BY <2>1
  <2>2. CASE conn[k].reader = "upgrading" /\ box' = box
    BY <1>1, <2>2 DEF ConnOK
  <2> QED
    BY <2>1, <2>2 DEF Freed
<1>3. ASSUME NEW j \in 1..Len(box[k]), box'[k][i] = box[k][j]
      PROVE  box'[k][i].to = conn'[k].dev /\ EnvelopeOK(box[k][i])'
  <2>1. ~New(k)
    BY <1>1, <1>3 DEF New
  <2>2. Kept(k)
    BY <1>2, <2>1, ConnMoves
  <2>3. box[k][j] \in M!Envelope
    BY <1>1, <1>3, ElementOfSeq
  <2>4. box[k][j].to = conn[k].dev /\ EnvelopeOK(box[k][j])
    BY <1>1, <1>3 DEF BoxOK
  <2> QED
    BY <1>3, <2>2, <2>3, <2>4, EnvelopeKept DEF Kept, EnvelopeOK
<1>4. ASSUME NEW g \in Goroutine, held[g] = k, mail[g] # None, box'[k][i] = mail[g]
      PROVE  box'[k][i].to = conn'[k].dev /\ EnvelopeOK(box[k][i])'
  <2>1. held[g] # None
    BY <1>4, RelayAssumption DEF RelayAssumption, H!HubAssumption
  <2>2. conn[k].dev = mail[g].to /\ conn[k].reader \notin {"none", "upgrading"}
    BY <1>4, <2>1 DEF IInv, HeldOK
  <2>3. Kept(k)
    BY <1>2, <2>2, ConnMoves DEF New, H!Free
  <2>4. mail[g] \in M!Envelope /\ EnvelopeOK(mail[g])
    BY <1>1, <1>4 DEF IInv, MailOK
  <2> QED
    BY <1>4, <2>2, <2>3, <2>4, EnvelopeKept DEF Kept, EnvelopeOK
<1> QED
  BY <1>3, <1>4, BoxMoves
--------------------------------------------------------------------------------
LEMMA WiringStep ==
  ASSUME IInv, Next
  PROVE  Wiring'
<1>1. Wiring
  BY DEF IInv
<1>2. M!Next /\ out' # None => out' \in M!Envelope
  BY EnvelopeNew
<1>3. by' \in [Call -> Conn \cup Handler \cup {None}]
  <2>1. ASSUME NEW g \in Conn \cup Handler, NEW d, NEW o, Claim(g, d, o)
        PROVE  by' \in [Call -> Conn \cup Handler \cup {None}]
    BY <1>1, <2>1 DEF Wiring, Claim
  <2>2. ASSUME \/ \E h \in Handler, d \in Device, o \in Otp : ClaimByREST(h, d, o)
               \/ \E k \in Conn, o \in Otp : ClaimOverSocket(k, o)
        PROVE  by' \in [Call -> Conn \cup Handler \cup {None}]
    BY <1>1, <2>1, <2>2 DEF Wiring, ClaimByREST, ClaimOverSocket
  <2>3. ASSUME \/ \E c \in Call : Advance(c)
               \/ \E g \in Goroutine : SendToDevice(g)
        PROVE  by' \in [Call -> Conn \cup Handler \cup {None}]
    BY <1>1, <2>3 DEF Wiring, Advance, SendToDevice, Offline, Lookup, PushQueues, PushUnwinds,
       PushDies
  <2>4. ASSUME \/ Elsewhere \/ Tick \/ Connect \/ Restart
               \/ \E k \in Conn : OnClaimReturns(k) \/ ReceiveLocal(k) \/ ReplyLocal(k)
                                  \/ WriteFrame(k) \/ Collect(k)
        PROVE  by' \in [Call -> Conn \cup Handler \cup {None}]
    BY <1>1, <2>4 DEF Wiring, Elsewhere, Tick, Connect, Restart, OnClaimReturns, ReceiveLocal,
       ReplyLocal, WriteFrame, Collect
  <2> QED
    BY <2>2, <2>3, <2>4 DEF Next
<1>4. mail' \in [Goroutine -> M!Envelope \cup {None}]
  <2>1. mail' = [g \in Goroutine |-> mail'[g]]
    <3>1. ASSUME \/ \E g, d, o : Claim(g, d, o)
                 \/ \E c \in Call : Advance(c)
          PROVE  mail' = [g \in Goroutine |-> mail'[g]]
      BY <1>1, <3>1 DEF Wiring, Claim, Advance
    <3>2. ASSUME \E g \in Goroutine : SendToDevice(g)
          PROVE  mail' = [g \in Goroutine |-> mail'[g]]
      BY <1>1, <3>2 DEF Wiring, SendToDevice, Offline, Lookup, PushQueues, PushUnwinds, PushDies
    <3>3. ASSUME \/ Elsewhere \/ Tick \/ Connect \/ Restart
                 \/ \E k \in Conn : OnClaimReturns(k) \/ ReceiveLocal(k) \/ ReplyLocal(k)
                                    \/ WriteFrame(k) \/ Collect(k)
                 \/ mail' = mail
          PROVE  mail' = [g \in Goroutine |-> mail'[g]]
      BY <1>1, <3>3 DEF Wiring, Elsewhere, Tick, Connect, Restart, OnClaimReturns, ReceiveLocal,
         ReplyLocal, WriteFrame, Collect
    <3> QED
      BY <3>1, <3>2, <3>3 DEF Next, ClaimByREST, ClaimOverSocket
  <2>2. ASSUME NEW g \in Goroutine PROVE mail'[g] \in M!Envelope \cup {None}
    BY <1>1, <1>2, MailMoves DEF Wiring, Given
  <2> QED
    BY <2>1, <2>2
<1>5. box' \in [Conn -> Seq(M!Envelope \cup {Local})]
  <2>1. ASSUME NEW k \in Conn, NEW e \in M!Envelope \cup {Local}, Queued(k, e)
        PROVE  box' \in [Conn -> Seq(M!Envelope \cup {Local})]
    BY <1>1, <2>1, QueuedIs
  <2>2. ASSUME NEW k \in Conn, box[k] # <<>>, box' = [box EXCEPT ![k] = Tail(@)]
        PROVE  box' \in [Conn -> Seq(M!Envelope \cup {Local})]
    BY <1>1, <2>2, TakenIs
  <2>3. <<>> \in Seq(M!Envelope \cup {Local})
    BY EmptySeq
  <2> QED
    BY <1>1, <2>1, <2>2, <2>3, BoxWriters DEF Wiring
<1> QED
  BY <1>3, <1>4, <1>5 DEF Wiring

(* A goroutine becomes busy only by a claim, in a pump that dispatches it.  *)
LEMMA BusyMoves ==
  ASSUME IInv, Next, NEW k \in Conn, Busy(k)'
  PROVE  Busy(k) \/ \E o \in Otp : ClaimOverSocket(k, o)
<1>1. /\ mail \in [Goroutine -> M!Envelope \cup {None}]
      /\ by \in [Call -> Conn \cup Handler \cup {None}]
      /\ k \notin Handler /\ k \notin Call /\ k # None /\ k \in Goroutine
  BY RelayAssumption DEF IInv, Wiring, Goroutine, RelayAssumption
<1>2. ASSUME NEW g \in (Conn \cup Handler) \ {k}, NEW d, NEW o, Claim(g, d, o) PROVE Busy(k)
  BY <1>1, <1>2 DEF Claim, Busy
<1>3. ASSUME NEW c \in Call, Advance(c) PROVE Busy(k)
  <2>1. \/ by[c] = k
        \/ mail'[k] = mail[k] /\ \A x \in Call : by'[x] = k => by[x] = k
    BY <1>1, <1>3 DEF Advance, At
  <2> QED
    BY <2>1 DEF Busy
<1>4. ASSUME NEW g \in Goroutine, SendToDevice(g) PROVE Busy(k)
  BY <1>1, <1>4 DEF SendToDevice, Offline, Lookup, PushQueues, PushUnwinds, PushDies, Busy
<1>5. ASSUME \/ Elsewhere \/ Tick \/ Connect \/ UNCHANGED <<by, mail>>
             \/ \E x \in Conn : OnClaimReturns(x) \/ ReceiveLocal(x) \/ ReplyLocal(x)
                                \/ WriteFrame(x) \/ Collect(x)
      PROVE  Busy(k)
  BY <1>5 DEF Elsewhere, Tick, Connect, OnClaimReturns, ReceiveLocal, ReplyLocal, WriteFrame,
     Collect, Busy
<1>6. ~Restart
  BY <1>1 DEF Restart, Busy
<1>7. ASSUME NEW h \in Handler, NEW d \in Device, NEW o \in Otp, ClaimByREST(h, d, o)
      PROVE  Busy(k)
  BY <1>1, <1>2, <1>7 DEF ClaimByREST
<1>8. ASSUME NEW x \in Conn, NEW o \in Otp, ClaimOverSocket(x, o), x # k PROVE Busy(k)
  BY <1>2, <1>5, <1>8 DEF ClaimOverSocket
<1> QED
  BY <1>3, <1>4, <1>5, <1>6, <1>7, <1>8 DEF Next

(* The count goes with the queue, the writer with the socket; a pump leaves *)
(* OnClaim only when it is not busy; a connection is not freed while there  *)
(* is anything left to write.                                               *)
Steady(k) ==
  /\ Len(box'[k]) = conn'[k].queued
  /\ conn'[k].reader = "upgrading" => conn'[k].queued = 0
  /\ conn'[k].reader \notin {"none", "upgrading"} =>
       conn'[k].writer = "running" \/ ~conn'[k].link
  /\ conn[k].reader = "dispatching" => conn'[k].reader = "dispatching" \/ ~Busy(k)
  /\ conn[k].writer = "running" => conn'[k].writer \in {"running", "gone"} \/ box[k] = <<>>

LEMMA Steadied ==
  ASSUME IInv, NEW k \in Conn, Next, ~Restart
  PROVE  Steady(k)
<1>1. conn \in [Conn -> H!Client] /\ conn[k] \in H!Client /\ ConnOK(k)
  BY Shape DEF IInv
<1>2. ASSUME conn'[k] = conn[k], box'[k] = box[k] PROVE Steady(k)
  BY <1>1, <1>2 DEF Steady, ConnOK
<1>3. ASSUME conn' = conn, box' = box PROVE Steady(k)
  BY <1>2, <1>3
<1>4. ASSUME \/ \E h \in Handler, d \in Device, o \in Otp : ClaimByREST(h, d, o)
             \/ \E c \in Call : Advance(c)
             \/ \E g \in Goroutine : Offline(g) \/ Lookup(g) \/ PushUnwinds(g) \/ PushDies(g)
             \/ Elsewhere \/ Tick
      PROVE  Steady(k)
  BY <1>3, <1>4 DEF ClaimByREST, Advance, Offline, Lookup, PushUnwinds, PushDies, Elsewhere, Tick,
     hub, H!Lookup, H!Push, H!Die
<1>5. ASSUME NEW x \in Conn, box' = box,
             NEW r \in {"reading", "replying", "dispatching", "leaving"},
             conn[x].reader \in {"reading", "dispatching"},
             conn[x].reader = "dispatching" => ~Busy(x),
             conn' = [conn EXCEPT ![x].reader = r]
      PROVE  Steady(k)
  <2>1. CASE x # k
    BY <1>1, <1>2, <1>5, <2>1
  <2>2. CASE x = k
    BY <1>1, <1>5, <2>2 DEF Steady, ConnOK, H!Client
  <2> QED
    BY <2>1, <2>2
<1>6. ASSUME NEW x \in Conn, \/ OnClaimReturns(x) \/ ReceiveLocal(x)
                             \/ \E o \in Otp : ClaimOverSocket(x, o)
      PROVE  Steady(k)
  BY <1>5, <1>6 DEF OnClaimReturns, ReceiveLocal, ClaimOverSocket, H!Dispatched, H!Receive
<1>7. ASSUME NEW x \in Conn, NEW e \in M!Envelope \cup {Local}, Queued(x, e),
             conn[x].reader # "upgrading",
             \/ conn' = [conn EXCEPT ![x].queued = H!Enqueue(x)]
             \/ conn[x].reader = "replying"
                /\ conn' = [conn EXCEPT ![x].reader = "reading", ![x].queued = H!Enqueue(x)]
      PROVE  Steady(k)
  <2>1. CASE x # k
    <3>1. box'[k] = box[k]
      BY <1>7, <2>1, QueuedIs DEF IInv
    <3> QED
      BY <1>1, <1>2, <1>7, <2>1, <3>1
  <2>2. CASE x = k
    <3>1. Len(box'[k]) = H!Enqueue(k)
      BY <1>1, <1>7, <2>2, QueuedIs DEF IInv, ConnOK, H!Enqueue
    <3>2. CASE conn' = [conn EXCEPT ![k].queued = H!Enqueue(k)]
      BY <1>1, <1>7, <2>2, <3>1, <3>2 DEF Steady, ConnOK, H!Client
    <3>3. CASE /\ conn[k].reader = "replying"
               /\ conn' = [conn EXCEPT ![k].reader = "reading", ![k].queued = H!Enqueue(k)]
      BY <1>1, <2>2, <3>1, <3>3 DEF Steady, ConnOK, H!Client
    <3> QED
      BY <1>7, <2>2, <3>2, <3>3
  <2> QED
    BY <2>1, <2>2
<1>8. ASSUME NEW g \in Goroutine, PushQueues(g) PROVE Steady(k)
  <2>1. /\ held[g] \in Conn /\ conn[held[g]].open /\ Queued(held[g], mail[g])
        /\ conn' = [conn EXCEPT ![held[g]].queued = H!Enqueue(held[g])]
    BY <1>8, Shape DEF PushQueues, H!Push
  <2>2. mail[g] \in M!Envelope /\ conn[held[g]].reader # "upgrading"
    BY <2>1, RelayAssumption DEF IInv, HeldOK, Wiring, RelayAssumption, H!HubAssumption
  <2> QED
    BY <1>7, <2>1, <2>2
<1>9. ASSUME NEW x \in Conn, ReplyLocal(x) PROVE Steady(k)
  BY <1>3, <1>7, <1>9 DEF ReplyLocal, H!Reply, H!Die
<1>10. ASSUME NEW x \in Conn, WriteFrame(x) PROVE Steady(k)
  <2>1. box[x] # <<>> /\ conn[x].queued > 0 /\ Len(box[x]) = conn[x].queued
    BY <1>10, EmptySeq DEF IInv, ConnOK, WriteFrame, H!WriteFrame
  <2>2. conn' = [conn EXCEPT ![x].queued = @ - 1] /\ box' = [box EXCEPT ![x] = Tail(@)]
    BY <1>10 DEF WriteFrame, H!WriteFrame
  <2>3. CASE x # k
    BY <1>1, <1>2, <2>1, <2>2, <2>3, TakenIs DEF IInv
  <2>4. CASE x = k
    <3>1. Len(box'[k]) = conn[k].queued - 1
      BY <2>1, <2>2, <2>4, TakenIs DEF IInv
    <3>2. conn[k].reader # "upgrading"
      BY <1>1, <2>1, <2>4 DEF ConnOK
    <3> QED
      BY <1>1, <2>2, <2>4, <3>1, <3>2 DEF Steady, ConnOK, H!Client
  <2> QED
    BY <2>3, <2>4
<1>11. ASSUME NEW x \in Conn, conn[x].reader # "dispatching",
              conn[x].writer = "running" => box[x] = <<>>,
              conn' = [conn EXCEPT ![x] = H!Free], box'[x] = <<>>,
              x # k => box'[k] = box[k]
       PROVE  Steady(k)
  BY <1>1, <1>2, <1>11 DEF Steady, ConnOK, H!Free
<1>12. ASSUME NEW x \in Conn, Collect(x) PROVE Steady(k)
  BY <1>11, <1>12 DEF Collect, H!Collect, IInv, Wiring
<1>13. ASSUME Connect PROVE Steady(k)
  <2>1. ASSUME NEW x \in Conn, NEW d \in Online, H!Upgrade(x, d) PROVE Steady(k)
    <3>1. CASE x # k
      BY <1>1, <1>2, <1>13, <2>1, <3>1 DEF Connect, H!Upgrade
    <3>2. CASE x = k
      <4>1. conn[k].reader = "none" /\ conn[k].writer = "none" /\ conn[k].queued = 0
        BY <2>1, <3>2 DEF H!Upgrade, H!Free
      <4>2. conn'[k].reader = "upgrading" /\ conn'[k].queued = 0
        BY <1>1, <2>1, <3>2, <4>1 DEF H!Upgrade, H!Client
      <4> QED
        BY <1>1, <1>13, <4>1, <4>2 DEF Connect, Steady, ConnOK
    <3> QED
      BY <3>1, <3>2
  <2>2. ASSUME NEW x \in Conn, H!UpgradeFails(x) PROVE Steady(k)
    <3>1. box[x] = <<>>
      BY <2>2, EmptySeq DEF H!UpgradeFails, IInv, ConnOK, Wiring
    <3> QED
      BY <1>11, <1>13, <2>2, <3>1 DEF Connect, H!UpgradeFails
  <2>3. ASSUME NEW x \in Conn, H!Register(x) PROVE Steady(k)
    <3>1. \/ conn'[k] = conn[k]
          \/ conn[k].reader = "upgrading"
             /\ conn'[k] = [conn[k] EXCEPT !.reader = "reading", !.writer = "running"]
          \/ conn'[k] = [conn[k] EXCEPT !.open = FALSE]
      BY <2>3 DEF H!Register, H!Die
    <3> QED
      BY <1>1, <1>13, <3>1 DEF Connect, Steady, ConnOK, H!Client
  <2>4. ASSUME NEW x \in Conn, H!ReadFails(x) PROVE Steady(k)
    BY <1>5, <1>13, <2>4 DEF Connect, H!ReadFails
  <2>5. ASSUME NEW x \in Conn, H!Unregister(x) PROVE Steady(k)
    <3>1. \/ conn' = conn
          \/ conn[x].reader = "leaving"
             /\ \E b : conn' = [conn EXCEPT ![x] = [H!Ended(x) EXCEPT !.open = b]]
      BY <2>5 DEF H!Unregister, H!Die
    <3>2. conn[x] \in H!Client
      BY <1>1
    <3>3. /\ H!Ended(x) \in H!Client /\ H!Ended(x).queued = conn[x].queued
          /\ H!Ended(x).reader = "gone" /\ ~H!Ended(x).link
          /\ H!Ended(x).writer = conn[x].writer
      BY <3>2 DEF H!Client, H!Ended
    <3>4. ASSUME NEW b, conn[x].reader = "leaving",
                 conn' = [conn EXCEPT ![x] = [H!Ended(x) EXCEPT !.open = b]]
          PROVE  Steady(k)
      BY <1>1, <1>2, <1>13, <3>3, <3>4 DEF Connect, Steady, ConnOK, H!Client
    <3> QED
      BY <1>3, <1>13, <3>1, <3>4 DEF Connect
  <2>6. ASSUME NEW x \in Conn, conn' = [conn EXCEPT ![x].link = FALSE] PROVE Steady(k)
    BY <1>1, <1>13, <2>6 DEF Connect, Steady, ConnOK, H!Client
  <2>7. ASSUME NEW x \in Conn, conn' = [conn EXCEPT ![x].writer = "gone", ![x].link = FALSE]
        PROVE  Steady(k)
    BY <1>1, <1>13, <2>7 DEF Connect, Steady, ConnOK, H!Client
  <2> QED
    BY <1>13, <2>1, <2>2, <2>3, <2>4, <2>5, <2>6, <2>7
    DEF Connect, H!PeerGone, H!WriteFails, H!WriterEnds
<1> QED
  BY <1>4, <1>6, <1>8, <1>9, <1>10, <1>12, <1>13 DEF Next, SendToDevice

LEMMA ConnStep ==
  ASSUME IInv, Next, NEW k \in Conn
  PROVE  ConnOK(k)'
<1>1. CASE Restart
  <2>1. conn'[k] = H!Free /\ box'[k] = <<>>
    BY <1>1 DEF Restart, H!Restart
  <2>2. ~Busy(k)'
    BY <1>1, RelayAssumption DEF Restart, Busy, Goroutine, RelayAssumption
  <2> QED
    BY <2>1, <2>2 DEF ConnOK, H!Free
<1>2. CASE ~Restart
  <2>1. Busy(k)' => conn'[k].reader = "dispatching"
    <3>1. CASE \E o \in Otp : ClaimOverSocket(k, o)
      BY <3>1 DEF ClaimOverSocket
    <3> QED
      BY <1>2, <3>1, BusyMoves, Steadied DEF IInv, ConnOK, Steady
  <2> QED
    BY <1>2, <2>1, Steadied DEF ConnOK, Steady
<1> QED
  BY <1>1, <1>2
--------------------------------------------------------------------------------
LEMMA InitIInv == Init => IInv
<1> SUFFICES ASSUME Init PROVE IInv
    OBVIOUS
<1>1. MP!RInv
  <2>1. MP!Init
    BY SameManager DEF Init
  <2>2. MP!RowsExist
    BY <2>1 DEF MP!Init, MP!RowsExist, MP!Idle
  <2> QED
    BY <2>1, <2>2, MP!InitIInv, Assumptions DEF MP!RInv
<1>2. HP!IInv
  BY SameHub, HP!InitIInv, Assumptions DEF Init
<1>3. Wiring
  BY EmptySeq DEF Init, Wiring
<1>4. /\ \A k \in Conn : conn[k] = H!Free /\ box[k] = <<>>
      /\ \A g \in Goroutine : mail[g] = None /\ held[g] = None
      /\ \A c \in Call : by[c] = None
  BY DEF Init, H!Init
<1>5. ASSUME NEW k \in Conn PROVE ConnOK(k) /\ BoxOK(k)
  <2>1. ~Busy(k)
    BY <1>4, RelayAssumption DEF Busy, Goroutine, RelayAssumption
  <2> QED
    BY <1>4, <2>1 DEF ConnOK, BoxOK, H!Free
<1>6. \A g \in Goroutine : HeldOK(g) /\ MailOK(g)
  BY <1>4 DEF HeldOK, MailOK
<1> QED
  BY <1>1, <1>2, <1>3, <1>5, <1>6 DEF IInv

LEMMA NextIInv == IInv /\ [Next]_vars => IInv'
<1>1. CASE Next
  BY <1>1, ComponentsStep, WiringStep, ConnStep, BoxStep, HeldStep, MailStep DEF IInv
<1>2. ASSUME UNCHANGED vars, IInv PROVE IInv'
  <2>1. MP!RInv' /\ HP!IInv'
    BY <1>2, ComponentsStep
  <2> QED
    BY <1>2, <2>1 DEF vars, manager, hub, IInv, Wiring, ConnOK, Busy, BoxOK, EnvelopeOK, HeldOK,
       MailOK
<1> QED
  BY <1>1, <1>2

LEMMA InductiveInvariant == Spec => []IInv
  BY InitIInv, NextIInv, PTL DEF Spec

(* Every goroutine, queue and row keeps its shape, and the hub's count of   *)
(* what is queued in a connection is the length of its queue.               *)
THEOREM TypeCorrect == Spec => []TypeOK
<1>1. IInv => TypeOK
  <2> SUFFICES ASSUME IInv PROVE TypeOK
      OBVIOUS
  <2>1. M!TypeOK
    BY DEF IInv, MP!RInv, MP!IInv, MP!TypeOK, M!TypeOK, MP!TableTypeOK, M!TableTypeOK,
       MP!Status, M!Status, MP!ClaimState, M!ClaimState, MP!CallState, M!CallState,
       MP!PC, M!PC, MP!Envelope, M!Envelope, MP!Reply, M!Reply
  <2>2. H!TypeOK
    BY DEF IInv, HP!IInv, HP!TypeOK, H!TypeOK, HP!Client, H!Client, HP!Reason, H!Reason
  <2> QED
    BY <2>1, <2>2 DEF IInv, Wiring, ConnOK, TypeOK
<1> QED
  BY <1>1, InductiveInvariant, PTL

(* The composition adds nothing to its parts: seen from the manager, a run  *)
(* of the relay is a run of ClaimManager, so everything proved of the       *)
(* manager holds of it as it is wired.                                      *)
THEOREM RelayRunsManager == Spec => M!Spec
<1>1. IInv /\ [Next]_vars => [M!Next]_(M!vars)
  BY ManagerSteps DEF vars, manager, M!vars
<1>2. Init => M!Init
  BY DEF Init
<1> QED
  BY <1>1, <1>2, InductiveInvariant, PTL DEF Spec, M!Spec

(* Likewise a run of the relay is a run of the hub, in which the callers of *)
(* SendToDevice are the manager's goroutines.                               *)
THEOREM RelayRunsHub == Spec => H!Spec
<1>1. IInv /\ [Next]_vars => [H!Next]_(H!vars)
  BY HubSteps DEF vars, hub, H!vars
<1>2. Init => H!Init
  BY DEF Init
<1> QED
  BY <1>1, <1>2, InductiveInvariant, PTL DEF Spec, H!Spec

(* No envelope ever reaches another device's queue, and no payload travels  *)
(* for a row that is not settled or to a device that had not claimed it,    *)
(* however connections are displaced and reused.                            *)
THEOREM WireStaysRight == Spec => []WireIsRight
<1>1. IInv => WireIsRight
  <2> SUFFICES ASSUME IInv PROVE WireIsRight
      OBVIOUS
  <2>1. \A g \in Goroutine : held[g] # None => mail[g] # None /\ conn[held[g]].dev = mail[g].to
    BY DEF IInv, HeldOK
  <2>2. ASSUME NEW k \in Conn, NEW i \in 1..Len(box[k]), box[k][i] # Local
        PROVE  box[k][i].to = conn[k].dev /\ EnvelopeOK(box[k][i])
    BY <2>2 DEF IInv, BoxOK
  <2> QED
    BY <2>1, <2>2 DEF WireIsRight, EnvelopeOK
<1> QED
  BY <1>1, InductiveInvariant, PTL
--------------------------------------------------------------------------------
(* Where an answer can be lost.  What the manager sends is taken up by the  *)
(* goroutine that sends it.                                                 *)
LEMMA SentIsTakenUp ==
  ASSUME IInv, Next, out' # None
  PROVE  UNCHANGED manager \/ \E g \in Goroutine : mail'[g] = out'
<1>1. /\ mail \in [Goroutine -> M!Envelope \cup {None}]
      /\ by \in [Call -> Conn \cup Handler \cup {None}]
  BY DEF IInv, Wiring
<1>2. ASSUME NEW g \in Conn \cup Handler, NEW d, NEW o, Claim(g, d, o)
      PROVE  \E x \in Goroutine : mail'[x] = out'
  BY <1>1, <1>2 DEF Claim, M!ClaimPending, M!Quiet, Goroutine
<1>3. ASSUME \/ \E h \in Handler, d \in Device, o \in Otp : ClaimByREST(h, d, o)
             \/ \E k \in Conn, o \in Otp : ClaimOverSocket(k, o)
      PROVE  UNCHANGED manager \/ \E g \in Goroutine : mail'[g] = out'
  BY <1>2, <1>3 DEF ClaimByREST, ClaimOverSocket
<1>4. ASSUME NEW c \in Call, Advance(c) PROVE \E g \in Goroutine : mail'[g] = out'
  BY <1>1, <1>4 DEF Advance, At, Goroutine
<1>5. ASSUME \E g \in Goroutine : SendToDevice(g) PROVE UNCHANGED manager
  BY <1>5 DEF SendToDevice, Offline, Lookup, PushQueues, PushUnwinds, PushDies, M!Unwind, M!Quiet
<1>6. ~(Elsewhere \/ Tick \/ Restart)
  BY DEF Elsewhere, M!Ingest, M!Sweep, Tick, M!Tick, Restart, M!Crash, M!Quiet
<1>7. ASSUME Connect \/ \E k \in Conn : OnClaimReturns(k) \/ ReceiveLocal(k) \/ ReplyLocal(k)
                                       \/ WriteFrame(k) \/ Collect(k)
      PROVE  UNCHANGED manager
  BY <1>7 DEF Connect, OnClaimReturns, ReceiveLocal, ReplyLocal, WriteFrame, Collect
<1> QED
  BY <1>3, <1>4, <1>5, <1>6, <1>7 DEF Next

(* A goroutine's envelope leaves it only in the three ends of SendToDevice. *)
LEMMA MailLeaves ==
  ASSUME IInv, Next, ~Restart, NEW g \in Goroutine, mail[g] # None, mail'[g] # mail[g]
  PROVE  Offline(g) \/ PushQueues(g) \/ PushUnwinds(g)
<1>1. mail'[g] = None
  BY MailMoves DEF Given
<1>2. mail \in [Goroutine -> M!Envelope \cup {None}]
  BY DEF IInv, Wiring
<1>3. ASSUME \/ \E h \in Handler, d \in Device, o \in Otp : ClaimByREST(h, d, o)
             \/ \E k \in Conn, o \in Otp : ClaimOverSocket(k, o)
      PROVE  FALSE
  <2>1. ASSUME NEW x \in Goroutine, mail[x] = None, mail' = [mail EXCEPT ![x] = out'] PROVE FALSE
    BY <1>2, <2>1
  <2>2. \A k \in Conn, o \in Otp : ClaimOverSocket(k, o) => mail[k] = None
    BY DEF ClaimOverSocket, H!Receive, IInv, ConnOK, Busy
  <2>3. \A h \in Handler : ~Busy(h) => mail[h] = None
    BY DEF Busy
  <2> QED
    BY <1>3, <2>1, <2>2, <2>3 DEF ClaimByREST, ClaimOverSocket, Claim, Goroutine
<1>4. ASSUME NEW c \in Call, Advance(c) PROVE FALSE
  BY <1>2, <1>4 DEF Advance
<1>5. ASSUME \/ Elsewhere \/ Tick \/ Connect
             \/ \E k \in Conn : OnClaimReturns(k) \/ ReceiveLocal(k) \/ ReplyLocal(k)
                                \/ WriteFrame(k) \/ Collect(k)
      PROVE  FALSE
  BY <1>5 DEF Elsewhere, Tick, Connect, OnClaimReturns, ReceiveLocal, ReplyLocal, WriteFrame,
     Collect
<1>6. ASSUME NEW x \in Goroutine, SendToDevice(x)
      PROVE  Offline(g) \/ PushQueues(g) \/ PushUnwinds(g)
  BY <1>2, <1>6 DEF SendToDevice, Offline, Lookup, PushQueues, PushUnwinds, PushDies
<1> QED
  BY <1>3, <1>4, <1>5, <1>6 DEF Next

(* The manager's part: an answer that is no longer due is being sent. *)
LEMMA OwedLoss ==
  ASSUME IInv, Next, ~Restart, NEW d \in Device, NEW o \in Otp,
         M!Owed(d, o), ~M!Owed(d, o)'
  PROVE  (\E g \in Goroutine : About(mail'[g], d, o)) \/ Excuse(d, o)
<1>1. ~UNCHANGED manager
  BY DEF manager, M!Owed, M!Claimant
<1>2. MP!RInv /\ MP!Next /\ MP!Owed(d, o) /\ ~MP!Owed(d, o)'
  BY <1>1, ManagerSteps, SameManager
  DEF IInv, M!Owed, M!Claimant, MP!Owed, MP!Claimant
<1>3. MP!Answered(d, o)' \/ MP!Crash \/ \E c \in Call : MP!Unwind(c)
  BY <1>2, MP!ForgottenStep, Assumptions
<1>4. CASE MP!Crash \/ \E c \in Call : MP!Unwind(c)
  BY <1>4, SameManager DEF Excuse
<1>5. CASE MP!Answered(d, o)'
  <2>1. out' # None /\ out'.to = d /\ out'.otp = o
    BY <1>5 DEF MP!Answered
  <2>2. PICK g \in Goroutine : mail'[g] = out'
    BY <1>1, <2>1, SentIsTakenUp
  <2> QED
    BY <2>1, <2>2 DEF About
<1> QED
  BY <1>3, <1>4, <1>5

(* The sender's part: it is in the device's queue, or there is a reason. *)
LEMMA MailLoss ==
  ASSUME IInv, Next, ~Restart, NEW d \in Device, NEW o \in Otp,
         NEW g \in Goroutine, About(mail[g], d, o), ~About(mail'[g], d, o)
  PROVE  UnderWay(d, o)' \/ Excuse(d, o)
<1>1. mail[g] # None /\ mail[g].to = d /\ mail'[g] # mail[g]
  BY DEF About
<1>2. CASE Offline(g)
  BY <1>1, <1>2 DEF Offline, Excuse
<1>3. CASE PushUnwinds(g)
  BY <1>3 DEF PushUnwinds, H!Push, Excuse
<1>4. CASE PushQueues(g)
  <2> DEFINE k == held[g]
  <2>1. /\ k \in Conn /\ k # None /\ Queued(k, mail[g])
        /\ conn' = [conn EXCEPT ![k].queued = H!Enqueue(k)]
    BY <1>4, Shape DEF PushQueues, H!Push
  <2>2. /\ mail[g] \in M!Envelope
        /\ conn[k].dev = d /\ conn[k].reader \notin {"none", "upgrading"}
        /\ conn[k] \in H!Client /\ conn \in [Conn -> H!Client]
        /\ Len(box[k]) = conn[k].queued
    BY <1>1, <2>1, Shape DEF IInv, HeldOK, Wiring, ConnOK
  <2>3. CASE Len(box[k]) < Buffer /\ conn[k].writer = "running"
    <3>1. Len(box'[k]) = Len(box[k]) + 1 /\ box'[k][Len(box[k]) + 1] = mail[g]
      BY <2>1, <2>2, <2>3, QueuedIs DEF IInv
    <3>2. Len(box[k]) \in Nat
      BY LenProperties, <2>1 DEF IInv, Wiring
    <3>3. conn'[k].writer = "running"
      BY <2>1, <2>2, <2>3 DEF H!Client
    <3>4. Len(box[k]) + 1 \in 1..Len(box'[k]) /\ About(box'[k][Len(box[k]) + 1], d, o)
      BY <3>1, <3>2
    <3> QED
      BY <2>1, <3>3, <3>4 DEF UnderWay, About
  <2>4. CASE conn[k].writer # "running"
    <3>1. ~conn[k].link
      BY <2>1, <2>2, <2>4 DEF IInv, ConnOK
    <3> QED
      BY <2>1, <2>2, <3>1 DEF Excuse
  <2>5. CASE ~(Len(box[k]) < Buffer)
    <3>1. conn[k].queued = Buffer
      BY <2>2, <2>5, RelayAssumption DEF H!Client, RelayAssumption, H!HubAssumption
    <3> QED
      BY <2>1, <3>1 DEF Excuse
  <2> QED
    BY <2>3, <2>4, <2>5
<1> QED
  BY <1>1, <1>2, <1>3, <1>4, MailLeaves

(* The writer's part: it is still queued, or has been written. *)
LEMMA BoxLoss ==
  ASSUME IInv, Next, ~Restart, NEW d \in Device, NEW o \in Otp,
         NEW k \in Conn, conn[k].writer = "running",
         NEW i \in 1..Len(box[k]), About(box[k][i], d, o)
  PROVE  UnderWay(d, o)' \/ Written(d, o) \/ Excuse(d, o)
<1>1. Wiring /\ Len(box[k]) \in Nat \ {0} /\ box[k] # <<>>
  BY LenProperties, EmptySeq DEF IInv, Wiring
<1>2. conn[k].dev = d
  <2>1. box[k][i] # Local
    BY RelayAssumption DEF About, Local, RelayAssumption, M!TableAssumption
  <2> QED
    BY <2>1 DEF IInv, BoxOK, About
<1>3. CASE conn'[k].writer = "gone"
  BY <1>2, <1>3 DEF Excuse
<1>4. CASE conn'[k].writer = "running"
  <2>1. ASSUME i \in 1..Len(box'[k]), box'[k][i] = box[k][i] PROVE UnderWay(d, o)'
    BY <1>4, <2>1 DEF UnderWay, About
  <2>2. ASSUME NEW x \in Conn, NEW e \in M!Envelope \cup {Local}, Queued(x, e)
        PROVE  i \in 1..Len(box'[k]) /\ box'[k][i] = box[k][i]
    BY <1>1, <2>2, QueuedIs
  <2>3. ASSUME NEW x \in Conn, WriteFrame(x), box[x] # <<>>, box' = [box EXCEPT ![x] = Tail(@)]
        PROVE  UnderWay(d, o)' \/ Written(d, o) \/ Excuse(d, o)
    <3>1. CASE x # k
      BY <1>1, <2>1, <2>3, <3>1, TakenIs
    <3>2. CASE x = k /\ i = 1
      <4>1. About(Head(box[k]), d, o) /\ box'[k] = Tail(box[k])
        BY <1>1, <2>3, <3>2, TakenIs DEF Wiring
      <4> QED
        BY <1>1, <1>2, <4>1 DEF Written, Excuse
    <3>3. CASE x = k /\ i # 1
      <4>1. i - 1 \in 1..Len(box'[k]) /\ box'[k][i - 1] = box[k][i]
        <5>1. /\ Len(box'[k]) = Len(box[k]) - 1
              /\ \A j \in 1..Len(box'[k]) : box'[k][j] = box[k][j + 1]
          BY <1>1, <2>3, <3>3, TakenIs
        <5>2. i - 1 \in 1..Len(box'[k]) /\ (i - 1) + 1 = i
          BY <1>1, <3>3, <5>1
        <5> QED
          BY <5>1, <5>2
      <4> QED
        BY <1>4, <4>1 DEF UnderWay, About
    <3> QED
      BY <3>1, <3>2, <3>3
  <2>4. ASSUME NEW x \in Conn, Collect(x), box' = [box EXCEPT ![x] = <<>>]
        PROVE  UnderWay(d, o)'
    <3>1. x # k
      BY <2>4 DEF Collect, H!Collect
    <3> QED
      BY <1>1, <2>1, <2>4, <3>1 DEF Wiring
  <2>5. box' = box => UnderWay(d, o)'
    BY <2>1
  <2> QED
    BY <2>1, <2>2, <2>3, <2>4, <2>5, BoxWriters
<1> QED
  BY <1>1, <1>3, <1>4, Steadied DEF Steady

(* Whatever becomes of an answer is known, at every hop and under every     *)
(* interleaving: it is due, on its way, written to a live socket, or lost   *)
(* for one of the causes that Excuse lists.                                 *)
THEOREM EveryLossHasItsCause == Spec => LossHasCause
<1>1. ASSUME IInv, Next, NEW d \in Device, NEW o \in Otp, UnderWay(d, o), ~UnderWay(d, o)'
      PROVE  Written(d, o) \/ Excuse(d, o)
  <2>1. CASE Restart
    BY <2>1 DEF Restart, Excuse
  <2>2. CASE ~Restart /\ M!Owed(d, o)
    <3>1. ~M!Owed(d, o)' /\ ~\E g \in Goroutine : About(mail'[g], d, o)
      BY <1>1 DEF UnderWay, About
    <3> QED
      BY <1>1, <2>2, <3>1, OwedLoss
  <2>3. ASSUME ~Restart, NEW g \in Goroutine, About(mail[g], d, o) PROVE Excuse(d, o)
    <3>1. ~About(mail'[g], d, o)
      BY <1>1 DEF UnderWay, About
    <3> QED
      BY <1>1, <2>3, <3>1, MailLoss
  <2>4. ASSUME ~Restart, NEW k \in Conn, conn[k].writer = "running",
               NEW i \in 1..Len(box[k]), About(box[k][i], d, o)
        PROVE  Written(d, o) \/ Excuse(d, o)
    BY <1>1, <2>4, BoxLoss
  <2> QED
    BY <1>1, <2>1, <2>2, <2>3, <2>4 DEF UnderWay
<1>2. IInv /\ [Next]_vars =>
        [\A d \in Device, o \in Otp :
           UnderWay(d, o) /\ ~UnderWay(d, o)' => Written(d, o) \/ Excuse(d, o)]_vars
  BY <1>1
<1> QED
  BY <1>2, InductiveInvariant, PTL DEF Spec, LossHasCause
================================================================================
