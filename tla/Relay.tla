--------------------------------- MODULE Relay ---------------------------------
(***************************************************************************)
(* The claim manager and the hub as main.go wires them: how a claim gets   *)
(* in, over a socket or by REST, and how what the manager sends gets out.  *)
(*                                                                         *)
(* The manager calls SendToDevice on the goroutine that has something to   *)
(* send: a read pump inside OnClaim, a REST handler, or the timer of a     *)
(* window.  That goroutine does nothing else until the call is over, and   *)
(* if the call panics it is the goroutine that decides what becomes of the *)
(* process.  A step of this module is a step of ClaimManager, a step of    *)
(* Hub, or one of each.  Sources and the fan-out are PushFanout's;         *)
(* revocation, which touches neither of the two, is Hub's and Access's.    *)
(***************************************************************************)
EXTENDS Naturals, Sequences

CONSTANTS
  Device,   \* destination devices
  Online,   \* those of them that open sockets; the others claim by REST only
  Otp, Call, TTL, Window, Prompt, Faults,  \* of ClaimManager
  Conn, Buffer,                    \* of Hub
  Handler,  \* goroutines of REST claims
  None

VARIABLES
  status, claimedBy, life, pending, call, out, joined, rivals, paid,
  clients, conn, held, revoked, panic,
  by,    \* the goroutine on which the claim of an activity runs, if it still does
  mail,  \* the envelope a goroutine is inside SendToDevice with
  box    \* what is queued in the send channel of a connection

(* Read pumps are named by their connection, timers by their activity. *)
Goroutine == Conn \cup Handler \cup Call

M == INSTANCE ClaimManager
H == INSTANCE Hub WITH Source <- {}, Task <- Goroutine

(* The frame with which a pump answers its own peer. *)
Local == [to |-> None]

ASSUME RelayAssumption ==
  /\ M!TableAssumption /\ M!ManagerAssumption /\ H!HubAssumption
  /\ Online \subseteq Device
  /\ {"crash", "panic"} \subseteq Faults
  /\ Conn \cap Handler = {} /\ Conn \cap Call = {} /\ Handler \cap Call = {}
  /\ None \notin Goroutine
  /\ Local \notin M!Envelope

manager == <<status, claimedBy, life, pending, call, out, joined, rivals, paid>>
hub == <<clients, conn, held, revoked, panic>>
vars == <<manager, hub, by, mail, box>>

TypeOK ==
  /\ M!TypeOK
  /\ H!TypeOK
  /\ by \in [Call -> Conn \cup Handler \cup {None}]
  /\ mail \in [Goroutine -> M!Envelope \cup {None}]
  /\ box \in [Conn -> Seq(M!Envelope \cup {Local})]
  /\ \A k \in Conn : Len(box[k]) = conn[k].queued

Init ==
  /\ M!Init
  /\ H!Init
  /\ by = [c \in Call |-> None]
  /\ mail = [g \in Goroutine |-> None]
  /\ box = [k \in Conn |-> <<>>]
--------------------------------------------------------------------------------
(* Goroutine g is inside Claim, or in SendToDevice. *)
Busy(g) == mail[g] # None \/ \E c \in Call : by[c] = g

(* Where the next step of an activity is taken. *)
At(c) == IF by[c] # None THEN by[c] ELSE c

(* Claim is called on g and loads the row.  A call that is refused at once  *)
(* leaves nothing but its reply; any other becomes an activity.             *)
Claim(g, d, o) ==
  \/ /\ M!ClaimRefused(d, o)
     /\ mail' = [mail EXCEPT ![g] = out']
     /\ UNCHANGED by
  \/ \E c \in Call :
       /\ mail[c] = None
       /\ M!ClaimPending(c, d, o)
       /\ by' = [by EXCEPT ![c] = g]
       /\ UNCHANGED mail

(* POST /api/otp/claim, past its gate. *)
ClaimByREST(h, d, o) ==
  /\ H!Running
  /\ ~Busy(h)
  /\ Claim(h, d, o)
  /\ UNCHANGED <<hub, box>>

(* An otp_claim frame: the read pump is in OnClaim until Claim returns.     *)
(* OnClaim ignores a frame that names no OTP.                               *)
ClaimOverSocket(k, o) ==
  /\ H!Receive(k)
  /\ conn'[k].reader = "dispatching"
  /\ Claim(k, conn[k].dev, o) \/ UNCHANGED <<manager, by, mail>>
  /\ UNCHANGED box

OnClaimReturns(k) ==
  /\ H!Dispatched(k)
  /\ ~Busy(k)
  /\ UNCHANGED <<manager, by, mail, box>>

(* A step of Claim, resolve or invalidate.  If it sends, its goroutine is   *)
(* in SendToDevice from then on.  "armed" is where Claim has returned.      *)
Advance(c) ==
  /\ H!Running
  /\ mail[At(c)] = None
  /\ M!Step(c)
  /\ mail' = IF out' = None THEN mail ELSE [mail EXCEPT ![At(c)] = out']
  /\ by' = IF call'[c].pc \in {"kill", "notify"} THEN by ELSE [by EXCEPT ![c] = None]
  /\ UNCHANGED <<hub, box>>

(* Ingest and the janitor. *)
Elsewhere ==
  /\ H!Running
  /\ (\E o \in Otp : M!Ingest(o)) \/ M!Sweep
  /\ UNCHANGED <<hub, by, mail, box>>

Tick ==
  /\ H!Running
  /\ M!Tick
  /\ UNCHANGED <<hub, by, mail, box>>
--------------------------------------------------------------------------------
(* SendToDevice finds no client: it returns false, which nobody looks at. *)
Offline(g) ==
  /\ H!Running
  /\ mail[g] # None /\ held[g] = None
  /\ clients[mail[g].to] = None
  /\ mail' = [mail EXCEPT ![g] = None]
  /\ UNCHANGED <<manager, hub, by, box>>

Lookup(g) ==
  /\ mail[g] # None
  /\ H!Lookup(g, mail[g].to)
  /\ UNCHANGED <<manager, by, mail, box>>

(* The select: the frame is queued or, if there is no room, dropped.        *)
(* Mutants: the buffer is taken for full too early, or never; without the   *)
(* default case the sender waits for room.                                  *)
QueuedEarly(k, e) ==
  box' = IF Len(box[k]) + 1 < Buffer THEN [box EXCEPT ![k] = Append(@, e)] ELSE box
QueuedAlways(k, e) == box' = [box EXCEPT ![k] = Append(@, e)]
QueuedOrWaits(k, e) ==
  /\ Len(box[k]) < Buffer
  /\ box' = [box EXCEPT ![k] = Append(@, e)]
Queued(k, e) ==
  box' = IF Len(box[k]) < Buffer THEN [box EXCEPT ![k] = Append(@, e)] ELSE box

(* The channel is open. *)
PushQueues(g) ==
  /\ H!Push(g)
  /\ conn[held[g]].open
  /\ Queued(held[g], mail[g])
  /\ mail' = [mail EXCEPT ![g] = None]
  /\ UNCHANGED <<manager, by>>

(* It is closed and net/http recovers the panic: the handler is gone, and   *)
(* with it an invalidate that had somebody else to tell.                    *)
PushUnwinds(g) ==
  /\ H!Push(g)
  /\ ~conn[held[g]].open /\ g \in Handler
  /\ mail' = [mail EXCEPT ![g] = None]
  /\ \/ \E c \in Call : by[c] = g /\ M!Unwind(c) /\ by' = [by EXCEPT ![c] = None]
     \/ (\A c \in Call : by[c] # g) /\ UNCHANGED <<manager, by>>
  /\ UNCHANGED box

(* It is closed and nothing recovers the panic. *)
PushDies(g) ==
  /\ H!Push(g)
  /\ ~conn[held[g]].open /\ g \notin Handler
  /\ UNCHANGED <<manager, by, mail, box>>

SendToDevice(g) ==
  Offline(g) \/ Lookup(g) \/ PushQueues(g) \/ PushUnwinds(g) \/ PushDies(g)
--------------------------------------------------------------------------------
(* Connections come and go. *)
Connect ==
  /\ \E k \in Conn :
       \/ \E d \in Online : H!Upgrade(k, d)
       \/ H!UpgradeFails(k) \/ H!Register(k) \/ H!PeerGone(k)
       \/ H!ReadFails(k) \/ H!Unregister(k) \/ H!WriteFails(k) \/ H!WriterEnds(k)
  /\ UNCHANGED <<manager, by, mail, box>>

(* A frame that the pump answers itself. *)
ReceiveLocal(k) ==
  /\ H!Receive(k)
  /\ conn'[k].reader = "replying"
  /\ UNCHANGED <<manager, by, mail, box>>

ReplyLocal(k) ==
  /\ H!Reply(k)
  /\ IF conn[k].open THEN Queued(k, Local) ELSE UNCHANGED box
  /\ UNCHANGED <<manager, by, mail>>

WriteFrame(k) ==
  /\ H!WriteFrame(k)
  /\ box' = [box EXCEPT ![k] = Tail(@)]
  /\ UNCHANGED <<manager, by, mail>>

Collect(k) ==
  /\ H!Collect(k)
  /\ box' = [box EXCEPT ![k] = <<>>]
  /\ UNCHANGED <<manager, by, mail>>

(* The process ends and the container is started again. *)
Restart ==
  /\ M!Crash
  /\ H!Restart
  /\ by' = [c \in Call |-> None]
  /\ mail' = [g \in Goroutine |-> None]
  /\ box' = [k \in Conn |-> <<>>]

Next ==
  \/ \E h \in Handler, d \in Device, o \in Otp : ClaimByREST(h, d, o)
  \/ \E k \in Conn, o \in Otp : ClaimOverSocket(k, o)
  \/ \E k \in Conn :
       OnClaimReturns(k) \/ ReceiveLocal(k) \/ ReplyLocal(k) \/ WriteFrame(k) \/ Collect(k)
  \/ \E c \in Call : Advance(c)
  \/ \E g \in Goroutine : SendToDevice(g)
  \/ Elsewhere
  \/ Tick
  \/ Connect
  \/ Restart

Spec == Init /\ [][Next]_vars
--------------------------------------------------------------------------------
About(e, d, o) == e # None /\ e.to = d /\ e.otp = o

(* An answer to d about o is due, or on its way to d's socket. *)
UnderWay(d, o) ==
  \/ M!Owed(d, o)
  \/ \E g \in Goroutine : About(mail[g], d, o)
  \/ \E k \in Conn : /\ conn[k].writer = "running"
                     /\ \E i \in 1..Len(box[k]) : About(box[k][i], d, o)

(* It has been written to a socket that the device had not left. *)
Written(d, o) ==
  \E k \in Conn : /\ conn[k].dev = d /\ conn[k].link
                  /\ box[k] # <<>> /\ About(Head(box[k]), d, o)
                  /\ box'[k] = Tail(box[k])

(* What the loss of it can be put down to, hop by hop: d is not connected,  *)
(* its channel was closed after the lookup or is full, a handler died with  *)
(* it, its socket is broken, or the process ended.                          *)
Excuse(d, o) ==
  \/ \E g \in Goroutine :
       /\ About(mail[g], d, o)
       /\ IF held[g] = None THEN clients[d] = None
          ELSE ~conn[held[g]].open \/ conn[held[g]].queued = Buffer
  \/ \E c \in Call : M!Unwind(c)
  \/ \E k \in Conn : conn[k].dev = d /\ (~conn[k].link \/ conn'[k].writer = "gone")
  \/ M!Crash

(* What is on its way to a device is meant for it, and if it is a payload   *)
(* its row is settled, the device had claimed it and the manager sent it to *)
(* that device: neither a channel that outlives its connection nor a client *)
(* looked up before a reconnect hands an envelope to somebody else.  This   *)
(* takes reconnects while a client is held, so several connections: it is   *)
(* proved (WireStaysRight), and not checked with the one of Relay.cfg.      *)
WireIsRight ==
  /\ \A g \in Goroutine : held[g] # None =>
       mail[g] # None /\ conn[held[g]].dev = mail[g].to
  /\ \A k \in Conn : \A i \in 1..Len(box[k]) : box[k][i] # Local =>
       LET e == box[k][i] IN
       /\ e.to = conn[k].dev
       /\ e.type = "otp_payload" =>
            /\ status[e.otp] \in {"claimed", "invalidated"}
            /\ e.to \in joined[e.otp] \cap paid[e.otp]

(* API.md: the result of a claim "always arrives over the WS connection".   *)
(* What the code keeps of that: an answer that is due and then no longer    *)
(* under way has been written to its device's socket, unless one of the     *)
(* causes above is there.  SendToDevice's result is dropped, so no loss is  *)
(* ever made good.                                                          *)
LossHasCause ==
  [][\A d \in Device, o \in Otp :
       UnderWay(d, o) /\ ~UnderWay(d, o)' => Written(d, o) \/ Excuse(d, o)]_vars

CanSend(g) == ENABLED SendToDevice(g)
CanReturn(k) == ENABLED OnClaimReturns(k)
CanAdvance(c) == ENABLED Advance(c)

(* Nobody inside the manager ever waits for a socket, a peer or a pump,     *)
(* though its sends may go to its own queue and its own peer may be gone:   *)
(* whoever is in SendToDevice can finish it, and a read pump that is in     *)
(* OnClaim can take its next step, so that it gets back to reading and      *)
(* notices a dead peer.  Hub takes that for granted.                        *)
NobodyIsStuck ==
  H!Running =>
    /\ \A g \in Goroutine : mail[g] # None => CanSend(g)
    /\ \A k \in Conn : conn[k].reader = "dispatching" /\ mail[k] = None =>
         CanReturn(k) \/ \E c \in Call : by[c] = k /\ CanAdvance(c)
================================================================================
