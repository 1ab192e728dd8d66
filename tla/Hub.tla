---------------------------------- MODULE Hub ----------------------------------
(***************************************************************************)
(* internal/ws: the hub that maps each device to its live connection, and  *)
(* the read and write pumps of every connection.                           *)
(*                                                                         *)
(* The clients map is guarded by Hub.mu; the send channels are not.  A     *)
(* frame is queued by SendToDevice, which looks the client up under the    *)
(* lock and sends after releasing it, or by trySend, which a read pump     *)
(* calls on its own client without looking at the map at all.  Both send   *)
(* to a channel that register or unregister may have closed, and in Go     *)
(* that panics.  net/http recovers a panic on the goroutine of a REST      *)
(* handler; on a read pump's or a timer's it ends the process.             *)
(*                                                                         *)
(* Frames are counted, not kept: nothing here depends on what they say.    *)
(***************************************************************************)
EXTENDS Naturals

CONSTANTS
  Device,
  Source,   \* the devices of type "source": their frames start a push fan-out
  Conn,     \* connections that may exist at once; an ended one is reused
  Task,     \* goroutines that may be inside SendToDevice at once
  Handler,  \* those of them that net/http started
  Buffer,   \* sendBuffer
  None

(* What can panic: a second close of a channel, or a send to a closed one. *)
Reason == {"double_close", "send_to_device", "try_send"}

ASSUME HubAssumption ==
  /\ Source \subseteq Device
  /\ Handler \subseteq Task
  /\ Buffer \in Nat \ {0}
  /\ None \notin Device
  /\ None \notin Conn
  /\ None \notin Reason

VARIABLES
  clients,  \* Hub.clients
  conn,     \* the Client of each connection and the state of its pumps
  held,     \* the *Client a SendToDevice call has looked up
  revoked,  \* the devices whose row is revoked
  panic     \* what ended the process, None while it runs

vars == <<clients, conn, held, revoked, panic>>

(* A connection's read pump is "upgrading" while ServeHTTP has              *)
(* authenticated the token and not registered the client yet, "reading",    *)
(* "replying" when it has a frame that it answers itself, "dispatching"     *)
(* while OnPush or OnClaim runs, "leaving" when ReadMessage has failed and  *)
(* the deferred unregister is due.                                          *)
Client == [dev : Device \cup {None},
           reader : {"none", "upgrading", "reading", "replying", "dispatching",
                     "leaving", "gone"},
           writer : {"none", "running", "gone"},
           open : BOOLEAN,        \* the send channel is not closed
           queued : 0..Buffer,    \* frames in it
           link : BOOLEAN]        \* neither side has closed the socket

Free == [dev |-> None, reader |-> "none", writer |-> "none", open |-> FALSE,
         queued |-> 0, link |-> FALSE]

TypeOK ==
  /\ clients \in [Device -> Conn \cup {None}]
  /\ conn \in [Conn -> Client]
  /\ held \in [Task -> Conn \cup {None}]
  /\ revoked \in SUBSET Device
  /\ panic \in Reason \cup {None}

Init ==
  /\ clients = [d \in Device |-> None]
  /\ conn = [c \in Conn |-> Free]
  /\ held = [t \in Task |-> None]
  /\ revoked = {}
  /\ panic = None

Pumping(c) == conn[c].reader \in {"reading", "replying", "dispatching", "leaving"}
Upgrading(d) == \E c \in Conn : conn[c].reader = "upgrading" /\ conn[c].dev = d
Running == panic = None
Die(reason) == panic' = reason /\ UNCHANGED <<clients, conn, held, revoked>>
-------------------------------------------------------------------------------
(* Registry.Authenticate.  Mutant: it does not look at the revoked column. *)
AuthenticateAny(d) == TRUE
Authenticate(d) == d \notin revoked

(* ServeHTTP up to the upgrade: the token is checked once, here. *)
Upgrade(c, d) ==
  /\ Running
  /\ conn[c] = Free
  /\ Authenticate(d)
  /\ conn' = [conn EXCEPT ![c].dev = d, ![c].reader = "upgrading",
                          ![c].open = TRUE, ![c].link = TRUE]
  /\ UNCHANGED <<clients, held, revoked, panic>>

(* upgrader.Upgrade fails. *)
UpgradeFails(c) ==
  /\ Running
  /\ conn[c].reader = "upgrading"
  /\ conn' = [conn EXCEPT ![c] = Free]
  /\ UNCHANGED <<clients, held, revoked, panic>>

(* register, and the two go statements after it: a client that the device   *)
(* already has is displaced and its channel closed.  Mutant: it is left     *)
(* open.                                                                    *)
RegisterOver(c) ==
  /\ Running
  /\ conn[c].reader = "upgrading"
  /\ clients' = [clients EXCEPT ![conn[c].dev] = c]
  /\ conn' = [conn EXCEPT ![c].reader = "reading", ![c].writer = "running"]
  /\ UNCHANGED <<held, revoked, panic>>

Register(c) ==
  LET d == conn[c].dev  old == clients[d] IN
  /\ Running
  /\ conn[c].reader = "upgrading"
  /\ IF old # None /\ ~conn[old].open
     THEN Die("double_close")
     ELSE /\ clients' = [clients EXCEPT ![d] = c]
          /\ conn' = [x \in Conn |->
               CASE x = c -> [conn[x] EXCEPT !.reader = "reading", !.writer = "running"]
                 [] x = old -> [conn[x] EXCEPT !.open = FALSE]
                 [] OTHER -> conn[x]]
          /\ UNCHANGED <<held, revoked, panic>>

(* The peer goes away, stays silent past pongWait or breaks the protocol. *)
PeerGone(c) ==
  /\ Running
  /\ conn[c].link
  /\ conn' = [conn EXCEPT ![c].link = FALSE]
  /\ UNCHANGED <<clients, held, revoked, panic>>

(* A frame is read: one that was received before the socket went may still  *)
(* come out of a buffer after it.  The pump answers a ping, a malformed     *)
(* frame, one of an unknown type and one this type of device may not send   *)
(* itself; the rest go to the dispatcher, and the pump reads no other frame *)
(* until it returns.  What the dispatcher leads the claim manager to send   *)
(* is a Lookup and a Push.                                                  *)
Receive(c) ==
  /\ Running
  /\ conn[c].reader = "reading"
  /\ \E next \in {"replying", "dispatching"} :
       conn' = [conn EXCEPT ![c].reader = next]
  /\ UNCHANGED <<clients, held, revoked, panic>>

Dispatched(c) ==
  /\ Running
  /\ conn[c].reader = "dispatching"
  /\ conn' = [conn EXCEPT ![c].reader = "reading"]
  /\ UNCHANGED <<clients, held, revoked, panic>>

(* The channel send under select with a default: a full buffer drops.       *)
(* Mutant: nothing bounds the queue.                                        *)
EnqueueUnbounded(c) == conn[c].queued + 1

Enqueue(c) == IF conn[c].queued < Buffer THEN conn[c].queued + 1 ELSE conn[c].queued

(* trySend. *)
Reply(c) ==
  /\ Running
  /\ conn[c].reader = "replying"
  /\ IF conn[c].open
     THEN /\ conn' = [conn EXCEPT ![c].reader = "reading", ![c].queued = Enqueue(c)]
          /\ UNCHANGED <<clients, held, revoked, panic>>
     ELSE Die("try_send")

(* ReadMessage returns an error and readPump returns.  Mutants: the loop    *)
(* reads again; the pump returns without the deferred unregister.           *)
ReadAgain(c) ==
  /\ Running
  /\ conn[c].reader = "reading"
  /\ ~conn[c].link
  /\ UNCHANGED vars

ReadEnds(c) ==
  /\ Running
  /\ conn[c].reader = "reading"
  /\ ~conn[c].link
  /\ conn' = [conn EXCEPT ![c].reader = "gone"]
  /\ UNCHANGED <<clients, held, revoked, panic>>

ReadFails(c) ==
  /\ Running
  /\ conn[c].reader = "reading"
  /\ ~conn[c].link
  /\ conn' = [conn EXCEPT ![c].reader = "leaving"]
  /\ UNCHANGED <<clients, held, revoked, panic>>

Ended(c) == [conn[c] EXCEPT !.reader = "gone", !.link = FALSE]

(* The deferred unregister and conn.Close: the map entry goes, and the      *)
(* channel is closed, only if the client is still the device's.  Mutants:   *)
(* the guard is dropped; the close is outside it.                           *)
UnregisterAnyway(c) ==
  /\ Running
  /\ conn[c].reader = "leaving"
  /\ clients' = [clients EXCEPT ![conn[c].dev] = None]
  /\ conn' = [conn EXCEPT ![c] = [Ended(c) EXCEPT !.open = FALSE]]
  /\ UNCHANGED <<held, revoked, panic>>

UnregisterClosing(c) ==
  /\ Running
  /\ conn[c].reader = "leaving"
  /\ IF ~conn[c].open
     THEN Die("double_close")
     ELSE /\ clients' = [clients EXCEPT ![conn[c].dev] = IF @ = c THEN None ELSE @]
          /\ conn' = [conn EXCEPT ![c] = [Ended(c) EXCEPT !.open = FALSE]]
          /\ UNCHANGED <<held, revoked, panic>>

Unregister(c) ==
  LET d == conn[c].dev IN
  /\ Running
  /\ conn[c].reader = "leaving"
  /\ IF clients[d] = c /\ ~conn[c].open
     THEN Die("double_close")
     ELSE /\ clients' = [clients EXCEPT ![d] = IF @ = c THEN None ELSE @]
          /\ conn' = [conn EXCEPT ![c] = [Ended(c) EXCEPT !.open = @ /\ clients[d] # c]]
          /\ UNCHANGED <<held, revoked, panic>>
-------------------------------------------------------------------------------
(* writePump takes a frame and writes it.  The peer may be gone without the *)
(* writer seeing it; only this side's own Close makes every write fail.     *)
WriteFrame(c) ==
  /\ Running
  /\ conn[c].writer = "running"
  /\ conn[c].queued > 0
  /\ conn[c].reader # "gone"
  /\ conn' = [conn EXCEPT ![c].queued = @ - 1]
  /\ UNCHANGED <<clients, held, revoked, panic>>

(* Writing a frame or the periodic ping fails, or takes more than           *)
(* writeWait: the pump closes the socket and ends without unregistering,    *)
(* which is left to the read pump.  Frames still queued are lost.           *)
WriteFails(c) ==
  /\ Running
  /\ conn[c].writer = "running"
  /\ conn' = [conn EXCEPT ![c].writer = "gone", ![c].link = FALSE]
  /\ UNCHANGED <<clients, held, revoked, panic>>

(* The channel is closed and drained: say goodbye and close the socket. *)
WriterEnds(c) ==
  /\ Running
  /\ conn[c].writer = "running"
  /\ ~conn[c].open /\ conn[c].queued = 0
  /\ conn' = [conn EXCEPT ![c].writer = "gone", ![c].link = FALSE]
  /\ UNCHANGED <<clients, held, revoked, panic>>

(* Both pumps have returned and nobody holds the client: it is garbage. *)
Collect(c) ==
  /\ Running
  /\ conn[c].reader = "gone" /\ conn[c].writer = "gone"
  /\ \A t \in Task : held[t] # c
  /\ conn' = [conn EXCEPT ![c] = Free]
  /\ UNCHANGED <<clients, held, revoked, panic>>
-------------------------------------------------------------------------------
(* SendToDevice, under the read lock.  A device that is not connected is    *)
(* reported to the caller and nothing changes.                              *)
Lookup(t, d) ==
  /\ Running
  /\ held[t] = None
  /\ clients[d] # None
  /\ held' = [held EXCEPT ![t] = clients[d]]
  /\ UNCHANGED <<clients, conn, revoked, panic>>

(* SendToDevice, after the unlock. *)
Push(t) ==
  LET c == held[t] IN
  /\ Running
  /\ c # None
  /\ \/ /\ conn[c].open
        /\ conn' = [conn EXCEPT ![c].queued = Enqueue(c)]
        /\ held' = [held EXCEPT ![t] = None]
        /\ UNCHANGED <<clients, revoked, panic>>
     \/ /\ ~conn[c].open /\ t \in Handler
        /\ held' = [held EXCEPT ![t] = None]
        /\ UNCHANGED <<clients, conn, revoked, panic>>
     \/ ~conn[c].open /\ t \notin Handler /\ Die("send_to_device")

(* DELETE /api/devices/{id}: the row is marked and that is all. *)
Revoke(d) ==
  /\ Running
  /\ revoked' = revoked \cup {d}
  /\ UNCHANGED <<clients, conn, held, panic>>

(* The process ends, by a panic or killed, and the container is restarted:  *)
(* only the database survives.                                              *)
Restart ==
  /\ clients' = [d \in Device |-> None]
  /\ conn' = [c \in Conn |-> Free]
  /\ held' = [t \in Task |-> None]
  /\ panic' = None
  /\ UNCHANGED revoked

(* The steps the pumps of a connection take by themselves. *)
ReadPump(c) == Reply(c) \/ ReadFails(c) \/ Unregister(c)
WritePump(c) == WriteFrame(c) \/ WriteFails(c) \/ WriterEnds(c)

Next ==
  \/ \E c \in Conn, d \in Device : Upgrade(c, d)
  \/ \E c \in Conn :
       \/ UpgradeFails(c) \/ Register(c) \/ PeerGone(c) \/ Receive(c)
       \/ Dispatched(c) \/ ReadPump(c) \/ WritePump(c) \/ Collect(c)
  \/ \E t \in Task, d \in Device : Lookup(t, d)
  \/ \E t \in Task : Push(t)
  \/ \E d \in Device : Revoke(d)
  \/ Restart

Spec == Init /\ [][Next]_vars

(* OnClaim waits for the database and a mutex and returns.  OnPush waits    *)
(* for every push service the OTP is announced to, and nothing bounds that. *)
ClaimReturns(c) == conn[c].dev \notin Source /\ Dispatched(c)

(* The pumps are goroutines of their own.  A read pump that has something   *)
(* to do does it, and since a socket that is gone leaves it finitely many   *)
(* buffered frames, it comes to the error that ends it however many it      *)
(* still finds on the way.  A write never blocks for more than writeWait:   *)
(* frames are written and the closed channel is seen, but nothing makes the *)
(* write of a healthy connection fail.  No fairness is asked of peers, of   *)
(* ServeHTTP, of OnPush or of the callers of SendToDevice.                  *)
Writes(c) == WriteFrame(c) \/ WriterEnds(c)
ReaderRuns(c) == WF_vars(ReadPump(c)) /\ SF_vars(ReadFails(c))
ClaimEnds(c) == WF_vars(ClaimReturns(c))
WriterRuns(c) == WF_vars(Writes(c))
Fairness == \A c \in Conn : ReaderRuns(c) /\ ClaimEnds(c) /\ WriterRuns(c)

FairSpec == Spec /\ Fairness
-------------------------------------------------------------------------------
(* A registered client is the device's own, its pumps run and its channel   *)
(* is open; the channel of any other client whose read pump still runs has  *)
(* been closed.  So a lookup never returns a client that is already shut,   *)
(* and no write pump waits on a channel that nobody will close.             *)
OpenIffRegistered ==
  \A c \in Conn :
    Pumping(c) => /\ conn[c].dev # None
                  /\ (conn[c].open <=> clients[conn[c].dev] = c)

RegisteredIsLive ==
  \A d \in Device : clients[d] # None =>
    conn[clients[d]].dev = d /\ Pumping(clients[d])

(* register and unregister between them close each channel once: the       *)
(* displaced client's own unregister does not close it a second time.       *)
NeverClosedTwice == panic # "double_close"

(* A connection that was displaced never takes its replacement with it: a   *)
(* device goes offline only when its current client's read pump leaves, or  *)
(* the process is restarted.                                                *)
ReplacementStays ==
  [][\A d \in Device :
       Running /\ clients[d] # None /\ clients'[d] = None
         => conn[clients[d]].reader = "leaving" \/ Restart]_vars

(* Revocation is final for a device that is offline with no upgrade of it   *)
(* under way: neither a new upgrade nor one that was authenticated earlier  *)
(* brings it back, through any restart.                                     *)
Shut(d) == clients[d] = None /\ ~Upgrading(d)
RevokedStaysOffline == [][\A d \in revoked : Shut(d) => Shut(d)']_vars

(* What no fairness obliges to end: a push that a source's pump waits for,  *)
(* and a process that has died.                                             *)
Stuck(c) == \/ conn[c].dev \in Source /\ conn[c].reader = "dispatching"
            \/ ~Running

(* A displaced client goes away altogether: its write pump drains the       *)
(* closed channel and closes the socket, which ends its read pump, unless   *)
(* that is inside a push.                                                   *)
DisplacedEnds ==
  \A c \in Conn :
    Pumping(c) /\ clients[conn[c].dev] # c ~> ~Pumping(c) \/ Stuck(c)

(* A connection whose socket is gone does not stay in the map: its device   *)
(* is offline or reconnected, not written to forever.  Again a source's     *)
(* push may hold its read pump.                                             *)
DeadIsUnregistered ==
  \A d \in Device, c \in Conn :
    clients[d] = c /\ ~conn[c].link ~> clients[d] # c \/ Stuck(c)
-------------------------------------------------------------------------------
(* The hub as those who send through it see it. *)
Admitted == [c \in Conn |-> IF conn[c].reader = "upgrading" THEN conn[c].dev ELSE None]
Load == [c \in Conn |-> conn[c].queued]
Past == {c \in Conn : conn[c].reader \notin {"none", "upgrading"} /\ ~conn[c].open}

Contract == INSTANCE HubContract WITH
  line <- clients, admitted <- Admitted, load <- Load, past <- Past, fate <- panic

(* Every run of the hub is a run of the contract.  A frame is queued only   *)
(* for the connection its device has at that moment, though SendToDevice    *)
(* looked the client up earlier and trySend does not look at the map; each  *)
(* channel is closed once; and a panic needs a connection that is past.     *)
KeepsHubContract == Contract!Spec
-------------------------------------------------------------------------------
(* What the comments say of the code and the code does not do.              *)

(* "Returns false if the device is not currently connected": a connection   *)
(* that ends between the lookup and the send makes SendToDevice panic.      *)
SendReturns == panic # "send_to_device"

(* "A reconnect displaces the stale connection": a displaced client whose   *)
(* read pump still has a frame to answer takes the process down.            *)
ReconnectIsSafe == panic # "try_send"
================================================================================
