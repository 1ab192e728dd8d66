------------------------------- MODULE HubProofs -------------------------------
(***************************************************************************)
(* Proofs about Hub, for every set of devices, connections and callers and *)
(* every buffer size.                                                      *)
(*                                                                         *)
(* The invariant joins the two halves of the guarantee: the client in the  *)
(* map is one whose read pump runs (RegisteredIsLive), and a running pump's*)
(* channel is open exactly while its client is in the map                  *)
(* (OpenIffRegistered).  Neither is inductive alone.  What both need of a  *)
(* connection that is not registered yet is UpgradingIsOpen.  That dead    *)
(* and displaced connections wind down rests on WritersOK besides.         *)
(***************************************************************************)
EXTENDS Hub, TLAPS

(* A client about to be registered belongs to a device and is open. *)
UpgradingIsOpen ==
  \A c \in Conn : conn[c].reader = "upgrading" => conn[c].dev \in Device /\ conn[c].open

Linked == OpenIffRegistered /\ RegisteredIsLive /\ UpgradingIsOpen

IInv == TypeOK /\ Linked /\ NeverClosedTwice

LEMMA FreeIsClient ==
  /\ Free \in Client /\ Free.dev = None /\ Free.reader = "none" /\ Free.writer = "none"
  /\ ~Free.open /\ Free.queued = 0 /\ ~Free.link
  BY HubAssumption DEF Free, Client

LEMMA InitIInv == Init => IInv
  <1> SUFFICES ASSUME Init PROVE IInv
    OBVIOUS
  <1>1. /\ \A c \in Conn : conn[c] = Free /\ conn[c].reader = "none"
        /\ \A d \in Device : clients[d] = None
        /\ panic = None
    BY FreeIsClient DEF Init
  <1>2. TypeOK
    BY FreeIsClient DEF Init, TypeOK
  <1>3. Linked
    BY <1>1 DEF Linked, OpenIffRegistered, RegisteredIsLive, UpgradingIsOpen, Pumping
  <1>4. NeverClosedTwice
    BY <1>1, HubAssumption DEF NeverClosedTwice, Reason
  <1> QED
    BY <1>2, <1>3, <1>4 DEF IInv
-------------------------------------------------------------------------------
(* The shape of a step, seen from the clients.  Most steps leave the map    *)
(* alone and change of a client only what the invariant does not read.      *)

(* c keeps its device, its channel, and its place among the pumping, the    *)
(* upgrading and the others.                                                *)
SamePlace(c) ==
  /\ conn'[c].dev = conn[c].dev
  /\ conn'[c].open = conn[c].open
  /\ (conn'[c].reader \in {"reading", "replying", "dispatching", "leaving"}) = Pumping(c)
  /\ (conn'[c].reader = "upgrading") = (conn[c].reader = "upgrading")

Quiet == clients' = clients /\ \A c \in Conn : SamePlace(c)

(* A step that moves nobody keeps the links. *)
LEMMA QuietStep == TypeOK /\ Linked /\ Quiet => Linked'
  <1> SUFFICES ASSUME TypeOK, Linked, Quiet PROVE Linked'
    OBVIOUS
  <1>1. OpenIffRegistered'
    BY DEF TypeOK, Linked, Quiet, SamePlace, OpenIffRegistered, Pumping
  <1>2. RegisteredIsLive'
    <2> SUFFICES ASSUME NEW d \in Device, clients'[d] # None
                 PROVE (conn[clients[d]].dev = d /\ Pumping(clients[d]))'
      BY DEF RegisteredIsLive
    <2>1. clients[d] \in Conn /\ clients'[d] = clients[d]
      BY DEF TypeOK, Quiet
    <2>2. conn[clients[d]].dev = d /\ Pumping(clients[d])
      BY <2>1 DEF Linked, RegisteredIsLive
    <2> QED
      BY <2>1, <2>2 DEF Quiet, SamePlace, Pumping
  <1>3. UpgradingIsOpen'
    BY DEF Linked, Quiet, SamePlace, UpgradingIsOpen
  <1> QED
    BY <1>1, <1>2, <1>3 DEF Linked
-------------------------------------------------------------------------------
(* What one client's update is: the rest keep theirs. *)
LEMMA ClientFields ==
  ASSUME NEW c \in Conn, conn[c] \in Client
  PROVE /\ conn[c].dev \in Device \cup {None}
        /\ conn[c].reader \in {"none", "upgrading", "reading", "replying", "dispatching",
                                "leaving", "gone"}
        /\ conn[c].writer \in {"none", "running", "gone"}
        /\ conn[c].open \in BOOLEAN
        /\ conn[c].queued \in 0..Buffer
        /\ conn[c].link \in BOOLEAN
  BY DEF Client

LEMMA EnqueueBounded ==
  ASSUME NEW c \in Conn, conn[c] \in Client
  PROVE Enqueue(c) \in 0..Buffer
  BY HubAssumption, ClientFields DEF Enqueue

(* The steps that change one client and not the map, apart from the two     *)
(* that begin and end it.                                                   *)
LocalStep(c) ==
  \/ PeerGone(c) \/ Receive(c) \/ Dispatched(c) \/ Reply(c) \/ ReadFails(c)
  \/ WriteFrame(c) \/ WriteFails(c) \/ WriterEnds(c)

LEMMA LocalKeeps ==
  ASSUME TypeOK, NEW c \in Conn, LocalStep(c)
  PROVE TypeOK' /\ Quiet /\ panic' \in {panic, "try_send"}
  <1> USE HubAssumption
  <1>0. conn \in [Conn -> Client] /\ conn[c] \in Client /\ panic' \in Reason \cup {None}
    BY DEF TypeOK, LocalStep, PeerGone, Receive, Dispatched, Reply, ReadFails, WriteFrame,
       WriteFails, WriterEnds, Die, Reason
  <1>1. CASE conn' = conn
    BY <1>0, <1>1 DEF TypeOK, LocalStep, PeerGone, Receive, Dispatched, Reply, ReadFails, WriteFrame,
       WriteFails, WriterEnds, Die, Quiet, SamePlace, Pumping
  <1>2. CASE conn' # conn
    <2>1. PICK r \in Client :
                  /\ conn' = [conn EXCEPT ![c] = r] /\ r.dev = conn[c].dev /\ r.open = conn[c].open
                  /\ (r.reader \in {"reading", "replying", "dispatching", "leaving"}) = Pumping(c)
                  /\ (r.reader = "upgrading") = (conn[c].reader = "upgrading")
      <3> DEFINE Good(r) == /\ r \in Client
                            /\ r.dev = conn[c].dev /\ r.open = conn[c].open
                            /\ (r.reader \in {"reading", "replying", "dispatching", "leaving"}) = Pumping(c)
                            /\ (r.reader = "upgrading") = (conn[c].reader = "upgrading")
      <3>1. Good([conn[c] EXCEPT !.link = FALSE])
        BY <1>0, ClientFields DEF Client, Pumping
      <3>2. ASSUME conn[c].reader = "reading", NEW next \in {"replying", "dispatching"}
            PROVE Good([conn[c] EXCEPT !.reader = next])
        BY <1>0, <3>2, ClientFields DEF Client, Pumping
      <3>13. ASSUME conn[c].reader = "dispatching" PROVE Good([conn[c] EXCEPT !.reader = "reading"])
        BY <1>0, <3>13, ClientFields DEF Client, Pumping
      <3>3. ASSUME conn[c].reader = "replying"
            PROVE Good([conn[c] EXCEPT !.reader = "reading", !.queued = Enqueue(c)])
        <4> DEFINE q == Enqueue(c)
        <4>1. q \in 0..Buffer
          BY <1>0, EnqueueBounded
        <4> HIDE DEF q
        <4> DEFINE r == [conn[c] EXCEPT !.reader = "reading", !.queued = q]
        <4>2. /\ r \in Client /\ r.dev = conn[c].dev /\ r.open = conn[c].open
              /\ r.reader = "reading"
          BY <1>0, <4>1, ClientFields DEF Client
        <4> QED
          BY <3>3, <4>2 DEF Pumping, q
      <3>4. ASSUME conn[c].reader = "reading" PROVE Good([conn[c] EXCEPT !.reader = "leaving"])
        BY <1>0, <3>4, ClientFields DEF Client, Pumping
      <3>5. ASSUME conn[c].queued > 0 PROVE Good([conn[c] EXCEPT !.queued = @ - 1])
        <4>1. conn[c].queued - 1 \in 0..Buffer
          BY <1>0, <3>5, ClientFields
        <4> QED
          BY <1>0, <4>1, ClientFields DEF Client, Pumping
      <3>6. Good([conn[c] EXCEPT !.writer = "gone", !.link = FALSE])
        BY <1>0, ClientFields DEF Client, Pumping
      <3>7. CASE PeerGone(c)
        BY <3>1, <3>7 DEF PeerGone
      <3>8. CASE Receive(c)
        BY <3>2, <3>8 DEF Receive
      <3>14. CASE Dispatched(c)
        BY <3>13, <3>14 DEF Dispatched
      <3>9. CASE Reply(c)
        BY <1>2, <3>3, <3>9 DEF Reply, Die
      <3>10. CASE ReadFails(c)
        BY <3>4, <3>10 DEF ReadFails
      <3>11. CASE WriteFrame(c)
        BY <3>5, <3>11 DEF WriteFrame
      <3>12. CASE WriteFails(c) \/ WriterEnds(c)
        BY <3>6, <3>12 DEF WriteFails, WriterEnds
      <3> QED
        BY <3>7, <3>8, <3>9, <3>10, <3>11, <3>12, <3>14 DEF LocalStep
    <2>2. clients' = clients /\ held' = held /\ revoked' = revoked
      BY DEF LocalStep, PeerGone, Receive, Dispatched, Reply, ReadFails, WriteFrame, WriteFails,
             WriterEnds, Die
    <2>3. conn' \in [Conn -> Client]
      BY <1>0, <2>1
    <2>4. \A x \in Conn : SamePlace(x)
      BY <1>0, <2>1 DEF SamePlace, Pumping
    <2> QED
      BY <1>0, <2>2, <2>3, <2>4 DEF TypeOK, Quiet, LocalStep, PeerGone, Receive, Dispatched, Reply,
         ReadFails, WriteFrame, WriteFails, WriterEnds, Die
  <1> QED
    BY <1>1, <1>2
-------------------------------------------------------------------------------
(* SendToDevice looks up a client, then queues a frame for whatever client  *)
(* it found.                                                                *)
LEMMA SendKeeps ==
  ASSUME TypeOK, NEW t \in Task, Push(t) \/ \E d \in Device : Lookup(t, d)
  PROVE TypeOK' /\ Quiet /\ panic' \in {panic, "send_to_device"}
  <1>1. CASE Push(t) /\ conn[held[t]].open
    <2> DEFINE c == held[t]
    <2>1. c \in Conn /\ conn \in [Conn -> Client] /\ conn[c] \in Client
      BY <1>1 DEF TypeOK, Push
    <2>2. [conn[c] EXCEPT !.queued = Enqueue(c)] \in Client
      BY <2>1, EnqueueBounded, ClientFields DEF Client
    <2>3. conn' = [conn EXCEPT ![c].queued = Enqueue(c)]
      BY <1>1 DEF Push
    <2>4. conn' \in [Conn -> Client]
      BY <2>1, <2>2, <2>3
    <2>5. \A x \in Conn : SamePlace(x)
      BY <2>1, <2>3 DEF SamePlace, Pumping
    <2> QED
      BY <1>1, <2>4, <2>5 DEF TypeOK, Push, Quiet
  <1>2. CASE Push(t) /\ ~conn[held[t]].open
    BY <1>2 DEF TypeOK, Push, Die, Reason, Quiet, SamePlace, Pumping
  <1>3. CASE \E d \in Device : Lookup(t, d)
    BY <1>3 DEF TypeOK, Lookup, Quiet, SamePlace, Pumping
  <1> QED
    BY <1>1, <1>2, <1>3
-------------------------------------------------------------------------------
(* The four steps that begin and end a connection. *)
LEMMA UpgradeKeeps ==
  ASSUME IInv, NEW c \in Conn, NEW d \in Device, Upgrade(c, d)
  PROVE IInv'
  <1>1. conn \in [Conn -> Client] /\ conn[c] = Free /\ Free \in Client
    BY FreeIsClient DEF IInv, TypeOK, Upgrade
  <1> DEFINE r == [conn[c] EXCEPT !.dev = d, !.reader = "upgrading", !.open = TRUE, !.link = TRUE]
  <1>2. conn' = [conn EXCEPT ![c] = r]
    BY DEF Upgrade
  <1>3. /\ r \in Client /\ r.dev = d /\ r.reader = "upgrading" /\ r.open
    BY <1>1, ClientFields DEF Client
  <1>4. TypeOK'
    BY <1>1, <1>2, <1>3 DEF IInv, TypeOK, Upgrade
  <1>5. ~Pumping(c) /\ ~Pumping(c)' /\ \A x \in Conn \ {c} : conn'[x] = conn[x]
    BY <1>1, <1>2, <1>3, FreeIsClient DEF Pumping
  <1>6. clients' = clients /\ panic' = panic
    BY DEF Upgrade
  <1>7. OpenIffRegistered'
    BY <1>5, <1>6 DEF IInv, Linked, OpenIffRegistered, Pumping
  <1>8. RegisteredIsLive'
    <2> SUFFICES ASSUME NEW e \in Device, clients'[e] # None
                 PROVE (conn[clients[e]].dev = e /\ Pumping(clients[e]))'
      BY DEF RegisteredIsLive
    <2>1. clients[e] \in Conn \ {c}
      BY <1>5, <1>6 DEF IInv, TypeOK, Linked, RegisteredIsLive
    <2> QED
      BY <2>1, <1>5, <1>6 DEF IInv, Linked, RegisteredIsLive, Pumping
  <1>9. UpgradingIsOpen'
    BY <1>1, <1>2, <1>3, <1>5 DEF IInv, Linked, UpgradingIsOpen
  <1> QED
    BY <1>4, <1>6, <1>7, <1>8, <1>9 DEF IInv, Linked, NeverClosedTwice

LEMMA FreeKeeps ==
  ASSUME IInv, NEW c \in Conn, UpgradeFails(c) \/ Collect(c)
  PROVE IInv'
  <1>1. conn \in [Conn -> Client] /\ Free \in Client /\ ~Pumping(c)
    BY FreeIsClient DEF IInv, TypeOK, UpgradeFails, Collect, Pumping
  <1>2. /\ conn' = [conn EXCEPT ![c] = Free] /\ Free.reader = "none"
        /\ clients' = clients /\ panic' = panic
    BY FreeIsClient DEF UpgradeFails, Collect
  <1>3. TypeOK'
    BY <1>1, <1>2 DEF IInv, TypeOK, UpgradeFails, Collect
  <1>4. ~Pumping(c)' /\ \A x \in Conn \ {c} : conn'[x] = conn[x]
    BY <1>1, <1>2 DEF Pumping
  <1>5. OpenIffRegistered'
    BY <1>2, <1>4 DEF IInv, Linked, OpenIffRegistered, Pumping
  <1>6. RegisteredIsLive'
    <2> SUFFICES ASSUME NEW e \in Device, clients'[e] # None
                 PROVE (conn[clients[e]].dev = e /\ Pumping(clients[e]))'
      BY DEF RegisteredIsLive
    <2>1. clients[e] \in Conn \ {c}
      BY <1>1, <1>2 DEF IInv, TypeOK, Linked, RegisteredIsLive
    <2> QED
      BY <2>1, <1>2, <1>4 DEF IInv, Linked, RegisteredIsLive, Pumping
  <1>7. UpgradingIsOpen'
    BY <1>1, <1>2, <1>4 DEF IInv, Linked, UpgradingIsOpen
  <1> QED
    BY <1>2, <1>3, <1>5, <1>6, <1>7 DEF IInv, Linked, NeverClosedTwice
(* The client that is displaced is the one in the map, so its pump runs and *)
(* its channel is open: closing it does not panic.                          *)
LEMMA RegisterKeeps ==
  ASSUME IInv, NEW c \in Conn, Register(c)
  PROVE IInv'
  <1> DEFINE d == conn[c].dev
             old == clients[d]
  <1>1. /\ conn \in [Conn -> Client] /\ conn[c] \in Client
        /\ d \in Device /\ conn[c].open /\ ~Pumping(c) /\ old \in Conn \cup {None}
    BY DEF IInv, TypeOK, Linked, UpgradingIsOpen, Register, Pumping
  <1>2. old # None => old \in Conn /\ old # c /\ conn[old].dev = d /\ Pumping(old) /\ conn[old].open
    BY <1>1 DEF IInv, Linked, RegisteredIsLive, OpenIffRegistered
  <1>3. /\ clients' = [clients EXCEPT ![d] = c]
        /\ conn' = [x \in Conn |->
             CASE x = c -> [conn[x] EXCEPT !.reader = "reading", !.writer = "running"]
               [] x = old -> [conn[x] EXCEPT !.open = FALSE]
               [] OTHER -> conn[x]]
        /\ held' = held /\ revoked' = revoked /\ panic' = panic
    BY <1>2 DEF Register
  <1>4. /\ conn'[c] = [conn[c] EXCEPT !.reader = "reading", !.writer = "running"]
        /\ \A x \in Conn : x = old => conn'[x] = [conn[x] EXCEPT !.open = FALSE]
        /\ \A x \in Conn : x # c /\ x # old => conn'[x] = conn[x]
    <2> HIDE DEF d, old
    <2>1. \A x \in Conn : x = old => x # c
      BY <1>2, HubAssumption
    <2> QED
      BY <1>3, <2>1
  <1>5. /\ conn'[c] \in Client /\ conn'[c].dev = d /\ conn'[c].reader = "reading"
        /\ conn'[c].open
    BY <1>1, <1>4, ClientFields DEF Client
  <1>6. \A x \in Conn : x = old => /\ conn'[x] \in Client /\ conn'[x].dev = conn[x].dev
                                   /\ conn'[x].reader = conn[x].reader /\ ~conn'[x].open
    <2> SUFFICES ASSUME NEW x \in Conn, x = old
                 PROVE /\ conn'[x] \in Client /\ conn'[x].dev = conn[x].dev
                       /\ conn'[x].reader = conn[x].reader /\ ~conn'[x].open
      OBVIOUS
    <2>1. conn[x] \in Client /\ conn'[x] = [conn[x] EXCEPT !.open = FALSE]
      BY <1>1, <1>4
    <2> QED
      BY <2>1, ClientFields DEF Client
  <1> HIDE DEF d, old
  <1>7. TypeOK'
    <2>1. \A x \in Conn : conn'[x] \in Client
      BY <1>1, <1>4, <1>5, <1>6
    <2>2. conn' \in [Conn -> Client]
      BY <1>3, <2>1
    <2> QED
      BY <1>1, <1>3, <2>2 DEF IInv, TypeOK
  <1>8. clients'[d] = c /\ \A e \in Device : e # d => clients'[e] = clients[e]
    BY <1>1, <1>3 DEF IInv, TypeOK
  <1>9. OpenIffRegistered'
    <2> SUFFICES ASSUME NEW x \in Conn, Pumping(x)'
                 PROVE conn'[x].dev # None /\ (conn'[x].open <=> clients'[conn'[x].dev] = x)
      BY DEF OpenIffRegistered
    <2>1. CASE x = c
      BY <1>1, <1>5, <1>8, <2>1, HubAssumption
    <2>2. CASE x = old
      BY <1>1, <1>2, <1>6, <1>8, <2>2, HubAssumption DEF d, old
    <2>3. CASE x # c /\ x # old
      <3>1. conn'[x] = conn[x] /\ Pumping(x) /\ conn[x].dev \in Device
        BY <1>1, <1>4, <2>3, ClientFields DEF IInv, Linked, OpenIffRegistered, Pumping
      <3>2. conn[x].dev # None /\ (conn[x].open <=> clients[conn[x].dev] = x)
        BY <3>1 DEF IInv, Linked, OpenIffRegistered
      <3> QED
        BY <1>8, <2>3, <3>1, <3>2 DEF old
    <2> QED
      BY <2>1, <2>2, <2>3
  <1>10. RegisteredIsLive'
    <2> SUFFICES ASSUME NEW e \in Device, clients'[e] # None
                 PROVE (conn[clients[e]].dev = e /\ Pumping(clients[e]))'
      BY DEF RegisteredIsLive
    <2>1. CASE e = d
      BY <1>5, <1>8, <2>1 DEF Pumping
    <2>2. CASE e # d
      <3>1. clients'[e] = clients[e] /\ clients[e] \in Conn
            /\ conn[clients[e]].dev = e /\ Pumping(clients[e])
        BY <1>8, <2>2 DEF IInv, TypeOK, Linked, RegisteredIsLive
      <3>2. clients[e] # c /\ clients[e] # old
        BY <1>1, <1>2, <2>2, <3>1
      <3> QED
        BY <1>4, <3>1, <3>2 DEF Pumping
    <2> QED
      BY <2>1, <2>2
  <1>11. UpgradingIsOpen'
    <2> SUFFICES ASSUME NEW x \in Conn, conn'[x].reader = "upgrading"
                 PROVE conn'[x].dev \in Device /\ conn'[x].open
      BY DEF UpgradingIsOpen
    <2>1. x # c
      BY <1>5
    <2>2. x # old
      BY <1>2, <1>6, HubAssumption DEF Pumping
    <2> QED
      BY <1>4, <2>1, <2>2 DEF IInv, Linked, UpgradingIsOpen
  <1> QED
    BY <1>3, <1>7, <1>9, <1>10, <1>11 DEF IInv, Linked, NeverClosedTwice

(* A client that is still in the map has an open channel, one that was      *)
(* displaced leaves both alone.                                             *)
LEMMA UnregisterKeeps ==
  ASSUME IInv, NEW c \in Conn, Unregister(c)
  PROVE IInv'
  <1> DEFINE d == conn[c].dev
             r == [Ended(c) EXCEPT !.open = @ /\ clients[d] # c]
  <1>1. conn \in [Conn -> Client] /\ conn[c] \in Client /\ Pumping(c)
    BY DEF IInv, TypeOK, Unregister, Pumping
  <1>2. d \in Device /\ (conn[c].open <=> clients[d] = c)
    BY <1>1, ClientFields DEF IInv, Linked, OpenIffRegistered
  <1>3. /\ clients' = [clients EXCEPT ![d] = IF @ = c THEN None ELSE @]
        /\ conn' = [conn EXCEPT ![c] = r]
        /\ held' = held /\ revoked' = revoked /\ panic' = panic
    BY <1>2 DEF Unregister
  <1>4. Ended(c) \in Client /\ Ended(c).reader = "gone" /\ Ended(c).open = conn[c].open
    BY <1>1, ClientFields DEF Client, Ended
  <1>5. r \in Client /\ r.reader = "gone"
    BY <1>4 DEF Client
  <1> HIDE DEF r
  <1>6. TypeOK'
    <2>1. conn' \in [Conn -> Client]
      BY <1>1, <1>3, <1>5
    <2>2. clients' \in [Device -> Conn \cup {None}]
      BY <1>2, <1>3 DEF IInv, TypeOK
    <2> QED
      BY <1>3, <2>1, <2>2 DEF IInv, TypeOK
  <1>7. ~Pumping(c)' /\ \A x \in Conn \ {c} : conn'[x] = conn[x]
    BY <1>1, <1>3, <1>5 DEF Pumping
  <1> HIDE DEF d
  <1>8. /\ clients'[d] = IF clients[d] = c THEN None ELSE clients[d]
        /\ \A e \in Device : e # d => clients'[e] = clients[e]
    BY <1>2, <1>3 DEF IInv, TypeOK
  <1>9. OpenIffRegistered'
    <2> SUFFICES ASSUME NEW x \in Conn, Pumping(x)'
                 PROVE conn'[x].dev # None /\ (conn'[x].open <=> clients'[conn'[x].dev] = x)
      BY DEF OpenIffRegistered
    <2>1. x # c /\ conn'[x] = conn[x] /\ Pumping(x)
      BY <1>7 DEF Pumping
    <2>2. conn[x].dev \in Device /\ (conn[x].open <=> clients[conn[x].dev] = x)
      BY <1>1, <2>1, ClientFields DEF IInv, Linked, OpenIffRegistered
    <2>3. clients'[conn[x].dev] = x <=> clients[conn[x].dev] = x
      BY <1>8, <2>1, <2>2, HubAssumption
    <2> QED
      BY <2>1, <2>2, <2>3, HubAssumption
  <1>10. RegisteredIsLive'
    <2> SUFFICES ASSUME NEW e \in Device, clients'[e] # None
                 PROVE (conn[clients[e]].dev = e /\ Pumping(clients[e]))'
      BY DEF RegisteredIsLive
    <2>1. clients'[e] = clients[e] /\ clients[e] # None
      BY <1>8
    <2>2. clients[e] \in Conn /\ conn[clients[e]].dev = e /\ Pumping(clients[e])
      BY <2>1 DEF IInv, TypeOK, Linked, RegisteredIsLive
    <2>3. clients[e] # c
      BY <1>8, <2>1, <2>2 DEF d
    <2> QED
      BY <1>7, <2>1, <2>2, <2>3 DEF Pumping
  <1>11. UpgradingIsOpen'
    BY <1>1, <1>3, <1>5, <1>7 DEF IInv, Linked, UpgradingIsOpen
  <1> QED
    BY <1>3, <1>6, <1>9, <1>10, <1>11 DEF IInv, Linked, NeverClosedTwice
-------------------------------------------------------------------------------
LEMMA NextIInv == IInv /\ [Next]_vars => IInv'
  <1> SUFFICES ASSUME IInv, [Next]_vars PROVE IInv'
    OBVIOUS
  <1> USE DEF Next, ReadPump, WritePump
  <1>1. ASSUME NEW c \in Conn, NEW d \in Device, Upgrade(c, d) PROVE IInv'
    BY <1>1, UpgradeKeeps
  <1>2. ASSUME NEW c \in Conn, UpgradeFails(c) \/ Collect(c) PROVE IInv'
    BY <1>2, FreeKeeps
  <1>3. ASSUME NEW c \in Conn, Register(c) PROVE IInv'
    BY <1>3, RegisterKeeps
  <1>4. ASSUME NEW c \in Conn, Unregister(c) PROVE IInv'
    BY <1>4, UnregisterKeeps
  <1>5. ASSUME NEW c \in Conn, LocalStep(c) PROVE IInv'
    <2>1. TypeOK' /\ Quiet /\ panic' \in {panic, "try_send"}
      BY <1>5, LocalKeeps DEF IInv
    <2> QED
      BY <2>1, QuietStep DEF IInv, NeverClosedTwice
  <1>6. ASSUME NEW t \in Task, Push(t) \/ \E d \in Device : Lookup(t, d) PROVE IInv'
    <2>1. TypeOK' /\ Quiet /\ panic' \in {panic, "send_to_device"}
      BY <1>6, SendKeeps DEF IInv
    <2> QED
      BY <2>1, QuietStep DEF IInv, NeverClosedTwice
  <1>7. ASSUME NEW d \in Device, Revoke(d) PROVE IInv'
    <2>1. TypeOK' /\ Quiet /\ panic' = panic
      BY <1>7 DEF IInv, TypeOK, Revoke, Quiet, SamePlace, Pumping
    <2> QED
      BY <2>1, QuietStep DEF IInv, NeverClosedTwice
  <1>8. CASE Restart
    <2>1. /\ \A c \in Conn : conn'[c] = Free /\ conn'[c].reader = "none"
          /\ \A d \in Device : clients'[d] = None
          /\ panic' = None
      BY <1>8, FreeIsClient DEF Restart
    <2>2. TypeOK'
      BY <1>8, FreeIsClient DEF Restart, IInv, TypeOK
    <2>3. Linked'
      BY <2>1 DEF Linked, OpenIffRegistered, RegisteredIsLive, UpgradingIsOpen, Pumping
    <2> QED
      BY <2>1, <2>2, <2>3, HubAssumption DEF IInv, NeverClosedTwice, Reason
  <1>9. CASE UNCHANGED vars
    <2>1. TypeOK' /\ Quiet /\ panic' = panic
      BY <1>9 DEF vars, IInv, TypeOK, Quiet, SamePlace, Pumping
    <2> QED
      BY <2>1, QuietStep DEF IInv, NeverClosedTwice
  <1> QED
    BY <1>1, <1>2, <1>3, <1>4, <1>5, <1>6, <1>7, <1>8, <1>9 DEF LocalStep

THEOREM InductiveInvariant == Spec => []IInv
  BY InitIInv, NextIInv, PTL DEF Spec

(* Every state of the hub has the shape TypeOK gives: in particular no      *)
(* queue of frames outgrows its buffer.                                     *)
THEOREM TypeCorrect == Spec => []TypeOK
  BY InductiveInvariant, PTL DEF IInv

(* A running read pump's channel is open exactly while its client is the    *)
(* one in the map, whatever connections displace each other.                *)
THEOREM OpenExactlyWhileRegistered == Spec => []OpenIffRegistered
  BY InductiveInvariant, PTL DEF IInv, Linked

(* The map never names a client that has gone. *)
THEOREM RegisteredStaysLive == Spec => []RegisteredIsLive
  BY InductiveInvariant, PTL DEF IInv, Linked

(* register and unregister never close one channel twice. *)
THEOREM ClosedOnce == Spec => []NeverClosedTwice
  BY InductiveInvariant, PTL DEF IInv
-------------------------------------------------------------------------------
(* The map is written by Register and Unregister, and emptied by Restart. *)
LEMMA MapWriters ==
  ASSUME IInv, [Next]_vars, NEW d \in Device, clients'[d] # clients[d]
  PROVE \/ Restart
        \/ \E c \in Conn : Register(c) /\ conn[c].dev = d
        \/ \E c \in Conn : Unregister(c) /\ clients[d] = c
  <1>1. ASSUME NEW c \in Conn, Register(c) PROVE conn[c].dev = d
    BY <1>1 DEF IInv, TypeOK, Register, Die
  <1>2. ASSUME NEW c \in Conn, Unregister(c) PROVE clients[d] = c
    BY <1>2 DEF IInv, TypeOK, Unregister, Die
  <1>3. clients' # clients
    OBVIOUS
  <1>4. Restart \/ \E c \in Conn : Register(c) \/ Unregister(c)
    BY <1>3 DEF Next, vars, Upgrade, UpgradeFails, PeerGone, Receive, Dispatched, ReadPump, Reply,
       ReadFails, WritePump, WriteFrame, WriteFails, WriterEnds, Collect, Lookup, Push,
       Revoke, Die
  <1> QED
    BY <1>1, <1>2, <1>4

(* No connection but the current one takes its device offline. *)
THEOREM DisplacedLeavesReplacement == Spec => ReplacementStays
  <1> DEFINE Step == \A d \in Device :
               Running /\ clients[d] # None /\ clients'[d] = None
                 => conn[clients[d]].reader = "leaving" \/ Restart
  <1>1. IInv /\ [Next]_vars => [Step]_vars
    <2> SUFFICES ASSUME IInv, [Next]_vars, NEW d \in Device,
                        Running, clients[d] # None, clients'[d] = None, ~Restart
                 PROVE conn[clients[d]].reader = "leaving"
      OBVIOUS
    <2>1. ASSUME NEW c \in Conn, Register(c) PROVE clients'[d] # None
      BY <2>1, HubAssumption DEF IInv, TypeOK, Register, Die
    <2>2. \E c \in Conn : Unregister(c) /\ clients[d] = c
      BY <2>1, MapWriters
    <2> QED
      BY <2>2 DEF Unregister
  <1> QED
    BY <1>1, InductiveInvariant, PTL DEF Spec, ReplacementStays

(* Revocation is final for a device that is offline. *)
THEOREM RevocationIsFinal == Spec => RevokedStaysOffline
  <1> DEFINE Step == \A d \in revoked : Shut(d) => Shut(d)'
  <1>1. IInv /\ [Next]_vars => [Step]_vars
    <2> SUFFICES ASSUME IInv, [Next]_vars, NEW d \in revoked, Shut(d)
                 PROVE Shut(d)'
      OBVIOUS
    <2>1. d \in Device /\ clients[d] = None /\ ~Upgrading(d)
      BY DEF IInv, TypeOK, Shut
    <2>2. clients'[d] = None
      <3>1. CASE Restart
        BY <2>1, <3>1 DEF Restart
      <3>2. ASSUME NEW c \in Conn, Register(c), conn[c].dev = d PROVE FALSE
        BY <2>1, <3>2 DEF Register, Upgrading
      <3>3. ASSUME NEW c \in Conn, clients[d] = c PROVE FALSE
        BY <2>1, <3>3, HubAssumption
      <3> QED
        BY <2>1, <3>1, <3>2, <3>3, MapWriters
    <2>3. ASSUME NEW c \in Conn, conn'[c].reader = "upgrading", conn'[c].dev = d
          PROVE FALSE
      <3>1. CASE UNCHANGED conn
        BY <2>1, <2>3, <3>1 DEF Upgrading
      <3>2. ASSUME NEW x \in Conn, NEW e \in Device, Upgrade(x, e) PROVE FALSE
        <4>1. CASE x = c
          BY <2>3, <3>2, <4>1 DEF IInv, TypeOK, Client, Upgrade, Authenticate
        <4>2. CASE x # c
          BY <2>1, <2>3, <3>2, <4>2 DEF IInv, TypeOK, Upgrade, Upgrading
        <4> QED
          BY <4>1, <4>2
      <3>3. conn[c] \in Client /\ conn \in [Conn -> Client]
        BY DEF IInv, TypeOK
      <3>4. ~(conn[c].reader = "upgrading" /\ conn[c].dev = d)
        BY <2>1 DEF Upgrading
      <3>5. ASSUME NEW x \in Conn, UpgradeFails(x) \/ Register(x) \/ PeerGone(x)
                                   \/ Receive(x) \/ Dispatched(x)
            PROVE FALSE
        <4>1. CASE UpgradeFails(x)
          BY <2>3, <3>3, <3>4, <4>1 DEF UpgradeFails, Free
        <4>2. CASE Register(x)
          <5>1. conn' = conn \/
                conn' = [y \in Conn |->
                  CASE y = x -> [conn[y] EXCEPT !.reader = "reading", !.writer = "running"]
                    [] y = clients[conn[x].dev] -> [conn[y] EXCEPT !.open = FALSE]
                    [] OTHER -> conn[y]]
            BY <4>2 DEF Register, Die
          <5>2. conn'[c].reader \in {"reading", conn[c].reader} /\ conn'[c].dev = conn[c].dev
            <6> DEFINE u == conn[c]
            <6>1. u \in Client
              BY <3>3
            <6>2. /\ [u EXCEPT !.reader = "reading", !.writer = "running"].dev = u.dev
                  /\ [u EXCEPT !.reader = "reading", !.writer = "running"].reader = "reading"
                  /\ [u EXCEPT !.open = FALSE].dev = u.dev
                  /\ [u EXCEPT !.open = FALSE].reader = u.reader
              BY <6>1 DEF Client
            <6> HIDE DEF u
            <6> QED
              BY <5>1, <6>2 DEF u
          <5> QED
            BY <2>3, <3>4, <5>2
        <4>3. CASE PeerGone(x)
          BY <2>3, <3>3, <3>4, <4>3 DEF PeerGone, Client
        <4>4. CASE Receive(x) \/ Dispatched(x)
          BY <2>3, <3>3, <3>4, <4>4 DEF Receive, Dispatched, Client
        <4> QED
          BY <3>5, <4>1, <4>2, <4>3, <4>4
      <3>6. ASSUME NEW x \in Conn, ReadPump(x) PROVE FALSE
        <4>1. CASE Reply(x)
          BY <2>3, <3>3, <3>4, <4>1 DEF Reply, Die, Client
        <4>2. CASE ReadFails(x)
          BY <2>3, <3>3, <3>4, <4>2 DEF ReadFails, Client
        <4>3. CASE Unregister(x)
          <5>1. conn' = conn \/ \E b \in BOOLEAN :
                  conn' = [conn EXCEPT ![x] = [Ended(x) EXCEPT !.open = b]]
            BY <3>3, <4>3 DEF Unregister, Die, Ended, Client
          <5>2. conn'[c].reader \in {"gone", conn[c].reader} /\ conn'[c].dev = conn[c].dev
            <6>1. CASE c = x
              <7>1. PICK b \in BOOLEAN :
                      conn'[c] \in {conn[c], [Ended(c) EXCEPT !.open = b]}
                BY <3>3, <5>1, <6>1
              <7>2. /\ [Ended(c) EXCEPT !.open = b].reader = "gone"
                    /\ [Ended(c) EXCEPT !.open = b].dev = conn[c].dev
                BY <3>3 DEF Ended, Client
              <7> QED
                BY <7>1, <7>2
            <6>2. CASE c # x
              BY <3>3, <5>1, <6>2
            <6> QED
              BY <6>1, <6>2
          <5> QED
            BY <2>3, <3>4, <5>2
        <4> QED
          BY <3>6, <4>1, <4>2, <4>3 DEF ReadPump
      <3>7. ASSUME NEW x \in Conn, WritePump(x) \/ Collect(x) PROVE FALSE
        BY <2>3, <3>3, <3>4, <3>7 DEF WritePump, WriteFrame, WriteFails, WriterEnds,
           Collect, Free, Client
      <3>8. ASSUME NEW t \in Task, Push(t) PROVE FALSE
        BY <2>3, <3>3, <3>4, <3>8 DEF Push, Die, Client
      <3>9. CASE Restart
        BY <2>3, <3>9 DEF Restart, Free
      <3> QED
        BY <3>1, <3>2, <3>5, <3>6, <3>7, <3>8, <3>9 DEF Next, vars, Lookup, Revoke
    <2> QED
      BY <2>2, <2>3 DEF Shut, Upgrading
  <1> QED
    BY <1>1, InductiveInvariant, PTL DEF Spec, RevokedStaysOffline
-------------------------------------------------------------------------------
(* The hub keeps its contract.  What the correspondence needs beside IInv:  *)
(* a client that has gone is shut, one that is not registered yet has       *)
(* nothing queued, and SendToDevice never holds one of those.               *)
Settled ==
  /\ \A c \in Conn : conn[c].reader = "gone" => ~conn[c].open
  /\ \A c \in Conn : conn[c].reader = "upgrading" => conn[c].queued = 0
  /\ \A t \in Task : held[t] # None => conn[held[t]].reader \notin {"none", "upgrading"}

RInv == IInv /\ Settled

(* A frame is queued for the connection that its device has at that moment: *)
(* an open channel is the current one's.                                    *)
LEMMA OpenIsCurrent ==
  ASSUME RInv, NEW c \in Conn, conn[c].open, conn[c].reader \notin {"none", "upgrading"}
  PROVE  conn[c].dev \in Device /\ clients[conn[c].dev] = c
  <1>1. conn[c] \in Client /\ conn[c].reader # "gone"
    BY DEF RInv, IInv, TypeOK, Settled
  <1>2. Pumping(c)
    BY <1>1, ClientFields DEF Pumping
  <1> QED
    BY <1>1, <1>2, ClientFields DEF RInv, IInv, Linked, OpenIffRegistered

(* What the contract sees of a step that changes one client. *)
LEMMA OneMoves ==
  ASSUME conn \in [Conn -> Client], NEW c \in Conn, NEW r, conn' = [conn EXCEPT ![c] = r]
  PROVE  /\ Admitted' = [Admitted EXCEPT ![c] = IF r.reader = "upgrading" THEN r.dev ELSE None]
         /\ Load' = [Load EXCEPT ![c] = r.queued]
         /\ Past' = IF r.reader \notin {"none", "upgrading"} /\ ~r.open
                    THEN Past \cup {c} ELSE Past \ {c}
  <1>1. conn'[c] = r /\ \A x \in Conn : x # c => conn'[x] = conn[x]
    OBVIOUS
  <1>2. Admitted' = [Admitted EXCEPT ![c] = IF r.reader = "upgrading" THEN r.dev ELSE None]
    BY <1>1 DEF Admitted
  <1>3. Load' = [Load EXCEPT ![c] = r.queued]
    BY <1>1 DEF Load
  <1>4. Past' = IF r.reader \notin {"none", "upgrading"} /\ ~r.open
                THEN Past \cup {c} ELSE Past \ {c}
    BY <1>1 DEF Past
  <1> QED
    BY <1>2, <1>3, <1>4

(* In particular it sees nothing of a change of what it does not know. *)
LEMMA UnseenMove ==
  ASSUME conn \in [Conn -> Client], NEW c \in Conn, NEW r, conn' = [conn EXCEPT ![c] = r],
         r.dev = conn[c].dev, r.open = conn[c].open, r.queued = conn[c].queued,
         (r.reader \in {"none", "upgrading"}) \/ (conn[c].reader \in {"none", "upgrading"})
           => r.reader = conn[c].reader
  PROVE  Admitted' = Admitted /\ Load' = Load /\ Past' = Past
  <1>1. conn'[c] = r /\ \A x \in Conn : x # c => conn'[x] = conn[x]
    OBVIOUS
  <1>2. Admitted' = Admitted
    BY <1>1 DEF Admitted
  <1>3. Load' = Load
    BY <1>1 DEF Load
  <1>4. Past' = Past
    BY <1>1 DEF Past
  <1> QED
    BY <1>2, <1>3, <1>4

(* A frame goes to an open channel: the contract's Send, or nothing if the  *)
(* buffer is full.                                                          *)
LEMMA QueuedIsSend ==
  ASSUME RInv, NEW c \in Conn, NEW r, Running,
         conn[c].open, conn[c].reader \notin {"none", "upgrading"},
         conn' = [conn EXCEPT ![c] = r],
         r.dev = conn[c].dev, r.open, r.queued = Enqueue(c),
         r.reader \notin {"none", "upgrading"},
         UNCHANGED <<clients, revoked, panic>>
  PROVE  Contract!Next \/ UNCHANGED Contract!vars
  <1> DEFINE d == conn[c].dev
  <1>1. conn \in [Conn -> Client] /\ conn[c] \in Client /\ d \in Device /\ clients[d] = c /\ c # None
    BY OpenIsCurrent, HubAssumption DEF RInv, IInv, TypeOK
  <1>2. Admitted' = Admitted /\ Past' = Past /\ Load' = [Load EXCEPT ![c] = Enqueue(c)]
    <2>1. /\ Admitted' = [Admitted EXCEPT ![c] = None]
          /\ Load' = [Load EXCEPT ![c] = Enqueue(c)]
          /\ Past' = Past \ {c}
      <3>1. /\ Admitted' = [Admitted EXCEPT ![c] = IF r.reader = "upgrading" THEN r.dev ELSE None]
            /\ Load' = [Load EXCEPT ![c] = r.queued]
            /\ Past' = IF r.reader \notin {"none", "upgrading"} /\ ~r.open
                       THEN Past \cup {c} ELSE Past \ {c}
        BY <1>1, OneMoves
      <3> QED
        BY <3>1
    <2>2. Admitted[c] = None /\ c \notin Past /\ Admitted = [x \in Conn |-> Admitted[x]]
      BY DEF Admitted, Past
    <2> QED
      BY <2>1, <2>2
  <1>3. Load[c] = conn[c].queued /\ Load = [x \in Conn |-> Load[x]]
    BY DEF Load
  <1>4. CASE conn[c].queued < Buffer
    <2>1. Contract!Send(d)
      BY <1>1, <1>2, <1>3, <1>4 DEF Contract!Send, Enqueue
    <2> QED
      BY <1>1, <2>1 DEF Contract!Next, Contract!Running, Running
  <1>5. CASE ~(conn[c].queued < Buffer)
    <2>1. Load' = Load
      BY <1>2, <1>3, <1>5 DEF Enqueue
    <2> QED
      BY <1>2, <2>1 DEF Contract!vars
  <1> QED
    BY <1>4, <1>5

(* A send to a closed channel: the line is past. *)
LEMMA DeadIsPast ==
  ASSUME RInv, NEW c \in Conn, NEW reason \in {"send_to_device", "try_send"}, Running,
         ~conn[c].open, conn[c].reader \notin {"none", "upgrading"}, Die(reason)
  PROVE  Contract!Next
  <1>1. c \in Past
    BY DEF Past
  <1>2. Admitted' = Admitted /\ Load' = Load /\ Past' = Past
    BY DEF Die, Admitted, Load, Past
  <1>3. Contract!Die
    BY <1>1, <1>2 DEF Contract!Die, Die
  <1> QED
    BY <1>3 DEF Contract!Next, Contract!Running, Running

(* One action at a time: first the steps of a connection's pumps. *)
LEMMA LocalMaps ==
  ASSUME RInv, NEW c \in Conn, LocalStep(c)
  PROVE  Contract!Next \/ UNCHANGED Contract!vars
  <1>1. /\ conn \in [Conn -> Client] /\ conn[c] \in Client /\ Running
        /\ conn[c].reader = "upgrading" => conn[c].queued = 0
    BY DEF RInv, IInv, TypeOK, Settled, LocalStep, PeerGone, Receive, Dispatched, Reply, ReadFails,
       WriteFrame, WriteFails, WriterEnds
  <1>2. CASE Reply(c)
    <2>1. CASE conn[c].open
      <3> DEFINE q == Enqueue(c)
                 r == [conn[c] EXCEPT !.reader = "reading", !.queued = q]
      <3>1. conn' = [conn EXCEPT ![c] = r] /\ UNCHANGED <<clients, revoked, panic>>
        BY <1>2, <2>1 DEF Reply
      <3>2. r.dev = conn[c].dev /\ r.open /\ r.queued = q /\ r.reader = "reading"
        <4> HIDE DEF q
        <4> QED
          BY <1>1, <2>1 DEF Client
      <3> HIDE DEF r
      <3> QED
        BY <1>1, <1>2, <2>1, <3>1, <3>2, QueuedIsSend DEF Reply
    <2>2. CASE ~conn[c].open
      BY <1>1, <1>2, <2>2, DeadIsPast DEF Reply
    <2> QED
      BY <2>1, <2>2
  <1>3. CASE WriteFrame(c)
    <2> DEFINE q == conn[c].queued - 1
               r == [conn[c] EXCEPT !.queued = q]
    <2>1. conn' = [conn EXCEPT ![c] = r] /\ UNCHANGED <<clients, revoked, panic>>
          /\ conn[c].queued > 0 /\ conn[c].reader # "upgrading"
      BY <1>1, <1>3 DEF WriteFrame
    <2>2. r.dev = conn[c].dev /\ r.open = conn[c].open /\ r.queued = q /\ r.reader = conn[c].reader
      <3> HIDE DEF q
      <3> QED
        BY <1>1 DEF Client
    <2> HIDE DEF r
    <2>3. /\ Admitted' = [Admitted EXCEPT ![c] = IF r.reader = "upgrading" THEN r.dev ELSE None]
          /\ Load' = [Load EXCEPT ![c] = r.queued]
          /\ Past' = IF r.reader \notin {"none", "upgrading"} /\ ~r.open
                     THEN Past \cup {c} ELSE Past \ {c}
      BY <1>1, <2>1, OneMoves
    <2>4. Admitted' = Admitted /\ Past' = Past
      BY <2>1, <2>2, <2>3 DEF Admitted, Past
    <2>5. Contract!Deliver(c)
      BY <2>1, <2>2, <2>3, <2>4 DEF Contract!Deliver, Load
    <2> QED
      BY <1>1, <2>5 DEF Contract!Next, Contract!Running, Running
  <1>4. CASE PeerGone(c) \/ Receive(c) \/ Dispatched(c) \/ ReadFails(c)
             \/ WriteFails(c) \/ WriterEnds(c)
    <2>1. UNCHANGED <<clients, revoked, panic>>
      BY <1>4 DEF PeerGone, Receive, Dispatched, ReadFails, WriteFails, WriterEnds
    <2> DEFINE Good(r) == /\ r.dev = conn[c].dev /\ r.open = conn[c].open
                          /\ r.queued = conn[c].queued
                          /\ (r.reader \in {"none", "upgrading"}) \/
                             (conn[c].reader \in {"none", "upgrading"})
                               => r.reader = conn[c].reader
    <2>2. \E r : conn' = [conn EXCEPT ![c] = r] /\ Good(r)
      <3>1. Good([conn[c] EXCEPT !.link = FALSE])
        BY <1>1 DEF Client
      <3>2. Good([conn[c] EXCEPT !.writer = "gone", !.link = FALSE])
        BY <1>1 DEF Client
      <3>3. ASSUME conn[c].reader \in {"reading", "dispatching"},
                   NEW next \in {"reading", "replying", "dispatching", "leaving"}
            PROVE  Good([conn[c] EXCEPT !.reader = next])
        BY <1>1, <3>3 DEF Client
      <3> HIDE DEF Good
      <3>4. CASE PeerGone(c)
        BY <3>1, <3>4 DEF PeerGone
      <3>5. CASE Receive(c) \/ Dispatched(c) \/ ReadFails(c)
        BY <3>3, <3>5 DEF Receive, Dispatched, ReadFails
      <3>6. CASE WriteFails(c) \/ WriterEnds(c)
        BY <3>2, <3>6 DEF WriteFails, WriterEnds
      <3> QED
        BY <1>4, <3>4, <3>5, <3>6
    <2>3. PICK r : conn' = [conn EXCEPT ![c] = r] /\ Good(r)
      BY <2>2
    <2>4. Admitted' = Admitted /\ Load' = Load /\ Past' = Past
      BY <1>1, <2>3, UnseenMove
    <2> QED
      BY <2>1, <2>4 DEF Contract!vars
  <1> QED
    BY <1>2, <1>3, <1>4 DEF LocalStep

(* SendToDevice: what happens between the lookup and the send shows only    *)
(* in which of the contract's steps the send is.                            *)
LEMMA SendMaps ==
  ASSUME RInv, NEW t \in Task, Push(t)
  PROVE  Contract!Next \/ UNCHANGED Contract!vars
  <1> DEFINE c == held[t]
  <1>1. /\ c \in Conn /\ conn \in [Conn -> Client] /\ conn[c] \in Client /\ Running
        /\ conn[c].reader \notin {"none", "upgrading"}
    BY DEF RInv, IInv, TypeOK, Settled, Push
  <1>2. CASE conn[c].open
    <2> DEFINE q == Enqueue(c)
               r == [conn[c] EXCEPT !.queued = q]
    <2>1. conn' = [conn EXCEPT ![c] = r] /\ UNCHANGED <<clients, revoked, panic>>
      BY <1>2 DEF Push
    <2>2. r.dev = conn[c].dev /\ r.open /\ r.queued = q /\ r.reader = conn[c].reader
      <3> HIDE DEF q
      <3> QED
        BY <1>1, <1>2 DEF Client
    <2> HIDE DEF r, c
    <2> QED
      BY <1>1, <1>2, <2>1, <2>2, QueuedIsSend
  <1>3. CASE ~conn[c].open /\ UNCHANGED <<clients, conn, revoked, panic>>
    BY <1>3 DEF Contract!vars, Admitted, Load, Past
  <1>4. CASE ~conn[c].open /\ Die("send_to_device")
    BY <1>1, <1>4, DeadIsPast
  <1> QED
    BY <1>2, <1>3, <1>4 DEF Push

(* Then the steps that begin and end a connection. *)
LEMMA UpgradeMaps ==
  ASSUME RInv, NEW c \in Conn, NEW d \in Device, Upgrade(c, d)
  PROVE  Contract!Next
  <1> DEFINE r == [conn[c] EXCEPT !.dev = d, !.reader = "upgrading", !.open = TRUE, !.link = TRUE]
  <1>1. /\ conn \in [Conn -> Client] /\ conn[c] \in Client /\ conn[c] = Free
        /\ conn' = [conn EXCEPT ![c] = r] /\ UNCHANGED <<clients, revoked, panic>>
        /\ Running /\ d \notin revoked
    BY DEF RInv, IInv, TypeOK, Upgrade, Authenticate
  <1>2. r.dev = d /\ r.reader = "upgrading" /\ r.queued = 0
    BY <1>1, FreeIsClient DEF Client
  <1> HIDE DEF r
  <1>3. /\ Admitted' = [Admitted EXCEPT ![c] = IF r.reader = "upgrading" THEN r.dev ELSE None]
        /\ Load' = [Load EXCEPT ![c] = r.queued]
        /\ Past' = IF r.reader \notin {"none", "upgrading"} /\ ~r.open
                   THEN Past \cup {c} ELSE Past \ {c}
    BY <1>1, OneMoves
  <1>4. c \notin Past /\ Admitted[c] = None /\ Load[c] = 0
    BY <1>1, FreeIsClient DEF Past, Admitted, Load
  <1>5. \A e \in Device : clients[e] # c
    <2> SUFFICES ASSUME NEW e \in Device, clients[e] = c PROVE FALSE
      OBVIOUS
    <2>1. Pumping(c)
      BY HubAssumption DEF RInv, IInv, Linked, RegisteredIsLive
    <2> QED
      BY <1>1, <2>1, FreeIsClient DEF Pumping
  <1>6. Load' = Load /\ Past' = Past
    BY <1>2, <1>3, <1>4 DEF Load
  <1>7. Contract!Admit(c, d)
    BY <1>1, <1>2, <1>3, <1>4, <1>5, <1>6 DEF Contract!Admit, Contract!Unused
  <1> QED
    BY <1>1, <1>7 DEF Contract!Next, Contract!Running, Running

LEMMA FreeMaps ==
  ASSUME RInv, NEW c \in Conn, UpgradeFails(c) \/ Collect(c)
  PROVE  Contract!Next \/ UNCHANGED Contract!vars
  <1>1. /\ conn \in [Conn -> Client] /\ conn[c] \in Client
        /\ conn' = [conn EXCEPT ![c] = Free] /\ UNCHANGED <<clients, revoked, panic>>
        /\ Running
    BY DEF RInv, IInv, TypeOK, UpgradeFails, Collect
  <1>2. /\ Admitted' = [Admitted EXCEPT ![c] = None]
        /\ Load' = [Load EXCEPT ![c] = 0]
        /\ Past' = Past \ {c}
    <2>1. /\ Admitted' = [Admitted EXCEPT
                           ![c] = IF Free.reader = "upgrading" THEN Free.dev ELSE None]
          /\ Load' = [Load EXCEPT ![c] = Free.queued]
          /\ Past' = IF Free.reader \notin {"none", "upgrading"} /\ ~Free.open
                     THEN Past \cup {c} ELSE Past \ {c}
      BY <1>1, OneMoves
    <2> QED
      BY <2>1, FreeIsClient
  <1>3. CASE UpgradeFails(c)
    <2>1. conn[c].reader = "upgrading" /\ conn[c].queued = 0 /\ conn[c].dev # None
      BY <1>3, HubAssumption DEF UpgradeFails, RInv, Settled, IInv, Linked, UpgradingIsOpen
    <2>2. Admitted[c] # None /\ c \notin Past /\ Load' = Load
      BY <1>2, <2>1 DEF Admitted, Past, Load
    <2>3. Contract!TurnAway(c)
      BY <1>1, <1>2, <2>2 DEF Contract!TurnAway
    <2> QED
      BY <1>1, <2>3 DEF Contract!Next, Contract!Running, Running
  <1>4. CASE Collect(c)
    <2>1. conn[c].reader = "gone" /\ ~conn[c].open
      BY <1>4 DEF Collect, RInv, Settled
    <2>2. c \in Past /\ Admitted' = Admitted
      BY <1>2, <2>1 DEF Past, Admitted
    <2>3. Contract!Release(c)
      BY <1>1, <1>2, <2>2 DEF Contract!Release
    <2> QED
      BY <1>1, <2>3 DEF Contract!Next, Contract!Running, Running
  <1> QED
    BY <1>3, <1>4

(* The client that is displaced was the open one, and is past from now on. *)
LEMMA RegisterMaps ==
  ASSUME RInv, NEW c \in Conn, Register(c)
  PROVE  Contract!Next
  <1> DEFINE d == conn[c].dev
             old == clients[d]
  <1>1. /\ conn \in [Conn -> Client] /\ conn[c] \in Client /\ conn[c].reader = "upgrading"
        /\ d \in Device /\ d # None /\ conn[c].open /\ Running
        /\ old \in Conn \cup {None}
    BY HubAssumption DEF RInv, IInv, TypeOK, Linked, UpgradingIsOpen, Register
  <1>2. old # None => old \in Conn /\ old # c /\ Pumping(old) /\ conn[old].open
                      /\ conn[old] \in Client
    BY <1>1 DEF RInv, IInv, Linked, RegisteredIsLive, OpenIffRegistered, Pumping
  <1>3. /\ clients' = [clients EXCEPT ![d] = c]
        /\ conn' = [x \in Conn |->
             CASE x = c -> [conn[x] EXCEPT !.reader = "reading", !.writer = "running"]
               [] x = old -> [conn[x] EXCEPT !.open = FALSE]
               [] OTHER -> conn[x]]
        /\ UNCHANGED <<revoked, panic>>
    BY <1>2 DEF Register
  <1> HIDE DEF d, old
  <1>4. /\ conn'[c].reader = "reading" /\ conn'[c].open /\ conn'[c].queued = conn[c].queued
        /\ \A x \in Conn : x = old =>
             /\ conn'[x].reader = conn[x].reader /\ ~conn'[x].open
             /\ conn'[x].queued = conn[x].queued /\ conn'[x].dev = conn[x].dev
        /\ \A x \in Conn : x # c /\ x # old => conn'[x] = conn[x]
    <2> DEFINE up == [conn[c] EXCEPT !.reader = "reading", !.writer = "running"]
               shut(x) == [conn[x] EXCEPT !.open = FALSE]
    <2>1. up.reader = "reading" /\ up.open = conn[c].open /\ up.queued = conn[c].queued
      BY <1>1 DEF Client
    <2>2. ASSUME NEW x \in Conn
          PROVE  /\ shut(x).reader = conn[x].reader /\ ~shut(x).open
                 /\ shut(x).queued = conn[x].queued /\ shut(x).dev = conn[x].dev
      BY <1>1 DEF Client
    <2>3. /\ conn'[c] = up
          /\ \A x \in Conn : x = old => conn'[x] = shut(x)
          /\ \A x \in Conn : x # c /\ x # old => conn'[x] = conn[x]
      <3>1. \A x \in Conn : x = old => x # c
        BY <1>2, HubAssumption
      <3> QED
        BY <1>3, <3>1
    <2> HIDE DEF up, shut
    <2> QED
      BY <1>1, <2>1, <2>2, <2>3
  <1>5. Load' = Load
    <2>1. \A x \in Conn : conn'[x].queued = conn[x].queued
      BY <1>4
    <2> QED
      BY <2>1 DEF Load
  <1>6. Admitted' = [Admitted EXCEPT ![c] = None] /\ Admitted[c] = d
    <2>1. \A x \in Conn : x # c => /\ (conn'[x].reader = "upgrading") = (conn[x].reader = "upgrading")
                                   /\ conn'[x].dev = conn[x].dev
      BY <1>4
    <2> QED
      BY <1>1, <1>4, <2>1 DEF Admitted, d
  <1>7. Past' = Past \cup ({old} \ {None})
    <2>1. c \notin Past /\ c \notin Past'
      BY <1>1, <1>4 DEF Past
    <2>2. \A x \in Conn : x = old => x \in Past' /\ x # None /\ x # c
      BY <1>2, <1>4, HubAssumption DEF Past, Pumping
    <2>3. \A x \in Conn : x # c /\ x # old => (x \in Past' <=> x \in Past)
      BY <1>4 DEF Past
    <2>4. Past \subseteq Conn /\ Past' \subseteq Conn
      BY DEF Past
    <2> QED
      BY <1>1, <1>2, <2>1, <2>2, <2>3, <2>4
  <1>8. Contract!Attach(c)
    BY <1>1, <1>3, <1>5, <1>6, <1>7 DEF Contract!Attach, old
  <1> QED
    BY <1>1, <1>8 DEF Contract!Next, Contract!Running, Running

(* A client that was displaced leaves unseen; the current one takes its     *)
(* device offline.                                                          *)
LEMMA UnregisterMaps ==
  ASSUME RInv, NEW c \in Conn, Unregister(c)
  PROVE  Contract!Next \/ UNCHANGED Contract!vars
  <1> DEFINE d == conn[c].dev
             r == [Ended(c) EXCEPT !.open = @ /\ clients[d] # c]
  <1>1. /\ conn \in [Conn -> Client] /\ conn[c] \in Client /\ conn[c].reader = "leaving"
        /\ Pumping(c) /\ Running /\ c # None
    BY HubAssumption DEF RInv, IInv, TypeOK, Unregister, Pumping
  <1>2. d \in Device /\ (conn[c].open <=> clients[d] = c)
    BY <1>1, ClientFields DEF RInv, IInv, Linked, OpenIffRegistered
  <1>3. /\ clients' = [clients EXCEPT ![d] = IF @ = c THEN None ELSE @]
        /\ conn' = [conn EXCEPT ![c] = r]
        /\ UNCHANGED <<revoked, panic>>
    BY <1>2 DEF Unregister
  <1>4. r.reader = "gone" /\ ~r.open /\ r.queued = conn[c].queued
    <2>1. /\ Ended(c) \in Client /\ Ended(c).reader = "gone" /\ Ended(c).open = conn[c].open
          /\ Ended(c).queued = conn[c].queued
      BY <1>1, ClientFields DEF Client, Ended
    <2> QED
      BY <1>2, <2>1 DEF Client
  <1> HIDE DEF r, d
  <1>5. Admitted' = Admitted /\ Load' = Load /\ Past' = Past \cup {c}
    <2>1. /\ Admitted' = [Admitted EXCEPT ![c] = IF r.reader = "upgrading" THEN r.dev ELSE None]
          /\ Load' = [Load EXCEPT ![c] = r.queued]
          /\ Past' = IF r.reader \notin {"none", "upgrading"} /\ ~r.open
                     THEN Past \cup {c} ELSE Past \ {c}
      BY <1>1, <1>3, OneMoves
    <2> QED
      BY <1>1, <1>4, <2>1 DEF Admitted, Load
  <1>6. CASE clients[d] = c
    <2>1. Contract!Detach(d)
      BY <1>1, <1>2, <1>3, <1>5, <1>6 DEF Contract!Detach
    <2> QED
      BY <1>1, <1>2, <2>1 DEF Contract!Next, Contract!Running, Running
  <1>7. CASE clients[d] # c
    <2>1. c \in Past
      BY <1>1, <1>2, <1>7 DEF Past
    <2>2. clients' = clients
      BY <1>2, <1>3, <1>7 DEF RInv, IInv, TypeOK
    <2> QED
      BY <1>3, <1>5, <2>1, <2>2 DEF Contract!vars
  <1> QED
    BY <1>6, <1>7

LEMMA StepMaps ==
  ASSUME RInv, [Next]_vars
  PROVE  [Contract!Next]_(Contract!vars)
  <1>1. ASSUME NEW t \in Task, NEW d \in Device, Lookup(t, d) PROVE UNCHANGED Contract!vars
    BY <1>1 DEF Lookup, Contract!vars, Admitted, Load, Past
  <1>2. ASSUME NEW d \in Device, Revoke(d) PROVE Contract!Next
    <2>1. Contract!Revoke(d)
      BY <1>2 DEF Revoke, Contract!Revoke, Admitted, Load, Past
    <2> QED
      BY <1>2, <2>1 DEF Contract!Next, Contract!Running, Revoke, Running
  <1>3. CASE Restart
    <2>1. \A c \in Conn : conn'[c].reader = "none" /\ conn'[c].queued = 0
      BY <1>3, FreeIsClient DEF Restart
    <2>2. /\ Admitted' = [c \in Conn |-> None] /\ Load' = [c \in Conn |-> 0] /\ Past' = {}
      BY <2>1 DEF Admitted, Load, Past
    <2>3. Contract!Restart
      BY <1>3, <2>2 DEF Contract!Restart, Restart
    <2> QED
      BY <2>3 DEF Contract!Next
  <1>4. CASE UNCHANGED vars
    BY <1>4 DEF vars, Contract!vars, Admitted, Load, Past
  <1> QED
    BY <1>1, <1>2, <1>3, <1>4, LocalMaps, SendMaps, UpgradeMaps, FreeMaps, RegisterMaps,
       UnregisterMaps DEF Next, ReadPump, WritePump, LocalStep
-------------------------------------------------------------------------------
(* That the correspondence always has what it needs. *)
LEMMA SettledOne ==
  ASSUME IInv, Settled, NEW c \in Conn, NEW r, conn' = [conn EXCEPT ![c] = r],
         r.reader = "gone" => ~r.open,
         r.reader = "upgrading" => r.queued = 0,
         r.reader \in {"none", "upgrading"} => \A t \in Task : held[t] # c,
         \A t \in Task : held'[t] \in {held[t], None}
  PROVE  Settled'
  <1>1. /\ conn \in [Conn -> Client] /\ held \in [Task -> Conn \cup {None}]
        /\ conn'[c] = r /\ \A x \in Conn : x # c => conn'[x] = conn[x]
    BY DEF IInv, TypeOK
  <1>2. \A x \in Conn : conn'[x].reader = "gone" => ~conn'[x].open
    BY <1>1 DEF Settled
  <1>3. \A x \in Conn : conn'[x].reader = "upgrading" => conn'[x].queued = 0
    BY <1>1 DEF Settled
  <1>4. ASSUME NEW t \in Task, held'[t] # None
        PROVE  conn'[held'[t]].reader \notin {"none", "upgrading"}
    BY <1>1, <1>4 DEF Settled
  <1> QED
    BY <1>2, <1>3, <1>4 DEF Settled

LEMMA SettledLocal ==
  ASSUME RInv, NEW c \in Conn, LocalStep(c)
  PROVE  Settled'
  <1>1. /\ conn \in [Conn -> Client] /\ conn[c] \in Client /\ held' = held
        /\ conn[c].reader = "gone" => ~conn[c].open
        /\ conn[c].reader = "upgrading" => conn[c].queued = 0
        /\ conn[c].reader \in {"none", "upgrading"} => \A t \in Task : held[t] # c
    BY HubAssumption DEF RInv, IInv, TypeOK, Settled, LocalStep, PeerGone, Receive, Dispatched,
       Reply, ReadFails, WriteFrame, WriteFails, WriterEnds, Die
  <1> DEFINE Good(r) == /\ r.reader = "gone" => ~r.open
                        /\ r.reader = "upgrading" => r.queued = 0
                        /\ r.reader \in {"none", "upgrading"} => \A t \in Task : held[t] # c
  <1>2. CASE conn' = conn
    BY <1>1, <1>2 DEF RInv, Settled
  <1>3. CASE conn' # conn
    <2>1. Good([conn[c] EXCEPT !.link = FALSE])
      BY <1>1 DEF Client
    <2>2. Good([conn[c] EXCEPT !.writer = "gone", !.link = FALSE])
      BY <1>1 DEF Client
    <2>3. ASSUME NEW next \in {"reading", "replying", "dispatching", "leaving"}
          PROVE  Good([conn[c] EXCEPT !.reader = next])
      BY <1>1 DEF Client
    <2>4. ASSUME NEW q PROVE Good([conn[c] EXCEPT !.reader = "reading", !.queued = q])
      BY <1>1 DEF Client
    <2>5. ASSUME NEW q, conn[c].reader # "upgrading" PROVE Good([conn[c] EXCEPT !.queued = q])
      BY <1>1, <2>5 DEF Client
    <2>6. WriteFrame(c) => conn[c].reader # "upgrading"
      BY <1>1 DEF WriteFrame
    <2> HIDE DEF Good
    <2>7. \E r : conn' = [conn EXCEPT ![c] = r] /\ Good(r)
      <3>1. CASE PeerGone(c)
        BY <2>1, <3>1 DEF PeerGone
      <3>2. CASE WriteFails(c) \/ WriterEnds(c)
        BY <2>2, <3>2 DEF WriteFails, WriterEnds
      <3>3. CASE Receive(c) \/ Dispatched(c) \/ ReadFails(c)
        BY <2>3, <3>3 DEF Receive, Dispatched, ReadFails
      <3>4. CASE Reply(c)
        BY <1>3, <2>4, <3>4 DEF Reply, Die
      <3>5. CASE WriteFrame(c)
        BY <2>5, <2>6, <3>5 DEF WriteFrame
      <3> QED
        BY <3>1, <3>2, <3>3, <3>4, <3>5 DEF LocalStep
    <2>8. PICK r : conn' = [conn EXCEPT ![c] = r] /\ Good(r)
      BY <2>7
    <2> QED
      BY <1>1, <2>8, SettledOne DEF Good, RInv
  <1> QED
    BY <1>2, <1>3

LEMMA SettledSend ==
  ASSUME RInv, NEW t \in Task, Push(t) \/ \E d \in Device : Lookup(t, d)
  PROVE  Settled'
  <1>1. conn \in [Conn -> Client] /\ held \in [Task -> Conn \cup {None}]
    BY DEF RInv, IInv, TypeOK
  <1>2. CASE \E d \in Device : Lookup(t, d)
    <2>1. PICK d \in Device : clients[d] # None /\ held' = [held EXCEPT ![t] = clients[d]]
      BY <1>2 DEF Lookup
    <2>2. conn[clients[d]].reader \notin {"none", "upgrading"} /\ conn' = conn
      BY <1>2, <2>1 DEF Lookup, RInv, IInv, Linked, RegisteredIsLive, Pumping
    <2> QED
      BY <1>1, <2>1, <2>2 DEF RInv, Settled
  <1>3. CASE Push(t) /\ ~conn[held[t]].open
    BY <1>1, <1>3 DEF Push, Die, RInv, Settled
  <1>4. CASE Push(t) /\ conn[held[t]].open
    <2> DEFINE c == held[t]
               q == Enqueue(c)
               r == [conn[c] EXCEPT !.queued = q]
    <2>1. /\ c \in Conn /\ conn' = [conn EXCEPT ![c] = r]
          /\ held' = [held EXCEPT ![t] = None]
          /\ conn[c].reader \notin {"none", "upgrading"}
          /\ conn[c] \in Client /\ conn[c].reader # "gone"
      BY <1>1, <1>4 DEF Push, RInv, Settled
    <2>2. r.reader = conn[c].reader
      <3> HIDE DEF q
      <3> QED
        BY <2>1 DEF Client
    <2>3. \A x \in Task : held'[x] \in {held[x], None}
      BY <1>1, <2>1
    <2> HIDE DEF r, c
    <2> QED
      BY <2>1, <2>2, <2>3, SettledOne DEF RInv
  <1> QED
    BY <1>2, <1>3, <1>4

LEMMA SettledConnect ==
  ASSUME RInv, NEW c \in Conn,
         \/ \E d \in Device : Upgrade(c, d)
         \/ UpgradeFails(c) \/ Collect(c) \/ Register(c) \/ Unregister(c)
  PROVE  Settled'
  <1>1. /\ conn \in [Conn -> Client] /\ conn[c] \in Client /\ held \in [Task -> Conn \cup {None}]
        /\ \A t \in Task : held[t] = c => conn[c].reader \notin {"none", "upgrading"}
    BY HubAssumption DEF RInv, IInv, TypeOK, Settled
  <1>2. held' = held
    BY DEF Upgrade, UpgradeFails, Collect, Register, Unregister, Die
  <1>3. CASE \E d \in Device : Upgrade(c, d)
    <2>1. PICK d \in Device :
            conn' = [conn EXCEPT ![c] = [conn[c] EXCEPT !.dev = d, !.reader = "upgrading",
                                                        !.open = TRUE, !.link = TRUE]]
      BY <1>3 DEF Upgrade
    <2> DEFINE r == [conn[c] EXCEPT !.dev = d, !.reader = "upgrading", !.open = TRUE, !.link = TRUE]
    <2>2. conn[c] = Free /\ conn[c].reader = "none" /\ conn[c].queued = 0
      BY <1>3, FreeIsClient DEF Upgrade
    <2>3. r.reader = "upgrading" /\ r.queued = 0
      BY <1>1, <2>2 DEF Client
    <2> HIDE DEF r
    <2> QED
      BY <1>1, <1>2, <2>1, <2>2, <2>3, SettledOne DEF r, RInv
  <1>4. CASE UpgradeFails(c) \/ Collect(c)
    <2>1. conn' = [conn EXCEPT ![c] = Free] /\ \A t \in Task : held[t] # c
      BY <1>1, <1>4 DEF UpgradeFails, Collect
    <2> QED
      BY <1>2, <2>1, FreeIsClient, SettledOne DEF RInv
  <1>5. CASE Register(c)
    <2> DEFINE d == conn[c].dev
               old == clients[d]
    <2>1. conn' = conn \/
          conn' = [x \in Conn |->
            CASE x = c -> [conn[x] EXCEPT !.reader = "reading", !.writer = "running"]
              [] x = old -> [conn[x] EXCEPT !.open = FALSE]
              [] OTHER -> conn[x]]
      BY <1>5 DEF Register, Die
    <2>2. ASSUME NEW x \in Conn
          PROVE  \/ conn'[x].reader = "reading"
                 \/ /\ conn'[x].reader = conn[x].reader /\ conn'[x].queued = conn[x].queued
                    /\ conn'[x].open => conn[x].open
      <3>1. conn[x] \in Client
        BY <1>1
      <3>2. /\ [conn[x] EXCEPT !.reader = "reading", !.writer = "running"].reader = "reading"
            /\ [conn[x] EXCEPT !.open = FALSE].reader = conn[x].reader
            /\ [conn[x] EXCEPT !.open = FALSE].queued = conn[x].queued
            /\ ~[conn[x] EXCEPT !.open = FALSE].open
        BY <3>1 DEF Client
      <3> HIDE DEF old, d
      <3> QED
        BY <2>1, <3>2
    <2>3. ASSUME NEW t \in Task, held'[t] # None
          PROVE  conn'[held'[t]].reader \notin {"none", "upgrading"}
      BY <1>1, <1>2, <2>2, <2>3 DEF RInv, Settled
    <2> QED
      BY <2>2, <2>3 DEF RInv, Settled
  <1>6. CASE Unregister(c)
    <2>1. conn[c].reader = "leaving" /\ Pumping(c) /\ conn[c].dev \in Device
          /\ (conn[c].open <=> clients[conn[c].dev] = c)
      BY <1>1, <1>6, ClientFields DEF Unregister, Pumping, RInv, IInv, Linked, OpenIffRegistered
    <2> DEFINE b == conn[c].open /\ clients[conn[c].dev] # c
               r == [Ended(c) EXCEPT !.open = b]
    <2>2. /\ Ended(c) \in Client /\ Ended(c).open = conn[c].open
      BY <1>1, ClientFields DEF Client, Ended
    <2>3. r.reader = "gone" /\ r.open = b /\ ~b
      <3> HIDE DEF b
      <3>1. r.reader = "gone" /\ r.open = b
        BY <1>1 DEF Client, Ended
      <3> QED
        BY <2>1, <3>1 DEF b
    <2>4. conn' = [conn EXCEPT ![c] = r]
      BY <1>6, <2>1, <2>2 DEF Unregister
    <2> HIDE DEF r, b
    <2> QED
      BY <1>2, <2>3, <2>4, SettledOne DEF RInv
  <1> QED
    BY <1>3, <1>4, <1>5, <1>6

LEMMA RInvStep == RInv /\ [Next]_vars => RInv'
  <1> SUFFICES ASSUME RInv, [Next]_vars PROVE Settled'
    BY NextIInv DEF RInv
  <1>1. CASE Restart
    BY <1>1, FreeIsClient DEF Restart, Settled
  <1>2. ASSUME UNCHANGED vars \/ \E d \in Device : Revoke(d) PROVE Settled'
    BY <1>2 DEF vars, Revoke, RInv, Settled
  <1> QED
    BY <1>1, <1>2, SettledLocal, SettledSend, SettledConnect
    DEF Next, ReadPump, WritePump, LocalStep

LEMMA Correspondence == Spec => []RInv
  <1>1. Init => RInv
    BY InitIInv, FreeIsClient DEF RInv, Settled, Init
  <1> QED
    BY <1>1, RInvStep, PTL DEF Spec

(* Seen through its map and its channels, the hub is the contract:          *)
(* SendToDevice and trySend take effect in one step, on the connection the  *)
(* device has at that moment, however connections displace each other       *)
(* between the lookup and the send.                                         *)
THEOREM HubKeepsContract == Spec => KeepsHubContract
  <1>1. Init => Contract!Init
    BY FreeIsClient DEF Init, Contract!Init, Admitted, Load, Past
  <1>2. RInv /\ [Next]_vars => [Contract!Next]_(Contract!vars)
    BY StepMaps
  <1> QED
    BY <1>1, <1>2, Correspondence, PTL DEF Spec, KeepsHubContract, Contract!Spec
-------------------------------------------------------------------------------
(* Liveness.  That its guards are all that a pump needs, and that a number  *)
(* which falls until something happens does not fall for ever, stand among  *)
(* the hypotheses: the provers have no ENABLED and no induction over        *)
(* temporal formulas.                                                       *)
CanRead(c) == ENABLED <<ReadPump(c)>>_vars
CanReturn(c) == ENABLED <<ClaimReturns(c)>>_vars
CanFail(c) == ENABLED <<ReadFails(c)>>_vars
CanWrite(c) == ENABLED <<Writes(c)>>_vars
GuardsSuffice ==
  \A c \in Conn : Running =>
    /\ conn[c].reader \in {"replying", "leaving"} => CanRead(c)
    /\ conn[c].reader = "reading" /\ ~conn[c].link => CanFail(c)
    /\ conn[c].reader = "dispatching" /\ conn[c].dev \notin Source => CanReturn(c)
    /\ /\ conn[c].writer = "running"
       /\ \/ conn[c].queued > 0 /\ conn[c].reader # "gone"
          \/ conn[c].queued = 0 /\ ~conn[c].open
       => CanWrite(c)

(* A connection whose socket is gone, by where its read pump is; and one    *)
(* whose channel is closed with n frames still in it.                       *)
Over(c) == ~Pumping(c) \/ Stuck(c)
Severed(c) == Pumping(c) /\ ~conn[c].link
Cut(c, l) == conn[c].reader = l /\ ~conn[c].link /\ ~Stuck(c)
Draining(c, n) ==
  /\ Pumping(c) /\ ~conn[c].open /\ ~Stuck(c)
  /\ conn[c].writer = "running" /\ conn[c].queued = n

QueueFalls(c, n) == Draining(c, n) ~> Draining(c, n - 1) \/ Severed(c) \/ Over(c)
QueueLands(c, n) == Draining(c, n) ~> Draining(c, 0) \/ Severed(c) \/ Over(c)
CountdownsEnd ==
  \A c \in Conn :
    (\A n \in Nat \ {0} : QueueFalls(c, n)) => \A n \in Nat : QueueLands(c, n)

(* What a displaced connection's end needs beside IInv: a write pump that   *)
(* has ended has closed the socket.                                         *)
WritersOK ==
  \A c \in Conn : Pumping(c) =>
    \/ conn[c].writer = "running"
    \/ conn[c].writer = "gone" /\ ~conn[c].link
LInv == IInv /\ WritersOK

(* What holds of a run that is scheduled fairly, and of every suffix of it. *)
Scheduled == Spec /\ []Fairness /\ []GuardsSuffice /\ []CountdownsEnd
Run == []LInv /\ [][Next]_vars /\ []Fairness /\ []GuardsSuffice /\ []CountdownsEnd

(* What a step may do to a connection: close its channel when its device    *)
(* reconnects, queue a frame for it if it is open, or be one of its own.    *)
LEMMA ConnMoves ==
  ASSUME IInv, [Next]_vars, NEW c \in Conn
  PROVE  \/ conn'[c] = conn[c]
         \/ conn'[c] = [conn[c] EXCEPT !.open = FALSE]
         \/ conn[c].open /\ conn'[c] = [conn[c] EXCEPT !.queued = Enqueue(c)]
         \/ LocalStep(c) \/ Unregister(c) \/ Restart
         \/ Register(c) /\ conn'[c].writer = "running"
         \/ \E d \in Device : Upgrade(c, d)
         \/ UpgradeFails(c) \/ Collect(c)
  <1> DEFINE Goal == \/ conn'[c] = conn[c]
                     \/ conn'[c] = [conn[c] EXCEPT !.open = FALSE]
                     \/ conn[c].open /\ conn'[c] = [conn[c] EXCEPT !.queued = Enqueue(c)]
                     \/ LocalStep(c) \/ Unregister(c) \/ Restart
                     \/ Register(c) /\ conn'[c].writer = "running"
                     \/ \E d \in Device : Upgrade(c, d)
                     \/ UpgradeFails(c) \/ Collect(c)
  <1>1. conn \in [Conn -> Client] /\ conn[c] \in Client
    BY DEF IInv, TypeOK
  <1>2. ASSUME NEW x \in Conn \ {c},
               \/ LocalStep(x) \/ Unregister(x) \/ UpgradeFails(x) \/ Collect(x)
               \/ \E d \in Device : Upgrade(x, d)
        PROVE  conn'[c] = conn[c]
    BY <1>1, <1>2 DEF LocalStep, PeerGone, Receive, Dispatched, Reply, ReadFails, WriteFrame,
       WriteFails, WriterEnds, Unregister, UpgradeFails, Collect, Upgrade, Die
  <1>3. ASSUME NEW x \in Conn, Register(x) PROVE Goal
    <2>1. CASE conn' = conn
      BY <2>1
    <2>2. CASE x = c /\ conn' # conn
      <3>1. conn'[c] = [conn[c] EXCEPT !.reader = "reading", !.writer = "running"]
        <4>1. clients[conn[c].dev] # c
          <5>1. conn[c].dev \in Device /\ conn[c].reader = "upgrading" /\ c # None
            BY <1>3, <2>2, HubAssumption DEF Register, IInv, Linked, UpgradingIsOpen
          <5> QED
            BY <5>1 DEF IInv, Linked, RegisteredIsLive, Pumping
        <4> QED
          BY <1>3, <2>2, <4>1 DEF Register, Die
      <3> QED
        BY <1>1, <1>3, <2>2, <3>1 DEF Client
    <2>3. CASE x # c /\ conn' # conn
      BY <1>1, <1>3, <2>3 DEF Register, Die
    <2> QED
      BY <2>1, <2>2, <2>3
  <1>4. ASSUME NEW t \in Task, Push(t) PROVE Goal
    <2>1. CASE conn' = conn
      BY <2>1
    <2>2. CASE conn' # conn
      BY <1>1, <1>4, <2>2 DEF Push, Die, IInv, TypeOK
    <2> QED
      BY <2>1, <2>2
  <1>5. ASSUME \/ \E t \in Task, d \in Device : Lookup(t, d)
               \/ \E d \in Device : Revoke(d)
               \/ UNCHANGED vars
        PROVE  conn' = conn
    BY <1>5 DEF Lookup, Revoke, vars
  <1> QED
    BY <1>2, <1>3, <1>4, <1>5 DEF Next, ReadPump, WritePump, LocalStep

(* The steps of a connection that is pumping.                               *)
LEMMA PumpingMoves ==
  ASSUME IInv, [Next]_vars, NEW c \in Conn, Pumping(c), Pumping(c)'
  PROVE  /\ \/ conn'[c] = conn[c]
            \/ conn'[c] = [conn[c] EXCEPT !.open = FALSE]
            \/ conn[c].open /\ conn'[c] = [conn[c] EXCEPT !.queued = Enqueue(c)]
            \/ LocalStep(c)
         /\ conn'[c].dev = conn[c].dev
         /\ ~conn[c].open => ~conn'[c].open
         /\ ~conn[c].link => ~conn'[c].link
  <1>1. conn \in [Conn -> Client] /\ conn[c] \in Client
    BY DEF IInv, TypeOK
  <1>2. ~(\/ Restart \/ Register(c) \/ UpgradeFails(c) \/ Collect(c)
          \/ \E d \in Device : Upgrade(c, d))
    BY <1>1, FreeIsClient DEF Restart, Register, UpgradeFails, Collect, Upgrade, Pumping
  <1>3. CASE Unregister(c)
    <2>1. conn' = conn
      <3> SUFFICES ASSUME conn' # conn PROVE FALSE
        OBVIOUS
      <3>1. conn'[c] = [Ended(c) EXCEPT !.open = @ /\ clients[conn[c].dev] # c]
        BY <1>1, <1>3 DEF Unregister, Die
      <3>2. conn'[c].reader = "gone"
        BY <1>1, <3>1 DEF Ended, Client
      <3> QED
        BY <3>2 DEF Pumping
    <2> QED
      BY <2>1
  <1>4. CASE LocalStep(c)
    BY <1>1, <1>4 DEF LocalStep, PeerGone, Receive, Dispatched, Reply, ReadFails, WriteFrame,
       WriteFails, WriterEnds, Die, Client
  <1>5. ASSUME \/ conn'[c] = conn[c]
               \/ conn'[c] = [conn[c] EXCEPT !.open = FALSE]
               \/ conn[c].open /\ conn'[c] = [conn[c] EXCEPT !.queued = Enqueue(c)]
        PROVE  /\ conn'[c].dev = conn[c].dev
               /\ ~conn[c].open => ~conn'[c].open
               /\ ~conn[c].link => ~conn'[c].link
    BY <1>1, <1>5 DEF Client
  <1> QED
    BY <1>2, <1>3, <1>4, <1>5, ConnMoves

LEMMA WritersStep == LInv /\ [Next]_vars => WritersOK'
  <1> SUFFICES ASSUME LInv, [Next]_vars, NEW c \in Conn, Pumping(c)'
               PROVE  \/ conn'[c].writer = "running"
                      \/ conn'[c].writer = "gone" /\ ~conn'[c].link
    BY DEF WritersOK
  <1>1. IInv /\ conn \in [Conn -> Client] /\ conn[c] \in Client
    BY DEF LInv, IInv, TypeOK
  <1>2. CASE Pumping(c)
    <2>1. CASE LocalStep(c)
      BY <1>1, <1>2, <2>1 DEF LInv, WritersOK, LocalStep, PeerGone, Receive, Dispatched, Reply,
         ReadFails, WriteFrame, WriteFails, WriterEnds, Die, Client
    <2>2. CASE ~LocalStep(c)
      BY <1>1, <1>2, <2>2, PumpingMoves DEF LInv, WritersOK, Client
    <2> QED
      BY <2>1, <2>2
  <1>3. CASE ~Pumping(c)
    <2>1. ~LocalStep(c)
      BY <1>1, <1>3 DEF LocalStep, PeerGone, Receive, Dispatched, Reply, ReadFails, WriteFrame,
         WriteFails, WriterEnds, Die, Client, Pumping
    <2>2. ~(Unregister(c) \/ Restart \/ UpgradeFails(c) \/ Collect(c) \/ \E d \in Device : Upgrade(c, d))
      <3>1. ~Unregister(c)
        BY <1>3 DEF Unregister, Pumping
      <3>2. ~(Restart \/ UpgradeFails(c) \/ Collect(c))
        BY <1>1, FreeIsClient DEF Restart, UpgradeFails, Collect, Pumping
      <3>3. ASSUME NEW d \in Device, Upgrade(c, d) PROVE FALSE
        <4>1. conn'[c].reader = "upgrading"
          BY <1>1, <3>3, FreeIsClient DEF Upgrade, Client
        <4> QED
          BY <4>1 DEF Pumping
      <3> QED
        BY <3>1, <3>2, <3>3
    <2>3. ~(\/ conn'[c] = conn[c] \/ conn'[c] = [conn[c] EXCEPT !.open = FALSE]
            \/ conn'[c] = [conn[c] EXCEPT !.queued = Enqueue(c)])
      BY <1>1, <1>3 DEF Pumping, Client
    <2> QED
      BY <1>1, <2>1, <2>2, <2>3, ConnMoves
  <1> QED
    BY <1>2, <1>3

LEMMA LiveInvariant == Spec => []LInv
  <1>1. Init => WritersOK
    BY FreeIsClient DEF Init, WritersOK, Pumping
  <1>2. LInv /\ [Next]_vars => LInv'
    BY NextIInv, WritersStep DEF LInv
  <1> QED
    BY <1>1, <1>2, InitIInv, PTL DEF LInv, Spec

LEMMA RunLasts == (Scheduled => Run) /\ (Run => []Run)
  BY LiveInvariant, PTL DEF Run, Scheduled, Spec

LEMMA PumpsServed ==
  ASSUME NEW c \in Conn
  PROVE  (Fairness => ReaderRuns(c)) /\ (Fairness => ClaimEnds(c)) /\ (Fairness => WriterRuns(c))
  BY DEF Fairness
-------------------------------------------------------------------------------
(* What may happen to the read pump of a connection whose socket is gone.   *)
LEMMA CutMoves ==
  ASSUME LInv, [Next]_vars, NEW c \in Conn,
         NEW l \in {"reading", "replying", "dispatching", "leaving"},
         Cut(c, l), ~Over(c)'
  PROVE  \/ Cut(c, l)'
         \/ l \in {"replying", "dispatching"} /\ Cut(c, "reading")'
         \/ /\ l = "reading"
            /\ \E k \in {"replying", "dispatching", "leaving"} : Cut(c, k)'
  <1>1. IInv /\ conn \in [Conn -> Client] /\ conn[c] \in Client
    BY DEF LInv, IInv, TypeOK
  <1>2. /\ Pumping(c) /\ Pumping(c)' /\ ~Stuck(c)'
        /\ conn[c].reader = l /\ conn[c].link = FALSE
    BY DEF Over, Cut, Pumping
  <1>3. ~conn'[c].link
    BY <1>1, <1>2, PumpingMoves
  <1>4. CASE LocalStep(c)
    <2>1. \/ conn'[c].reader = l
          \/ l \in {"replying", "dispatching"} /\ conn'[c].reader = "reading"
          \/ l = "reading" /\ conn'[c].reader \in {"replying", "dispatching", "leaving"}
      BY <1>1, <1>2, <1>4 DEF LocalStep, PeerGone, Receive, Dispatched, Reply, ReadFails,
         WriteFrame, WriteFails, WriterEnds, Die, Client
    <2> QED
      BY <1>2, <1>3, <2>1 DEF Cut
  <1>5. CASE ~LocalStep(c)
    <2>1. conn'[c].reader = l
      BY <1>1, <1>2, <1>5, PumpingMoves DEF Client
    <2> QED
      BY <1>2, <1>3, <2>1 DEF Cut
  <1> QED
    BY <1>4, <1>5

(* Its own step moves the read pump on.                                     *)
LEMMA CutProceeds ==
  ASSUME LInv, NEW c \in Conn, NEW l \in {"reading", "replying", "dispatching", "leaving"},
         Cut(c, l), ReadPump(c) \/ ClaimReturns(c)
  PROVE  ~Cut(c, l)'
  <1>1. conn \in [Conn -> Client] /\ conn[c] \in Client /\ conn[c].reader = l /\ Running
    BY DEF LInv, IInv, TypeOK, Cut, Stuck
  <1>2. ASSUME NEW reason \in Reason, Die(reason) PROVE ~Cut(c, l)'
    BY <1>2, HubAssumption DEF Die, Cut, Stuck, Running
  <1>3. CASE Reply(c)
    BY <1>1, <1>2, <1>3 DEF Reply, Reason, Cut, Client
  <1>4. CASE ReadFails(c) \/ ClaimReturns(c)
    BY <1>1, <1>4 DEF ReadFails, ClaimReturns, Dispatched, Cut, Client
  <1>5. CASE Unregister(c)
    <2>1. CASE Die("double_close")
      BY <1>2, <2>1 DEF Reason
    <2>2. CASE ~Die("double_close")
      <3>1. conn'[c] = [Ended(c) EXCEPT !.open = @ /\ clients[conn[c].dev] # c]
        BY <1>1, <1>5, <2>2 DEF Unregister
      <3>2. conn'[c].reader = "gone"
        BY <1>1, <3>1 DEF Ended, Client
      <3> QED
        BY <3>2 DEF Cut
    <2> QED
      BY <2>1, <2>2
  <1> QED
    BY <1>3, <1>4, <1>5 DEF ReadPump

LEMMA NextPump ==
  ASSUME NEW c \in Conn, ReadPump(c) \/ ClaimReturns(c) \/ Writes(c) PROVE [Next]_vars
  BY DEF Next, ClaimReturns, Writes, WritePump

LEMMA LeavingEnds == ASSUME NEW c \in Conn PROVE Run => (Cut(c, "leaving") ~> Over(c))
  <1>1. LInv /\ Cut(c, "leaving") /\ [Next]_vars => Cut(c, "leaving")' \/ Over(c)'
    BY CutMoves
  <1>2. LInv /\ Cut(c, "leaving") /\ <<ReadPump(c)>>_vars => Over(c)'
    BY CutMoves, CutProceeds, NextPump
  <1>3. Cut(c, "leaving") /\ GuardsSuffice => CanRead(c)
    BY DEF Cut, Stuck, GuardsSuffice
  <1> QED
    BY <1>1, <1>2, <1>3, PumpsServed, PTL DEF Run, CanRead, ReaderRuns

LEMMA ReplyingReads ==
  ASSUME NEW c \in Conn PROVE Run => (Cut(c, "replying") ~> Cut(c, "reading") \/ Over(c))
  <1>1. LInv /\ Cut(c, "replying") /\ [Next]_vars =>
          Cut(c, "replying")' \/ Cut(c, "reading")' \/ Over(c)'
    BY CutMoves
  <1>2. LInv /\ Cut(c, "replying") /\ <<ReadPump(c)>>_vars => Cut(c, "reading")' \/ Over(c)'
    BY CutMoves, CutProceeds, NextPump
  <1>3. Cut(c, "replying") /\ GuardsSuffice => CanRead(c)
    BY DEF Cut, Stuck, GuardsSuffice
  <1> QED
    BY <1>1, <1>2, <1>3, PumpsServed, PTL DEF Run, CanRead, ReaderRuns

LEMMA DispatchingReads ==
  ASSUME NEW c \in Conn PROVE Run => (Cut(c, "dispatching") ~> Cut(c, "reading") \/ Over(c))
  <1>1. LInv /\ Cut(c, "dispatching") /\ [Next]_vars =>
          Cut(c, "dispatching")' \/ Cut(c, "reading")' \/ Over(c)'
    BY CutMoves
  <1>2. LInv /\ Cut(c, "dispatching") /\ <<ClaimReturns(c)>>_vars => Cut(c, "reading")' \/ Over(c)'
    BY CutMoves, CutProceeds, NextPump
  <1>3. Cut(c, "dispatching") /\ GuardsSuffice => CanReturn(c)
    BY DEF Cut, Stuck, GuardsSuffice
  <1> QED
    BY <1>1, <1>2, <1>3, PumpsServed, PTL DEF Run, CanReturn, ClaimEnds

(* Between the frames it still finds in a buffer, the pump comes back to    *)
(* the read; that has strong fairness, and in the end it fails.             *)
LEMMA ReadingLeaves ==
  ASSUME NEW c \in Conn PROVE Run => (Cut(c, "reading") ~> Cut(c, "leaving") \/ Over(c))
  <1>1. LInv /\ Cut(c, "reading") /\ [Next]_vars =>
          \/ Cut(c, "reading")' \/ Cut(c, "replying")' \/ Cut(c, "dispatching")'
          \/ Cut(c, "leaving")' \/ Over(c)'
    BY CutMoves
  <1>2. LInv /\ Cut(c, "reading") /\ <<ReadFails(c)>>_vars => Cut(c, "leaving")' \/ Over(c)'
    <2> SUFFICES ASSUME LInv, Cut(c, "reading"), ReadFails(c), ~Over(c)'
                 PROVE  Cut(c, "leaving")'
      OBVIOUS
    <2>1. conn \in [Conn -> Client] /\ conn[c] \in Client /\ [Next]_vars
      BY DEF LInv, IInv, TypeOK, Next, ReadPump
    <2>2. conn'[c].reader = "leaving"
      BY <2>1 DEF ReadFails, Client
    <2> QED
      BY <2>1, <2>2, CutMoves DEF Cut
  <1>3. <<ReadFails(c)>>_vars => Cut(c, "reading")
    BY DEF ReadFails, Cut, Stuck
  <1>4. Cut(c, "reading") /\ GuardsSuffice => CanFail(c)
    BY DEF Cut, Stuck, GuardsSuffice
  <1> QED
    BY <1>1, <1>2, <1>3, <1>4, ReplyingReads, DispatchingReads, RunLasts, PumpsServed, PTL
    DEF Run, CanFail, ReaderRuns

(* A read pump whose socket is gone comes to its end.                       *)
LEMMA SeveredEnds == ASSUME NEW c \in Conn PROVE Run => (Severed(c) ~> Over(c))
  <1>1. Severed(c) => \/ Cut(c, "reading") \/ Cut(c, "replying") \/ Cut(c, "dispatching")
                      \/ Cut(c, "leaving") \/ Over(c)
    BY DEF Severed, Pumping, Cut, Over
  <1> QED
    BY <1>1, LeavingEnds, ReadingLeaves, ReplyingReads, DispatchingReads, RunLasts, PTL

(* A connection whose socket is gone does not stay in the map, for any      *)
(* number of devices and of connections that displace each other.           *)
THEOREM DeadConnectionsLeave == Scheduled => DeadIsUnregistered
  <1> DEFINE Leaves(d, c) == clients[d] = c /\ ~conn[c].link ~> clients[d] # c \/ Stuck(c)
  <1>1. ASSUME NEW d \in Device, NEW c \in Conn PROVE Run => Leaves(d, c)
    <2>1. LInv /\ clients[d] = c /\ ~conn[c].link => Severed(c)
      BY HubAssumption DEF LInv, IInv, Linked, RegisteredIsLive, Severed
    <2>2. LInv /\ Over(c) => clients[d] # c \/ Stuck(c)
      BY HubAssumption DEF LInv, IInv, Linked, RegisteredIsLive, Over
    <2>3. Run => (Severed(c) ~> Over(c))
      BY SeveredEnds
    <2> QED
      BY <2>1, <2>2, <2>3, RunLasts, PTL DEF Run
  <1>2. Run => \A d \in Device, c \in Conn : Leaves(d, c)
    <2> HIDE DEF Leaves
    <2> QED
      BY <1>1
  <1>3. (\A d \in Device, c \in Conn : Leaves(d, c)) => DeadIsUnregistered
    BY DEF DeadIsUnregistered
  <1> QED
    BY <1>2, <1>3, RunLasts, PTL
-------------------------------------------------------------------------------
(* A closed channel only drains: nobody queues to it, and it is not opened. *)
LEMMA DrainingMoves ==
  ASSUME LInv, [Next]_vars, NEW c \in Conn, NEW n \in Nat, Draining(c, n),
         ~Severed(c)', ~Over(c)'
  PROVE  \/ Draining(c, n)' /\ ~Writes(c)
         \/ n # 0 /\ Draining(c, n - 1)'
  <1>1. IInv /\ conn \in [Conn -> Client] /\ conn[c] \in Client
    BY DEF LInv, IInv, TypeOK
  <1>2. /\ Pumping(c) /\ Pumping(c)' /\ ~Stuck(c)' /\ Running
        /\ conn[c].open = FALSE /\ conn[c].writer = "running" /\ conn[c].queued = n
        /\ conn'[c].link
    BY DEF Over, Draining, Severed, Stuck
  <1>3. ~conn'[c].open
    BY <1>1, <1>2, PumpingMoves
  <1>4. ASSUME LocalStep(c)
        PROVE  /\ conn'[c].writer = "running"
               /\ \/ conn'[c].queued = n /\ ~Writes(c)
                  \/ n # 0 /\ conn'[c].queued = n - 1
    <2>1. ~(PeerGone(c) \/ WriteFails(c) \/ WriterEnds(c))
      BY <1>1, <1>2 DEF PeerGone, WriteFails, WriterEnds, Client
    <2>2. CASE WriteFrame(c)
      BY <1>1, <1>2, <2>2 DEF WriteFrame, Client
    <2>3. CASE ~WriteFrame(c)
      BY <1>1, <1>2, <1>4, <2>1, <2>3
      DEF LocalStep, Receive, Dispatched, Reply, ReadFails, Writes, Die, Client
    <2> QED
      BY <2>2, <2>3
  <1>5. ASSUME ~LocalStep(c)
        PROVE  conn'[c].writer = "running" /\ conn'[c].queued = n /\ ~Writes(c)
    BY <1>1, <1>2, <1>5, PumpingMoves DEF LocalStep, Writes, Client
  <1> QED
    BY <1>2, <1>3, <1>4, <1>5 DEF Draining

LEMMA QueueDrains == ASSUME NEW c \in Conn, NEW n \in Nat \ {0} PROVE Run => QueueFalls(c, n)
  <1>1. LInv /\ Draining(c, n) /\ [Next]_vars =>
          Draining(c, n)' \/ Draining(c, n - 1)' \/ Severed(c)' \/ Over(c)'
    BY DrainingMoves
  <1>2. LInv /\ Draining(c, n) /\ <<Writes(c)>>_vars =>
          Draining(c, n - 1)' \/ Severed(c)' \/ Over(c)'
    BY DrainingMoves, NextPump
  <1>3. Draining(c, n) /\ GuardsSuffice => CanWrite(c)
    BY DEF Draining, Pumping, Stuck, GuardsSuffice
  <1> QED
    BY <1>1, <1>2, <1>3, PumpsServed, PTL DEF Run, CanWrite, WriterRuns, QueueFalls

LEMMA DrainedCloses ==
  ASSUME NEW c \in Conn PROVE Run => (Draining(c, 0) ~> Severed(c) \/ Over(c))
  <1>1. LInv /\ Draining(c, 0) /\ [Next]_vars => Draining(c, 0)' \/ Severed(c)' \/ Over(c)'
    BY DrainingMoves
  <1>2. LInv /\ Draining(c, 0) /\ <<Writes(c)>>_vars => Severed(c)' \/ Over(c)'
    BY DrainingMoves, NextPump
  <1>3. Draining(c, 0) /\ GuardsSuffice => CanWrite(c)
    BY DEF Draining, Stuck, GuardsSuffice
  <1> QED
    BY <1>1, <1>2, <1>3, PumpsServed, PTL DEF Run, CanWrite, WriterRuns

(* A displaced client goes away altogether: its queue is drained or its     *)
(* socket fails on the way, and its read pump follows.                      *)
THEOREM DisplacedConnectionsEnd == Scheduled => DisplacedEnds
  <1> DEFINE Ends(c) == Pumping(c) /\ clients[conn[c].dev] # c ~> ~Pumping(c) \/ Stuck(c)
  <1>1. ASSUME NEW c \in Conn PROVE Run => Ends(c)
    <2>1. ASSUME NEW n \in Nat PROVE Run => (Draining(c, n) => <>Over(c))
      <3>1. ASSUME NEW k \in Nat \ {0} PROVE Run => QueueFalls(c, k)
        BY QueueDrains
      <3>2. Run => CountdownsEnd
        BY PTL DEF Run
      <3>3. Run => QueueLands(c, n)
        BY <3>1, <3>2 DEF CountdownsEnd
      <3>4. Run => (Draining(c, 0) ~> Severed(c) \/ Over(c))
        BY DrainedCloses
      <3>5. Run => (Severed(c) ~> Over(c))
        BY SeveredEnds
      <3> QED
        BY <3>3, <3>4, <3>5, RunLasts, PTL DEF QueueLands
    <2>2. LInv /\ Pumping(c) /\ clients[conn[c].dev] # c =>
            Severed(c) \/ Over(c) \/ \E n \in Nat : Draining(c, n)
      <3> SUFFICES ASSUME LInv, Pumping(c), clients[conn[c].dev] # c, ~Severed(c), ~Over(c)
                   PROVE  \E n \in Nat : Draining(c, n)
        OBVIOUS
      <3>1. conn[c] \in Client /\ ~conn[c].open /\ conn[c].writer = "running"
        BY DEF LInv, IInv, TypeOK, Linked, OpenIffRegistered, WritersOK, Severed
      <3>2. conn[c].queued \in Nat
        BY <3>1, HubAssumption DEF Client
      <3> QED
        BY <3>1, <3>2 DEF Draining, Over
    <2>3. Run => (Severed(c) => <>Over(c))
      <3>1. Run => (Severed(c) ~> Over(c))
        BY SeveredEnds
      <3> QED
        BY <3>1, PTL
    <2>4. Over(c) => <>Over(c)
      BY PTL
    <2>5. Run /\ LInv => (Pumping(c) /\ clients[conn[c].dev] # c => <>Over(c))
      BY <2>1, <2>2, <2>3, <2>4
    <2>6. Over(c) => ~Pumping(c) \/ Stuck(c)
      BY DEF Over
    <2> QED
      BY <2>5, <2>6, RunLasts, PTL DEF Run
  <1>2. Run => \A c \in Conn : Ends(c)
    <2> HIDE DEF Ends
    <2> QED
      BY <1>1
  <1>3. (\A c \in Conn : Ends(c)) => DisplacedEnds
    BY DEF DisplacedEnds
  <1> QED
    BY <1>2, <1>3, RunLasts, PTL
===============================================================================
