--------------------------------- MODULE Access ---------------------------------
(***************************************************************************)
(* internal/api over the devices and invite_tokens tables, dashboard       *)
(* sessions, and the life of the process that serves them.                 *)
(*                                                                         *)
(* A request passes a gate (requireSession or requireDeviceToken), then    *)
(* its handler runs one or two statements, then the response travels back. *)
(* Any other request, the signal that stops the process, its ten seconds   *)
(* of grace and its death can come between any two of these.  A refused    *)
(* request is answered and over in the step that refuses it.               *)
(*                                                                         *)
(* Sockets are the Hub's; what becomes of an OTP is the ClaimManager's.    *)
(***************************************************************************)
EXTENDS Integers, FiniteSets

CONSTANTS
  Device,      \* device ids that Register may mint
  Invite,      \* invite tokens that handleCreateInvite may mint
  Browser,     \* browsers the operator uses
  Request,     \* REST requests in flight at once
  SessionTTL,  \* SESSION_DURATION, in ticks
  Grace,       \* how long srv.Shutdown waits, in ticks
  Horizon,     \* bound on the clock
  Workloads,   \* sets of operations: clients confine themselves to one of them
  Faults,      \* "db": a statement may fail at any time
  None

Dashboard == {"logout", "list", "create", "delete", "invite", "qr"}
DeviceOp == {"push", "claim"}
Op == {"login"} \cup Dashboard \cup DeviceOp

(* Requests whose handler reads a body, for which no time limit is set. *)
WithBody == {"login", "create"} \cup DeviceOp

ASSUME AccessAssumption ==
  /\ SessionTTL \in Nat /\ Grace \in Nat /\ Horizon \in Nat
  /\ Workloads \subseteq SUBSET Op
  /\ Faults \subseteq {"db"}
  /\ IsFiniteSet(Request) /\ IsFiniteSet(Invite)
  /\ None \notin Int /\ None \notin Device /\ None \notin Invite
  /\ None \notin Browser /\ None \notin Op

Type == {"source", "destination"}
Time == 0..Horizon
Expiry == 0..(Horizon + SessionTTL)

VARIABLES
  now,       \* the wall clock
  phase,     \* of the process: see Phase
  deadline,  \* when srv.Shutdown gives up waiting, None if not signalled
  row,       \* the devices table: the type column, "absent" if no such row
  revoked,   \* the devices whose revoked column is set
  created,   \* the invite_tokens table: created_at, None if no such row
  session,   \* the session cookie each browser holds: its expiry, or None
  req,       \* the requests in flight
  load,      \* the workload of this behaviour
  verified,  \* history: when a cookie was last issued for an accepted TOTP code
  known,     \* history: devices whose token a 201 has disclosed
  gone,      \* history: devices whose DELETE was answered with 200
  shown      \* history: invites that a 201 has announced

vars == <<now, phase, deadline, row, revoked, created, session, req, load,
          verified, known, gone, shown>>
tables == <<row, revoked, created>>
process == <<now, phase, deadline, load>>
history == <<verified, known, gone, shown>>

(* "closed": the deferred stopJanitor and database.Close have run. *)
Phase == {"up", "draining", "closed", "down"}

(* "sent": on its way to the gate; "admitted": past it, in the handler;     *)
(* "stamped": handleCreateInvite has read the clock; "waiting": a push      *)
(* whose fan-out runs; "done": a response of success is on its way back.    *)
PC == {"idle", "sent", "admitted", "stamped", "waiting", "done"}

RequestState ==
  [op : Op \cup {None}, pc : PC,
   by : Browser \cup {None},
   cookie : Expiry \cup {None},   \* the cookie it carries
   dev : Device \cup {None},      \* its token's device, the id in its path, the new row
   inv : Invite \cup {None},      \* the invite minted or rendered
   at : Expiry \cup {None},       \* created_at or expiry, as computed by the handler
   view : SUBSET Device,          \* the devices a list shows as not revoked
   seen : SUBSET Device,          \* history: gone when it was sent
   told : SUBSET Invite]          \* history: shown when it was sent

Idle == [op |-> None, pc |-> "idle", by |-> None, cookie |-> None, dev |-> None,
         inv |-> None, at |-> None, view |-> {}, seen |-> {}, told |-> {}]

TypeOK ==
  /\ now \in Time
  /\ phase \in Phase
  /\ deadline \in Time \cup {None}
  /\ row \in [Device -> {"absent"} \cup Type]
  /\ revoked \in SUBSET Device
  /\ created \in [Invite -> Time \cup {None}]
  /\ session \in [Browser -> Expiry \cup {None}]
  /\ req \in [Request -> RequestState]
  /\ load \in Workloads
  /\ verified \in Time \cup {None}
  /\ known \in SUBSET Device
  /\ gone \in SUBSET Device
  /\ shown \in SUBSET Invite

Init ==
  /\ now = 0 /\ phase = "up" /\ deadline = None
  /\ row = [d \in Device |-> "absent"]
  /\ revoked = {}
  /\ created = [i \in Invite |-> None]
  /\ session = [b \in Browser |-> None]
  /\ req = [r \in Request |-> Idle]
  /\ load \in Workloads
  /\ verified = None
  /\ known = {} /\ gone = {} /\ shown = {}
--------------------------------------------------------------------------------
Return(r) == req' = [req EXCEPT ![r] = Idle]
Admit(r) == req' = [req EXCEPT ![r].pc = "admitted", ![r].cookie = None]
Done(r) == req' = [req EXCEPT ![r].pc = "done"]
InHandler(r, op) == req[r].pc = "admitted" /\ req[r].op = op

(* The statements on devices and invite_tokens that change a row.  Ids and  *)
(* tokens are fresh.                                                        *)
InsertDevice(d, type) == row[d] = "absent" /\ row' = [row EXCEPT ![d] = type]
RevokeDevice(d) == row[d] # "absent" /\ revoked' = revoked \cup {d}
AddInvite(i, at) == created[i] = None /\ created' = [created EXCEPT ![i] = at]

(* What ListDevices returns as not revoked. *)
ListedLive == {d \in Device : row[d] # "absent" /\ d \notin revoked}

(* database/sql fails every statement once the pool is closed. *)
StatementRuns == phase # "closed"
StatementFails == phase = "closed" \/ "db" \in Faults

(* Ids do not run out: a request that will mint one is sent only if there   *)
(* is one left for it.                                                      *)
Minting(op) == {r \in Request : req[r].op = op /\ req[r].pc # "done"}
EnoughIds(op) ==
  /\ op = "create" => Cardinality(Minting(op)) < Cardinality({d \in Device : row[d] = "absent"})
  /\ op = "invite" => Cardinality(Minting(op)) < Cardinality({i \in Invite : created[i] = None})

(* A client sends a request: the dashboard with the cookie its browser      *)
(* holds, a device with the token it was given.                             *)
SendDashboard(r, b, op, d) ==
  /\ phase = "up"
  /\ req[r] = Idle
  /\ op \in load \cap ({"login"} \cup Dashboard)
  /\ (d # None) <=> (op = "delete")
  /\ EnoughIds(op)
  /\ req' = [req EXCEPT ![r] =
       [Idle EXCEPT !.op = op, !.pc = "sent", !.by = b, !.dev = d,
                    !.cookie = IF op \in Dashboard THEN session[b] ELSE None,
                    !.seen = IF op = "list" THEN gone ELSE {},
                    !.told = IF op = "qr" THEN shown ELSE {}]]
  /\ UNCHANGED <<process, tables, session, history>>

SendDevice(r, op, d) ==
  /\ phase = "up"
  /\ req[r] = Idle
  /\ op \in load
  /\ d \in known
  /\ req' = [req EXCEPT ![r] = [Idle EXCEPT !.op = op, !.pc = "sent", !.dev = d,
                                            !.seen = gone \cap {d}]]
  /\ UNCHANGED <<process, tables, session, history>>
--------------------------------------------------------------------------------
(* validate: a missing cookie is refused and so is one past its expiry.     *)
(* Mutant: only the signature is looked at.                                 *)
SignedSession(c) == c # None
ValidSession(c) == c # None /\ now <= c

RequireSession(r) ==
  /\ req[r].pc = "sent"
  /\ req[r].op \in Dashboard
  /\ IF ValidSession(req[r].cookie) THEN Admit(r) ELSE Return(r)
  /\ UNCHANGED <<process, tables, session, history>>

(* A row with this token.  RevokeDevice leaves the token where it is. *)
DeviceByToken(d) == row[d] # "absent"

(* Registry.Authenticate.  Mutant: it does not look at the revoked column. *)
AuthenticateAny(d) == DeviceByToken(d)
Authenticate(d) == DeviceByToken(d) /\ d \notin revoked

RequireDeviceToken(r) ==
  /\ req[r].pc = "sent"
  /\ req[r].op \in DeviceOp
  /\ \/ /\ StatementRuns
        /\ Authenticate(req[r].dev)
        /\ Admit(r)
     \/ /\ StatementFails \/ ~Authenticate(req[r].dev)
        /\ Return(r)
  /\ UNCHANGED <<process, tables, session, history>>

(* The login route has no gate. *)
NoGate(r) ==
  /\ req[r].pc = "sent"
  /\ req[r].op = "login"
  /\ Admit(r)
  /\ UNCHANGED <<process, tables, session, history>>

(* The refusals of the four handlers that read a body: 400 if it is         *)
(* malformed or lacks a field, 401 for a wrong code, 403 if the device is   *)
(* not of the type the endpoint is for.                                     *)
Refusal(r, op) ==
  /\ InHandler(r, op)
  /\ Return(r)
  /\ UNCHANGED <<process, tables, session, history>>

LoginRefused(r) == Refusal(r, "login")
CreateRefused(r) == Refusal(r, "create")
PushRefused(r) == Refusal(r, "push")
ClaimRefused(r) == Refusal(r, "claim")
Refuse(r) == LoginRefused(r) \/ CreateRefused(r) \/ PushRefused(r) \/ ClaimRefused(r)
--------------------------------------------------------------------------------
(* The expiry IssueCookie signs.  Mutant: it is off by the unit.            *)
ExpiryInMillis == now + 1000 * SessionTTL + 1
CookieExpiry == now + SessionTTL

(* IssueCookie for a code that Verify has accepted.  Verify reads the clock *)
(* for itself, somewhat earlier, and decides no more than whether this step *)
(* is taken or LoginRefused; the cookie is as old as this step.             *)
HandleLogin(r) ==
  /\ InHandler(r, "login")
  /\ req' = [req EXCEPT ![r].pc = "done", ![r].at = CookieExpiry]
  /\ verified' = now
  /\ UNCHANGED <<process, tables, session, known, gone, shown>>

(* Nothing but the browser's own copy of the cookie is cleared. *)
HandleLogout(r) ==
  /\ InHandler(r, "logout")
  /\ Done(r)
  /\ UNCHANGED <<process, tables, session, history>>

HandleListDevices(r) ==
  /\ InHandler(r, "list")
  /\ \/ /\ StatementRuns
        /\ req' = [req EXCEPT ![r].pc = "done", ![r].view = ListedLive]
     \/ StatementFails /\ Return(r)
  /\ UNCHANGED <<process, tables, session, history>>

(* Mutant: Register drops the error of the INSERT. *)
CreateUnchecked(r) ==
  /\ InHandler(r, "create")
  /\ \E d \in Device, type \in Type :
       /\ row[d] = "absent"
       /\ \/ StatementRuns /\ row' = [row EXCEPT ![d] = type]
          \/ StatementFails /\ UNCHANGED row
       /\ req' = [req EXCEPT ![r].pc = "done", ![r].dev = d]
  /\ UNCHANGED <<process, revoked, created, session, history>>

HandleCreateDevice(r) ==
  /\ InHandler(r, "create")
  /\ \/ /\ StatementRuns
        /\ \E d \in Device, type \in Type :
             /\ InsertDevice(d, type)
             /\ req' = [req EXCEPT ![r].pc = "done", ![r].dev = d]
     \/ StatementFails /\ Return(r) /\ UNCHANGED row
  /\ UNCHANGED <<process, revoked, created, session, history>>

(* An UPDATE that matches no row is a 404. *)
HandleDeleteDevice(r) ==
  LET d == req[r].dev IN
  /\ InHandler(r, "delete")
  /\ \/ StatementRuns /\ RevokeDevice(d) /\ Done(r)
     \/ /\ StatementFails \/ row[d] = "absent"
        /\ Return(r)
        /\ UNCHANGED revoked
  /\ UNCHANGED <<process, row, created, session, history>>

(* handleCreateInvite reads the clock first and inserts later, so rows do   *)
(* not arrive in the order of their time stamps.                            *)
StampInvite(r) ==
  /\ InHandler(r, "invite")
  /\ req' = [req EXCEPT ![r].pc = "stamped", ![r].at = now]
  /\ UNCHANGED <<process, tables, session, history>>

InsertInvite(r) ==
  /\ req[r].pc = "stamped"
  /\ \/ /\ StatementRuns
        /\ \E i \in Invite :
             /\ AddInvite(i, req[r].at)
             /\ req' = [req EXCEPT ![r].pc = "done", ![r].inv = i]
     \/ StatementFails /\ Return(r) /\ UNCHANGED created
  /\ UNCHANGED <<process, row, revoked, session, history>>

(* ORDER BY created_at DESC LIMIT 1; rows with the same stamp come in any   *)
(* order, and no column but created_at is looked at.  Mutant: ascending.    *)
EarliestInvite(i) ==
  created[i] # None /\ \A j \in Invite : created[j] # None => created[i] <= created[j]
LatestInvite(i) ==
  created[i] # None /\ \A j \in Invite : created[j] # None => created[j] <= created[i]

(* Mutant: the handler waits for an invite to exist. *)
QRWaiting(r) ==
  /\ InHandler(r, "qr")
  /\ StatementRuns
  /\ \E i \in Invite :
       /\ LatestInvite(i)
       /\ req' = [req EXCEPT ![r].pc = "done", ![r].inv = i]
  /\ UNCHANGED <<process, tables, session, history>>

HandleInviteQR(r) ==
  /\ InHandler(r, "qr")
  /\ \/ /\ StatementRuns
        /\ \E i \in Invite :
             /\ LatestInvite(i)
             /\ req' = [req EXCEPT ![r].pc = "done", ![r].inv = i]
     \/ /\ StatementFails \/ \A i \in Invite : created[i] = None
        /\ Return(r)
  /\ UNCHANGED <<process, tables, session, history>>

(* Ingest stores the OTP and waits for the fan-out.  The handler works for  *)
(* the device as it was when the gate looked it up.                         *)
HandleOTPPush(r) ==
  /\ InHandler(r, "push")
  /\ row[req[r].dev] = "source"
  /\ \/ StatementRuns /\ req' = [req EXCEPT ![r].pc = "waiting"]
     \/ StatementFails /\ Return(r)
  /\ UNCHANGED <<process, tables, session, history>>

FanOutEnds(r) ==
  /\ req[r].pc = "waiting"
  /\ Done(r)
  /\ UNCHANGED <<process, tables, session, history>>

(* 202 whatever becomes of the claim: its result goes over the socket.  If  *)
(* the sending of a result panics, net/http ends the request instead.       *)
HandleOTPClaim(r) ==
  /\ InHandler(r, "claim")
  /\ row[req[r].dev] = "destination"
  /\ Done(r) \/ Return(r)
  /\ UNCHANGED <<process, tables, session, history>>

(* The response reaches the client, or the client has gone away. *)
Respond(r) ==
  LET q == req[r] IN
  /\ q.pc = "done"
  /\ Return(r)
  /\ \/ /\ session' = CASE q.op = "login" -> [session EXCEPT ![q.by] = q.at]
                        [] q.op = "logout" -> [session EXCEPT ![q.by] = None]
                        [] OTHER -> session
        /\ known' = IF q.op = "create" THEN known \cup {q.dev} ELSE known
        /\ gone' = IF q.op = "delete" THEN gone \cup {q.dev} ELSE gone
        /\ shown' = IF q.op = "invite" THEN shown \cup {q.inv} ELSE shown
     \/ UNCHANGED <<session, known, gone, shown>>
  /\ UNCHANGED <<process, tables, verified>>
--------------------------------------------------------------------------------
AllAnswered == \A r \in Request : req[r] = Idle

(* SIGINT or SIGTERM: the listener is closed at once. *)
Signal ==
  /\ phase = "up"
  /\ now + Grace <= Horizon
  /\ phase' = "draining"
  /\ deadline' = now + Grace
  /\ UNCHANGED <<now, load, tables, session, req, history>>

(* srv.Shutdown closes the idle connections, one on which a request is on   *)
(* its way among them: only requests it has begun to read are waited for.   *)
CutIdle(r) ==
  /\ phase = "draining"
  /\ req[r].pc = "sent"
  /\ Return(r)
  /\ UNCHANGED <<process, tables, session, history>>

(* srv.Shutdown returns: no request is left, or the context has expired.    *)
(* Mutant: a context without timeout.                                       *)
WaitForAll == AllAnswered
ShutdownReturns == AllAnswered \/ now >= deadline

(* The deferred calls. *)
Close ==
  /\ phase = "draining"
  /\ ShutdownReturns
  /\ phase' = "closed"
  /\ UNCHANGED <<now, load, deadline, tables, session, req, history>>

(* ListenAndServe fails: run returns at once and the same calls follow. *)
ServeFails ==
  /\ phase = "up"
  /\ phase' = "closed"
  /\ UNCHANGED <<now, load, deadline, tables, session, req, history>>

(* Handlers that still run end with the process, unanswered. *)
Die ==
  /\ phase' = "down"
  /\ req' = [r \in Request |-> Idle]
  /\ deadline' = None
  /\ UNCHANGED <<now, load, tables, session, history>>

Exit == phase = "closed" /\ Die
Kill == phase # "down" /\ Die

(* The container is started again on the same database; the signing key is  *)
(* the same, so the cookies are still good.                                 *)
Start ==
  /\ phase = "down"
  /\ phase' = "up"
  /\ UNCHANGED <<now, load, deadline, tables, session, req, history>>

Tick ==
  /\ now < Horizon
  /\ now' = now + 1
  /\ UNCHANGED <<phase, load, deadline, tables, session, req, history>>

Gate(r) == RequireSession(r) \/ RequireDeviceToken(r) \/ NoGate(r)

Handle(r) ==
  \/ HandleLogin(r) \/ HandleLogout(r) \/ HandleListDevices(r)
  \/ HandleCreateDevice(r) \/ HandleDeleteDevice(r)
  \/ StampInvite(r) \/ InsertInvite(r) \/ HandleInviteQR(r)
  \/ HandleOTPPush(r) \/ HandleOTPClaim(r)

Next ==
  \/ \E r \in Request, b \in Browser, op \in Op, d \in Device \cup {None} :
       SendDashboard(r, b, op, d)
  \/ \E r \in Request, op \in DeviceOp, d \in Device : SendDevice(r, op, d)
  \/ \E r \in Request :
       Gate(r) \/ Refuse(r) \/ Handle(r) \/ FanOutEnds(r) \/ Respond(r) \/ CutIdle(r)
  \/ Signal \/ ServeFails \/ Close \/ Exit \/ Kill \/ Start
  \/ Tick

Spec == Init /\ [][Next]_vars

(* A handler runs once it has what it needs from its client: one that reads *)
(* a body may be kept waiting for it, and one that pushes for the fan-out,  *)
(* so nothing is asked of those two.  The gate reads the header only, and   *)
(* ReadHeaderTimeout bounds that.                                           *)
Proceeds(r) ==
  \/ Gate(r)
  \/ req[r].op \notin WithBody /\ Handle(r)
  \/ Respond(r)

Served(r) == WF_vars(Proceeds(r))
StopCompletes == WF_vars(Close) /\ WF_vars(Exit)
TimePasses == WF_vars(Tick)
Fairness == (\A r \in Request : Served(r)) /\ StopCompletes /\ TimePasses

FairSpec == Spec /\ Fairness
--------------------------------------------------------------------------------
(* What a response has told a client is in the database and stays there,    *)
(* whatever statement fails, whenever the process is stopped, and however   *)
(* long the handler outlives the closing of the database: a disclosed       *)
(* token's device exists, a device reported deleted is revoked, an          *)
(* announced invite is stored.                                              *)
AnsweredIsStored ==
  /\ \A d \in known : row[d] # "absent"
  /\ gone \subseteq revoked
  /\ \A i \in shown : created[i] # None

(* handleDeleteDevice revokes "immediately": no request sent after a DELETE *)
(* was answered gets past the gate with that device's token, and no list    *)
(* sent after it shows the device as live, restarts included.  A request    *)
(* that was already past the gate may still act.                            *)
RevokedIsShut ==
  \A r \in Request :
    /\ req[r].op \in DeviceOp /\ req[r].pc # "sent" => req[r].dev \notin req[r].seen
    /\ req[r].view \cap req[r].seen = {}

(* handleInviteQR renders an invite at least as new as every one announced  *)
(* before it was asked, although inserts overtake each other between the    *)
(* clock and the table.                                                     *)
QRNotStale ==
  \A r \in Request :
    req[r].op = "qr" /\ req[r].pc = "done" =>
      \A i \in req[r].told : created[i] <= created[req[r].inv]

(* requireSession lets a dashboard request in only while the last login, a  *)
(* cookie issued for an accepted TOTP code, is no older than the session    *)
(* duration, whichever cookie the request carries and however often the     *)
(* process was restarted in between.                                        *)
LoginIsRecent ==
  [][\A r \in Request :
       req[r].op \in Dashboard /\ req[r].pc = "sent" /\ req'[r].pc = "admitted"
         => verified # None /\ now <= verified + SessionTTL]_vars

(* A signalled process exits, though a handler may be waiting for a body or *)
(* a push service that never comes.                                         *)
SignalledStops == phase = "draining" ~> phase = "down"

(* Every request ends, but for one that waits for its own body or for the   *)
(* fan-out.                                                                 *)
RequestEnds ==
  \A r \in Request :
    req[r].pc = "sent" ~> req[r].pc \in {"idle", "waiting"}
                          \/ (req[r].pc = "admitted" /\ req[r].op \in WithBody)
================================================================================
