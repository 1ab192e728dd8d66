------------------------------ MODULE AccessProofs ------------------------------
(***************************************************************************)
(* Proofs about Access, for every set of devices, invites, browsers and    *)
(* requests, every workload, session duration and grace: its safety        *)
(* properties, and that requests and the stop end under a fair schedule.   *)
(***************************************************************************)
EXTENDS Access, FiniteSetTheorems, WellFoundedInduction, TLAPS

(* No cookie is good for longer than a session from the last accepted code. *)
Bounded(cookie, v) == cookie # None => v # None /\ cookie <= v + SessionTTL

(* What a response on its way back is about to tell its client is true.     *)
DoneOK(r) ==
  req[r].pc = "done" =>
    /\ req[r].op = "login" => req[r].at # None /\ Bounded(req[r].at, verified)
    /\ req[r].op = "create" => req[r].dev \in Device /\ row[req[r].dev] # "absent"
    /\ req[r].op = "delete" => req[r].dev \in revoked
    /\ req[r].op = "invite" => req[r].inv \in Invite /\ created[req[r].inv] # None
    /\ req[r].op = "qr" =>
         /\ req[r].inv \in Invite /\ created[req[r].inv] # None
         /\ \A i \in req[r].told : created[i] <= created[req[r].inv]

(* What a request carries, by its operation. *)
CarriesOK(r) ==
  /\ req[r].pc # "idle" /\ req[r].op \in {"login"} \cup Dashboard => req[r].by \in Browser
  /\ req[r].op \in {"delete"} \cup DeviceOp => req[r].dev \in Device
  /\ req[r].pc = "stamped" => req[r].op = "invite" /\ req[r].at \in Time
  /\ req[r].pc = "waiting" => req[r].op = "push"
  /\ Bounded(req[r].cookie, verified)
  /\ req[r].seen \subseteq gone
  /\ req[r].told \subseteq shown

(* RevokedIsShut for one request. *)
ShutOK(r) ==
  /\ req[r].op \in DeviceOp /\ req[r].pc # "sent" => req[r].dev \notin req[r].seen
  /\ req[r].view \cap req[r].seen = {}

RequestsOK == \A r \in Request : DoneOK(r) /\ CarriesOK(r) /\ ShutOK(r)

SessionsOK ==
  /\ verified # None => verified <= now
  /\ \A b \in Browser : Bounded(session[b], verified)

(* A stop has a deadline as soon as it is signalled. *)
StopOK == phase = "draining" => deadline # None

IInv == TypeOK /\ RequestsOK /\ SessionsOK /\ AnsweredIsStored /\ StopOK

LEMMA IdleType == Idle \in RequestState
  BY DEF Idle, RequestState, PC

LEMMA InitIInv == Init => IInv
<1> SUFFICES ASSUME Init PROVE IInv
    OBVIOUS
<1> USE AccessAssumption DEF AccessAssumption, Init
<1>1. TypeOK
  BY IdleType DEF TypeOK, Time, Phase, Type
<1>2. RequestsOK
  BY DEF RequestsOK, DoneOK, CarriesOK, ShutOK, Bounded, Idle, DeviceOp, Dashboard, Op
<1>3. SessionsOK /\ AnsweredIsStored /\ StopOK
  BY DEF SessionsOK, AnsweredIsStored, StopOK, Bounded
<1> QED
  BY <1>1, <1>2, <1>3 DEF IInv
--------------------------------------------------------------------------------
(* A record stays one when some of its fields are written. *)
LEMMA FieldWrites ==
  ASSUME NEW q \in RequestState, NEW p \in PC
  PROVE  /\ [q EXCEPT !.pc = p] \in RequestState
         /\ [q EXCEPT !.pc = p, !.cookie = None] \in RequestState
         /\ \A S \in SUBSET Device : [q EXCEPT !.pc = p, !.view = S] \in RequestState
         /\ \A t \in Expiry \cup {None} : [q EXCEPT !.pc = p, !.at = t] \in RequestState
         /\ \A d \in Device \cup {None} : [q EXCEPT !.pc = p, !.dev = d] \in RequestState
         /\ \A i \in Invite \cup {None} : [q EXCEPT !.pc = p, !.inv = i] \in RequestState
  BY DEF RequestState

(* The ways an action writes the record of one request. *)
LEMMA RequestWrites ==
  ASSUME req \in [Request -> RequestState], NEW r \in Request
  PROVE  /\ Return(r) => req' \in [Request -> RequestState]
         /\ Admit(r) => req' \in [Request -> RequestState]
         /\ Done(r) => req' \in [Request -> RequestState]
         /\ \A S \in SUBSET Device :
              req' = [req EXCEPT ![r].pc = "done", ![r].view = S]
                => req' \in [Request -> RequestState]
         /\ \A p \in PC, t \in Expiry :
              req' = [req EXCEPT ![r].pc = p, ![r].at = t]
                => req' \in [Request -> RequestState]
         /\ \A d \in Device :
              req' = [req EXCEPT ![r].pc = "done", ![r].dev = d]
                => req' \in [Request -> RequestState]
         /\ \A i \in Invite :
              req' = [req EXCEPT ![r].pc = "done", ![r].inv = i]
                => req' \in [Request -> RequestState]
<1>1. Return(r) => req' \in [Request -> RequestState]
  BY IdleType DEF Return
<1>2. Admit(r) => req' \in [Request -> RequestState]
  <2>1. [req[r] EXCEPT !.pc = "admitted", !.cookie = None] \in RequestState
    BY FieldWrites DEF PC
  <2> QED
    BY <2>1 DEF Admit
<1>3. Done(r) => req' \in [Request -> RequestState]
  <2>1. [req[r] EXCEPT !.pc = "done"] \in RequestState
    BY FieldWrites DEF PC
  <2> QED
    BY <2>1 DEF Done
<1>4. ASSUME NEW S \in SUBSET Device, req' = [req EXCEPT ![r].pc = "done", ![r].view = S]
      PROVE  req' \in [Request -> RequestState]
  <2>1. [req[r] EXCEPT !.pc = "done", !.view = S] \in RequestState
    BY FieldWrites DEF PC
  <2> QED
    BY <1>4, <2>1
<1>5. ASSUME NEW p \in PC, NEW t \in Expiry, req' = [req EXCEPT ![r].pc = p, ![r].at = t]
      PROVE  req' \in [Request -> RequestState]
  <2>1. [req[r] EXCEPT !.pc = p, !.at = t] \in RequestState
    BY FieldWrites
  <2> QED
    BY <1>5, <2>1
<1>6. ASSUME NEW d \in Device, req' = [req EXCEPT ![r].pc = "done", ![r].dev = d]
      PROVE  req' \in [Request -> RequestState]
  <2>1. [req[r] EXCEPT !.pc = "done", !.dev = d] \in RequestState
    BY FieldWrites DEF PC
  <2> QED
    BY <1>6, <2>1
<1>7. ASSUME NEW i \in Invite, req' = [req EXCEPT ![r].pc = "done", ![r].inv = i]
      PROVE  req' \in [Request -> RequestState]
  <2>1. [req[r] EXCEPT !.pc = "done", !.inv = i] \in RequestState
    BY FieldWrites DEF PC
  <2> QED
    BY <1>7, <2>1
<1> QED
  BY <1>1, <1>2, <1>3, <1>4, <1>5, <1>6, <1>7

(* Which actions leave the tables, the cookies and the histories alone.     *)
Silent(r) ==
  \/ Gate(r) \/ Refuse(r) \/ HandleLogout(r) \/ HandleListDevices(r) \/ StampInvite(r)
  \/ HandleInviteQR(r) \/ HandleOTPPush(r) \/ FanOutEnds(r) \/ HandleOTPClaim(r) \/ CutIdle(r)

(* A request that a handler refuses, or a shutdown cuts, is just over.      *)
LEMMA Dismissed ==
  ASSUME NEW r \in Request, Refuse(r) \/ CutIdle(r)
  PROVE  /\ Return(r) /\ req[r].pc \in {"admitted", "sent"}
         /\ UNCHANGED <<process, tables, session, history>>
  BY DEF Refuse, LoginRefused, CreateRefused, PushRefused, ClaimRefused, Refusal, InHandler, CutIdle

Lifecycle == Signal \/ ServeFails \/ Close \/ Exit \/ Kill \/ Start \/ Tick

LEMMA SilentStep ==
  ASSUME NEW r \in Request, Silent(r)
  PROVE  UNCHANGED <<process, tables, session, history>>
  BY Dismissed
  DEF Silent, Gate, RequireSession, RequireDeviceToken, NoGate, HandleLogout,
         HandleListDevices, ListedLive, StampInvite, HandleInviteQR, HandleOTPPush, FanOutEnds,
         HandleOTPClaim

LEMMA LifecycleStep == Lifecycle => UNCHANGED <<load, tables, session, history>>
  BY DEF Lifecycle, Signal, ServeFails, Close, Exit, Kill, Start, Tick, Die

LEMMA Steps ==
  ASSUME Next
  PROVE  \/ \E r \in Request : \/ Silent(r) \/ HandleLogin(r) \/ HandleCreateDevice(r)
                               \/ HandleDeleteDevice(r) \/ InsertInvite(r) \/ Respond(r)
         \/ \E r \in Request, b \in Browser, op \in Op, d \in Device \cup {None} :
              SendDashboard(r, b, op, d)
         \/ \E r \in Request, op \in DeviceOp, d \in Device : SendDevice(r, op, d)
         \/ Lifecycle
  BY DEF Next, Handle, Silent, Lifecycle

(* Nothing that is stored, told or accepted is ever taken back. *)
LEMMA Monotone ==
  ASSUME IInv, Next
  PROVE  /\ now' \in Time /\ now <= now'
         /\ verified' \in Time \cup {None}
         /\ verified # None => verified' # None /\ verified <= verified'
         /\ gone \subseteq gone' /\ shown \subseteq shown' /\ revoked \subseteq revoked'
         /\ \A d \in Device : row[d] # "absent" => row'[d] = row[d]
         /\ \A i \in Invite : created[i] # None => created'[i] = created[i]
<1> USE AccessAssumption DEF AccessAssumption, IInv, TypeOK, Time
<1>1. ASSUME NEW r \in Request, Silent(r)
      PROVE  UNCHANGED <<now, verified, gone, shown, revoked, row, created>>
  BY <1>1, SilentStep DEF process, tables, history
<1>2. ASSUME NEW r \in Request, HandleLogin(r)
      PROVE  UNCHANGED <<now, gone, shown, revoked, row, created>> /\ verified' = now
  BY <1>2 DEF HandleLogin, process, tables
<1>3. ASSUME NEW r \in Request, HandleCreateDevice(r)
      PROVE  /\ UNCHANGED <<now, verified, gone, shown, revoked, created>>
             /\ \A d \in Device : row[d] # "absent" => row'[d] = row[d]
  BY <1>3 DEF HandleCreateDevice, InsertDevice, process, history
<1>4. ASSUME NEW r \in Request, HandleDeleteDevice(r)
      PROVE  /\ UNCHANGED <<now, verified, gone, shown, row, created>>
             /\ revoked \subseteq revoked'
  BY <1>4 DEF HandleDeleteDevice, RevokeDevice, process, history
<1>5. ASSUME NEW r \in Request, InsertInvite(r)
      PROVE  /\ UNCHANGED <<now, verified, gone, shown, row, revoked>>
             /\ \A i \in Invite : created[i] # None => created'[i] = created[i]
  BY <1>5 DEF InsertInvite, AddInvite, process, history
<1>6. ASSUME NEW r \in Request, Respond(r)
      PROVE  /\ UNCHANGED <<now, verified, row, revoked, created>>
             /\ gone \subseteq gone' /\ shown \subseteq shown'
  BY <1>6 DEF Respond, process, tables
<1>7. ASSUME \/ \E r \in Request, b \in Browser, op \in Op, d \in Device \cup {None} :
                   SendDashboard(r, b, op, d)
             \/ \E r \in Request, op \in DeviceOp, d \in Device : SendDevice(r, op, d)
      PROVE  UNCHANGED <<now, verified, gone, shown, revoked, row, created>>
  BY <1>7 DEF SendDashboard, SendDevice, process, tables, history
<1>8. ASSUME Lifecycle
      PROVE  /\ UNCHANGED <<verified, gone, shown, revoked, row, created>>
             /\ now' \in Time /\ now <= now'
  <2>1. now' = now \/ (now < Horizon /\ now' = now + 1)
    BY <1>8 DEF Lifecycle, Signal, ServeFails, Close, Exit, Kill, Start, Tick, Die
  <2> QED
    BY <1>8, <2>1, LifecycleStep DEF tables, history
<1>9. verified # None => verified <= now
  BY DEF SessionsOK
<1> QED
  BY <1>1, <1>2, <1>3, <1>4, <1>5, <1>6, <1>7, <1>8, <1>9, Steps

LEMMA LaterBound ==
  ASSUME NEW k \in Int, NEW v \in Int, NEW w \in Int, NEW t \in Int, k <= v + t, v <= w
  PROVE  k <= w + t
  OBVIOUS

(* A cookie that was bounded stays so. *)
LEMMA BoundedStays ==
  ASSUME IInv, Next, NEW k \in Expiry \cup {None}, Bounded(k, verified)
  PROVE  Bounded(k, verified')
<1> SUFFICES ASSUME k # None
             PROVE  verified' # None /\ k <= verified' + SessionTTL
  BY DEF Bounded
<1>1. verified # None /\ k <= verified + SessionTTL
  BY DEF Bounded
<1>2. verified' # None /\ verified <= verified'
  BY <1>1, Monotone
<1>3. verified \in Int /\ verified' \in Int /\ k \in Int /\ SessionTTL \in Int
  <2>1. verified \in Time /\ verified' \in Time /\ k \in Expiry
    BY <1>1, <1>2, Monotone DEF IInv, TypeOK
  <2> QED
    BY <2>1, AccessAssumption DEF AccessAssumption, Time, Expiry
<1> QED
  BY <1>1, <1>2, <1>3, LaterBound
--------------------------------------------------------------------------------
LEMMA TypeStep == IInv /\ Next => TypeOK'
<1> SUFFICES ASSUME IInv, Next PROVE TypeOK'
    OBVIOUS
<1> USE AccessAssumption
    DEF AccessAssumption, IInv, TypeOK, Time, Type, Phase, process, tables, history
<1>1. ASSUME NEW r \in Request, Silent(r) PROVE TypeOK'
  <2>1. UNCHANGED <<process, tables, session, history>>
    BY <1>1, SilentStep
  <2>2. req' \in [Request -> RequestState]
    <3>1. CASE Return(r) \/ Admit(r) \/ Done(r)
      BY <3>1, RequestWrites
    <3>2. CASE HandleListDevices(r)
      <4>1. ListedLive \in SUBSET Device
        BY DEF ListedLive
      <4> QED
        BY <3>2, <4>1, RequestWrites DEF HandleListDevices
    <3>3. CASE StampInvite(r)
      <4>1. now \in Expiry
        BY DEF Expiry
      <4> QED
        BY <3>3, <4>1, RequestWrites DEF StampInvite, PC
    <3>4. CASE HandleInviteQR(r)
      BY <3>4, RequestWrites DEF HandleInviteQR
    <3>5. CASE HandleOTPPush(r)
      <4>1. [req[r] EXCEPT !.pc = "waiting"] \in RequestState
        BY DEF RequestState, PC
      <4> QED
        BY <3>1, <3>5, <4>1 DEF HandleOTPPush
    <3> QED
      BY <1>1, <3>1, <3>2, <3>3, <3>4, <3>5, Dismissed
      DEF Silent, Gate, RequireSession, RequireDeviceToken, NoGate, HandleLogout,
          FanOutEnds, HandleOTPClaim
  <2> QED
    BY <2>1, <2>2
<1>2. ASSUME NEW r \in Request, HandleLogin(r) PROVE TypeOK'
  <2>1. CookieExpiry \in Expiry
    BY DEF Expiry, CookieExpiry
  <2>2. req' \in [Request -> RequestState]
    BY <1>2, <2>1, RequestWrites DEF HandleLogin, PC
  <2> QED
    BY <1>2, <2>2 DEF HandleLogin
<1>3. ASSUME NEW r \in Request, HandleCreateDevice(r) PROVE TypeOK'
  <2>1. req' \in [Request -> RequestState]
    BY <1>3, RequestWrites DEF HandleCreateDevice, InsertDevice
  <2>2. row' \in [Device -> {"absent"} \cup Type]
    BY <1>3 DEF HandleCreateDevice, InsertDevice
  <2> QED
    BY <1>3, <2>1, <2>2 DEF HandleCreateDevice, InsertDevice
<1>4. ASSUME NEW r \in Request, HandleDeleteDevice(r) PROVE TypeOK'
  <2>1. req[r].dev \in Device
    BY <1>4 DEF HandleDeleteDevice, RevokeDevice, InHandler, RequestsOK, CarriesOK
  <2>2. req' \in [Request -> RequestState]
    BY <1>4, RequestWrites DEF HandleDeleteDevice, RevokeDevice
  <2> QED
    BY <1>4, <2>1, <2>2 DEF HandleDeleteDevice, RevokeDevice
<1>5. ASSUME NEW r \in Request, InsertInvite(r) PROVE TypeOK'
  <2>1. req[r].at \in Time
    BY <1>5 DEF InsertInvite, AddInvite, RequestsOK, CarriesOK
  <2>2. req' \in [Request -> RequestState]
    BY <1>5, RequestWrites DEF InsertInvite, AddInvite
  <2>3. created' \in [Invite -> Time \cup {None}]
    BY <1>5, <2>1 DEF InsertInvite, AddInvite
  <2> QED
    BY <1>5, <2>2, <2>3 DEF InsertInvite, AddInvite
<1>6. ASSUME NEW r \in Request, Respond(r) PROVE TypeOK'
  <2>1. req' \in [Request -> RequestState]
    BY <1>6, RequestWrites DEF Respond
  <2>2. req[r] \in RequestState /\ req[r].pc = "done"
    BY <1>6 DEF Respond
  <2>3. DoneOK(r) /\ CarriesOK(r)
    BY DEF RequestsOK
  <2>4. /\ req[r].op = "login" => req[r].at \in Expiry /\ req[r].by \in Browser
        /\ req[r].op = "logout" => req[r].by \in Browser
        /\ req[r].op = "create" => req[r].dev \in Device
        /\ req[r].op = "delete" => req[r].dev \in Device
        /\ req[r].op = "invite" => req[r].inv \in Invite
    BY <2>2, <2>3 DEF DoneOK, CarriesOK, Dashboard, RequestState
  <2>5. session' \in [Browser -> Expiry \cup {None}]
    BY <1>6, <2>4 DEF Respond
  <2>6. known' \in SUBSET Device /\ gone' \in SUBSET Device /\ shown' \in SUBSET Invite
    BY <1>6, <2>4 DEF Respond
  <2> QED
    BY <1>6, <2>1, <2>5, <2>6 DEF Respond
<1>7. ASSUME NEW r \in Request, NEW b \in Browser, NEW op \in Op, NEW d \in Device \cup {None},
             SendDashboard(r, b, op, d)
      PROVE  TypeOK'
  <2>1. \A k \in Expiry \cup {None}, S \in SUBSET Device, T \in SUBSET Invite :
          [Idle EXCEPT !.op = op, !.pc = "sent", !.by = b, !.dev = d, !.cookie = k,
                       !.seen = S, !.told = T] \in RequestState
    BY DEF Idle, RequestState, PC
  <2>2. req' \in [Request -> RequestState]
    BY <1>7, <2>1 DEF SendDashboard
  <2> QED
    BY <1>7, <2>2 DEF SendDashboard
<1>8. ASSUME NEW r \in Request, NEW op \in DeviceOp, NEW d \in Device, SendDevice(r, op, d)
      PROVE  TypeOK'
  <2>1. \A S \in SUBSET Device :
          [Idle EXCEPT !.op = op, !.pc = "sent", !.dev = d, !.seen = S] \in RequestState
    BY DEF Idle, RequestState, PC, Op
  <2>2. req' \in [Request -> RequestState]
    BY <1>8, <2>1 DEF SendDevice
  <2> QED
    BY <1>8, <2>2 DEF SendDevice
<1>9. ASSUME Lifecycle PROVE TypeOK'
  <2>1. req' \in [Request -> RequestState]
    BY <1>9, IdleType DEF Lifecycle, Signal, ServeFails, Close, Exit, Kill, Start, Tick, Die
  <2>2. phase' \in Phase /\ deadline' \in Time \cup {None}
    BY <1>9 DEF Lifecycle, Signal, ServeFails, Close, Exit, Kill, Start, Tick, Die
  <2> QED
    BY <1>9, <2>1, <2>2, LifecycleStep, Monotone
<1> QED
  BY <1>1, <1>2, <1>3, <1>4, <1>5, <1>6, <1>7, <1>8, <1>9, Steps
--------------------------------------------------------------------------------
RequestOK(r) == DoneOK(r) /\ CarriesOK(r) /\ ShutOK(r)

LEMMA IdleIsOK == ASSUME NEW x \in Request, req'[x] = Idle PROVE RequestOK(x)'
  BY AccessAssumption
  DEF AccessAssumption, RequestOK, DoneOK, CarriesOK, ShutOK, Bounded, Idle, Op,
      DeviceOp, Dashboard

(* What told and stored invites are compared by does not change. *)
LEMMA ToldStays ==
  ASSUME IInv, Next, NEW x \in Request, NEW i \in req[x].told
  PROVE  i \in Invite /\ created[i] # None /\ created'[i] = created[i]
<1>1. i \in Invite /\ i \in shown
  BY DEF IInv, TypeOK, RequestsOK, CarriesOK, RequestState
<1> QED
  BY <1>1, Monotone DEF IInv, AnsweredIsStored

LEMMA RequestKept ==
  ASSUME IInv, Next, NEW x \in Request, req'[x] = req[x]
  PROVE  RequestOK(x)'
<1>1. DoneOK(x) /\ CarriesOK(x) /\ ShutOK(x) /\ req[x] \in RequestState
  BY DEF IInv, TypeOK, RequestsOK
<1>2. req[x].cookie \in Expiry \cup {None} /\ req[x].at \in Expiry \cup {None}
  BY <1>1 DEF RequestState
<1>3. DoneOK(x)'
  BY <1>1, <1>2, BoundedStays, Monotone, ToldStays DEF DoneOK
<1>4. CarriesOK(x)'
  BY <1>1, <1>2, BoundedStays, Monotone DEF CarriesOK
<1>5. ShutOK(x)'
  BY <1>1 DEF ShutOK
<1> QED
  BY <1>3, <1>4, <1>5 DEF RequestOK

(* What a request carries is carried over while only its pc and what the    *)
(* handler computes are written.                                            *)
LEMMA CarriedOver ==
  ASSUME IInv, Next, NEW x \in Request,
         req'[x].op = req[x].op, req'[x].by = req[x].by,
         req[x].pc # "idle", req'[x].pc # "stamped",
         req'[x].pc = "waiting" => req'[x].op = "push",
         req'[x].op \in {"delete"} \cup DeviceOp => req'[x].dev = req[x].dev,
         req'[x].cookie \in {req[x].cookie, None},
         req'[x].seen = req[x].seen, req'[x].told = req[x].told
  PROVE  CarriesOK(x)'
<1>1. CarriesOK(x) /\ req[x] \in RequestState
  BY DEF IInv, TypeOK, RequestsOK
<1>2. Bounded(req'[x].cookie, verified')
  <2>1. req[x].cookie \in Expiry \cup {None} /\ Bounded(req[x].cookie, verified)
    BY <1>1 DEF RequestState, CarriesOK
  <2>2. Bounded(req[x].cookie, verified') /\ Bounded(None, verified')
    BY <2>1, BoundedStays DEF Bounded
  <2> QED
    BY <2>2
<1> QED
  BY <1>1, <1>2, Monotone DEF CarriesOK

(* An authenticated device was not reported deleted before it asked.        *)
LEMMA GateShuts ==
  ASSUME IInv, NEW x \in Request, NEW d \in Device, Authenticate(d)
  PROVE  d \notin req[x].seen
  BY DEF Authenticate, IInv, RequestsOK, CarriesOK, AnsweredIsStored

LEMMA SilentOK ==
  ASSUME IInv, Next, NEW r \in Request, Silent(r)
  PROVE  RequestOK(r)'
<1> USE DEF IInv, TypeOK, Dashboard, DeviceOp
<1>a. req[r] \in RequestState /\ DoneOK(r) /\ CarriesOK(r) /\ ShutOK(r)
  BY DEF RequestsOK
<1>1. CASE Return(r)
  BY <1>1, IdleIsOK DEF Return
<1>2. ASSUME Admit(r), req[r].pc = "sent", req[r].op \in DeviceOp => req[r].dev \notin req[r].seen
      PROVE  RequestOK(r)'
  <2>1. /\ req'[r].pc = "admitted" /\ req'[r].cookie = None
        /\ req'[r].op = req[r].op /\ req'[r].by = req[r].by /\ req'[r].dev = req[r].dev
        /\ req'[r].seen = req[r].seen /\ req'[r].told = req[r].told
        /\ req'[r].view = req[r].view
    BY <1>2, <1>a DEF Admit, RequestState
  <2> QED
    BY <1>2, <1>a, <2>1, CarriedOver DEF RequestOK, DoneOK, ShutOK
<1>3. ASSUME Done(r), req[r].op \in {"logout"} \cup DeviceOp, req[r].pc # "idle",
req[r].pc # "sent"
      PROVE  RequestOK(r)'
  <2>1. /\ req'[r].pc = "done" /\ req'[r].cookie = req[r].cookie
        /\ req'[r].op = req[r].op /\ req'[r].by = req[r].by /\ req'[r].dev = req[r].dev
        /\ req'[r].seen = req[r].seen /\ req'[r].told = req[r].told
        /\ req'[r].view = req[r].view
    BY <1>3, <1>a DEF Done, RequestState
  <2> QED
    BY <1>3, <1>a, <2>1, CarriedOver DEF RequestOK, DoneOK, ShutOK
<1>4. CASE RequireSession(r) \/ RequireDeviceToken(r) \/ NoGate(r)
  <2>1. ASSUME RequireDeviceToken(r), Authenticate(req[r].dev)
        PROVE  req[r].dev \notin req[r].seen
    BY <1>a, <2>1, GateShuts DEF RequireDeviceToken, CarriesOK
  <2> QED
    BY <1>1, <1>2, <1>4, <2>1 DEF RequireSession, RequireDeviceToken, NoGate
<1>5. CASE Refuse(r) \/ CutIdle(r)
  BY <1>1, <1>5, Dismissed
<1>6. CASE HandleLogout(r)
  BY <1>3, <1>6 DEF HandleLogout, InHandler
<1>7. CASE HandleListDevices(r)
  <2>1. ASSUME req' = [req EXCEPT ![r].pc = "done", ![r].view = ListedLive],
               req[r].pc = "admitted", req[r].op = "list"
        PROVE  RequestOK(r)'
    <3>1. ListedLive \cap req[r].seen = {}
      BY GateShuts DEF ListedLive, Authenticate, DeviceByToken
    <3>2. /\ req'[r].pc = "done" /\ req'[r].cookie = req[r].cookie
          /\ req'[r].op = "list" /\ req'[r].by = req[r].by /\ req'[r].dev = req[r].dev
          /\ req'[r].seen = req[r].seen /\ req'[r].told = req[r].told
          /\ req'[r].view = ListedLive
      BY <1>a, <2>1 DEF RequestState
    <3> QED
      BY <1>a, <2>1, <3>1, <3>2, CarriedOver DEF RequestOK, DoneOK, ShutOK
  <2> QED
    BY <1>1, <1>7, <2>1 DEF HandleListDevices, InHandler
<1>8. CASE StampInvite(r)
  <2>1. /\ req'[r].pc = "stamped" /\ req'[r].cookie = req[r].cookie /\ req'[r].at = now
        /\ req'[r].op = "invite" /\ req'[r].by = req[r].by /\ req'[r].dev = req[r].dev
        /\ req'[r].seen = req[r].seen /\ req'[r].told = req[r].told
        /\ req'[r].view = req[r].view /\ req[r].op = "invite" /\ req[r].pc = "admitted"
    BY <1>8, <1>a DEF StampInvite, InHandler, RequestState
  <2>2. Bounded(req[r].cookie, verified')
    BY <1>a, BoundedStays DEF RequestState, CarriesOK
  <2>3. CarriesOK(r)'
    BY <1>a, <2>1, <2>2, Monotone DEF CarriesOK
  <2> QED
    BY <1>a, <2>1, <2>3 DEF RequestOK, DoneOK, ShutOK
<1>9. CASE HandleInviteQR(r)
  <2>1. ASSUME NEW i \in Invite, LatestInvite(i), req[r].pc = "admitted", req[r].op = "qr",
               req' = [req EXCEPT ![r].pc = "done", ![r].inv = i]
        PROVE  RequestOK(r)'
    <3>1. /\ req'[r].pc = "done" /\ req'[r].cookie = req[r].cookie /\ req'[r].inv = i
          /\ req'[r].op = "qr" /\ req'[r].by = req[r].by /\ req'[r].dev = req[r].dev
          /\ req'[r].seen = req[r].seen /\ req'[r].told = req[r].told
          /\ req'[r].view = req[r].view
      BY <1>a, <2>1 DEF RequestState
    <3>2. created[i] # None /\ created' = created
      BY <1>9, <2>1 DEF LatestInvite, HandleInviteQR, tables
    <3>3. \A j \in req[r].told : created[j] <= created[i]
      BY <2>1, ToldStays DEF LatestInvite
    <3>4. DoneOK(r)'
      BY <3>1, <3>2, <3>3 DEF DoneOK
    <3> QED
      BY <1>a, <2>1, <3>1, <3>4, CarriedOver DEF RequestOK, ShutOK
  <2> QED
    BY <1>1, <1>9, <2>1 DEF HandleInviteQR, InHandler
<1>10. CASE HandleOTPPush(r)
  <2>1. ASSUME req' = [req EXCEPT ![r].pc = "waiting"], req[r].pc = "admitted", req[r].op = "push"
        PROVE  RequestOK(r)'
    <3>1. /\ req'[r].pc = "waiting" /\ req'[r].cookie = req[r].cookie
          /\ req'[r].op = "push" /\ req'[r].by = req[r].by /\ req'[r].dev = req[r].dev
          /\ req'[r].seen = req[r].seen /\ req'[r].told = req[r].told
          /\ req'[r].view = req[r].view
      BY <1>a, <2>1 DEF RequestState
    <3> QED
      BY <1>a, <2>1, <3>1, CarriedOver DEF RequestOK, DoneOK, ShutOK
  <2> QED
    BY <1>1, <1>10, <2>1 DEF HandleOTPPush, InHandler
<1>11. CASE FanOutEnds(r)
  BY <1>3, <1>11, <1>a DEF FanOutEnds, CarriesOK
<1>12. CASE HandleOTPClaim(r)
  BY <1>1, <1>3, <1>12 DEF HandleOTPClaim, InHandler
<1> QED
  BY <1>4, <1>5, <1>6, <1>7, <1>8, <1>9, <1>10, <1>11, <1>12 DEF Silent, Gate

LEMMA RequestsStep == IInv /\ Next => RequestsOK'
<1> SUFFICES ASSUME IInv, Next, NEW x \in Request PROVE RequestOK(x)'
    BY DEF RequestsOK, RequestOK
<1> USE DEF IInv, TypeOK, Dashboard, DeviceOp
<1>k. req'[x] = req[x] => RequestOK(x)'
  BY RequestKept
<1>i. req'[x] = Idle => RequestOK(x)'
  BY IdleIsOK
<1>1. ASSUME NEW r \in Request, Silent(r) PROVE RequestOK(x)'
  <2>1. x # r => req'[x] = req[x]
    BY <1>1, Dismissed DEF Silent, Gate, RequireSession, RequireDeviceToken, NoGate, HandleLogout,
       HandleListDevices, ListedLive, StampInvite, HandleInviteQR, HandleOTPPush, FanOutEnds,
       HandleOTPClaim, Return, Admit, Done
  <2> QED
    BY <1>1, <1>k, <2>1, SilentOK
<1>2. ASSUME NEW r \in Request, HandleLogin(r) PROVE RequestOK(x)'
  <2>1. x # r => req'[x] = req[x]
    BY <1>2 DEF HandleLogin
  <2>2. /\ req'[r].pc = "done" /\ req'[r].cookie = req[r].cookie /\ req'[r].at = CookieExpiry
        /\ req'[r].op = "login" /\ req'[r].by = req[r].by /\ req'[r].dev = req[r].dev
        /\ req'[r].seen = req[r].seen /\ req'[r].told = req[r].told
        /\ req'[r].view = req[r].view /\ req[r].op = "login" /\ req[r].pc = "admitted"
    BY <1>2 DEF HandleLogin, InHandler, RequestState
  <2>3. CookieExpiry # None /\ Bounded(CookieExpiry, verified')
    BY <1>2, AccessAssumption
    DEF AccessAssumption, HandleLogin, CookieExpiry, Bounded, Time
  <2>4. DoneOK(r)' /\ CarriesOK(r)'
    BY <2>2, <2>3, CarriedOver DEF DoneOK
  <2>5. ShutOK(r)'
    BY <2>2 DEF ShutOK, RequestsOK
  <2> QED
    BY <1>k, <2>1, <2>4, <2>5 DEF RequestOK
<1>3. ASSUME NEW r \in Request, HandleCreateDevice(r) PROVE RequestOK(x)'
  <2>1. x # r => req'[x] = req[x]
    BY <1>3 DEF HandleCreateDevice, InsertDevice, Return
  <2>2. CASE Return(r)
    BY <1>i, <1>k, <2>1, <2>2 DEF Return
  <2>3. ASSUME NEW d \in Device, NEW type \in Type, row' = [row EXCEPT ![d] = type],
               req' = [req EXCEPT ![r].pc = "done", ![r].dev = d]
        PROVE  RequestOK(x)'
    <3>a. req[r].op = "create" /\ req[r].pc = "admitted" /\ req[r] \in RequestState
      BY <1>3 DEF HandleCreateDevice, InsertDevice, InHandler
    <3>b. req'[r] = [req[r] EXCEPT !.pc = "done", !.dev = d]
      BY <2>3
    <3>1. /\ req'[r].pc = "done" /\ req'[r].cookie = req[r].cookie /\ req'[r].dev = d
          /\ req'[r].op = "create" /\ req'[r].by = req[r].by
          /\ req'[r].seen = req[r].seen /\ req'[r].told = req[r].told
          /\ req'[r].view = req[r].view /\ req[r].op = "create" /\ req[r].pc = "admitted"
      BY <3>a, <3>b DEF RequestState
    <3>2. row'[d] # "absent"
      BY <2>3 DEF Type
    <3>3. DoneOK(r)' /\ CarriesOK(r)'
      BY <3>1, <3>2, CarriedOver DEF DoneOK
    <3>4. ShutOK(r)'
      BY <3>1 DEF ShutOK, RequestsOK
    <3> QED
      BY <1>k, <2>1, <3>3, <3>4 DEF RequestOK
  <2> QED
    BY <1>3, <2>2, <2>3 DEF HandleCreateDevice, InsertDevice
<1>4. ASSUME NEW r \in Request, HandleDeleteDevice(r) PROVE RequestOK(x)'
  <2>1. x # r => req'[x] = req[x]
    BY <1>4 DEF HandleDeleteDevice, RevokeDevice, Return, Done
  <2>2. CASE Return(r)
    BY <1>i, <1>k, <2>1, <2>2 DEF Return
  <2>3. ASSUME Done(r), revoked' = revoked \cup {req[r].dev}
        PROVE  RequestOK(x)'
    <3>1. /\ req'[r].pc = "done" /\ req'[r].cookie = req[r].cookie /\ req'[r].dev = req[r].dev
          /\ req'[r].op = "delete" /\ req'[r].by = req[r].by
          /\ req'[r].seen = req[r].seen /\ req'[r].told = req[r].told
          /\ req'[r].view = req[r].view /\ req[r].op = "delete" /\ req[r].pc = "admitted"
      BY <1>4, <2>3 DEF HandleDeleteDevice, RevokeDevice, InHandler, RequestState, Done
    <3>2. DoneOK(r)' /\ CarriesOK(r)'
      BY <2>3, <3>1, CarriedOver DEF DoneOK
    <3>3. ShutOK(r)'
      BY <3>1 DEF ShutOK, RequestsOK
    <3> QED
      BY <1>k, <2>1, <3>2, <3>3 DEF RequestOK
  <2> QED
    BY <1>4, <2>2, <2>3 DEF HandleDeleteDevice, RevokeDevice
<1>5. ASSUME NEW r \in Request, InsertInvite(r) PROVE RequestOK(x)'
  <2>1. x # r => req'[x] = req[x]
    BY <1>5 DEF InsertInvite, AddInvite, Return
  <2>2. CASE Return(r)
    BY <1>i, <1>k, <2>1, <2>2 DEF Return
  <2>3. ASSUME NEW i \in Invite, created' = [created EXCEPT ![i] = req[r].at],
               req' = [req EXCEPT ![r].pc = "done", ![r].inv = i]
        PROVE  RequestOK(x)'
    <3>a. req[r].pc = "stamped" /\ req[r] \in RequestState
      BY <1>5 DEF InsertInvite, AddInvite
    <3>b. req'[r] = [req[r] EXCEPT !.pc = "done", !.inv = i]
      BY <2>3
    <3>1. /\ req'[r].pc = "done" /\ req'[r].cookie = req[r].cookie /\ req'[r].dev = req[r].dev
          /\ req'[r].inv = i /\ req'[r].op = req[r].op /\ req'[r].by = req[r].by
          /\ req'[r].seen = req[r].seen /\ req'[r].told = req[r].told
          /\ req'[r].view = req[r].view /\ req[r].pc = "stamped"
      BY <3>a, <3>b DEF RequestState
    <3>2. req[r].op = "invite" /\ req[r].at \in Time
      BY <3>1 DEF RequestsOK, CarriesOK
    <3>3. created'[i] # None
      BY <2>3, <3>2, AccessAssumption DEF AccessAssumption, Time
    <3>4. DoneOK(r)' /\ CarriesOK(r)'
      BY <3>1, <3>2, <3>3, CarriedOver DEF DoneOK
    <3>5. ShutOK(r)'
      BY <3>1, <3>2 DEF ShutOK, RequestsOK
    <3> QED
      BY <1>k, <2>1, <3>4, <3>5 DEF RequestOK
  <2> QED
    BY <1>5, <2>2, <2>3 DEF InsertInvite, AddInvite
<1>6. ASSUME NEW r \in Request, Respond(r) PROVE RequestOK(x)'
  BY <1>6, <1>i, <1>k DEF Respond, Return
<1>7. ASSUME NEW r \in Request, NEW b \in Browser, NEW op \in Op, NEW d \in Device \cup {None},
             SendDashboard(r, b, op, d)
      PROVE  RequestOK(x)'
  <2>1. x # r => req'[x] = req[x]
    BY <1>7 DEF SendDashboard
  <2>2. /\ req'[r].pc = "sent" /\ req'[r].op = op /\ req'[r].by = b /\ req'[r].dev = d
        /\ req'[r].cookie \in {session[b], None} /\ req'[r].view = {}
        /\ req'[r].seen \subseteq gone /\ req'[r].told \subseteq shown
    BY <1>7 DEF SendDashboard, Idle
  <2>3. /\ op \in {"login"} \cup Dashboard /\ (op = "delete" => d \in Device)
        /\ UNCHANGED <<gone, shown, verified>>
    BY <1>7, AccessAssumption DEF AccessAssumption, SendDashboard, history
  <2>4. Bounded(req'[r].cookie, verified')
    BY <2>2, <2>3 DEF SessionsOK, Bounded
  <2>5. DoneOK(r)' /\ CarriesOK(r)' /\ ShutOK(r)'
    BY <2>2, <2>3, <2>4 DEF DoneOK, CarriesOK, ShutOK
  <2> QED
    BY <1>k, <2>1, <2>5 DEF RequestOK
<1>8. ASSUME NEW r \in Request, NEW op \in DeviceOp, NEW d \in Device, SendDevice(r, op, d)
      PROVE  RequestOK(x)'
  <2>1. x # r => req'[x] = req[x]
    BY <1>8 DEF SendDevice
  <2>2. /\ req'[r].pc = "sent" /\ req'[r].op = op /\ req'[r].dev = d
        /\ req'[r].cookie = None /\ req'[r].view = {}
        /\ req'[r].seen \subseteq gone /\ req'[r].told = {}
        /\ UNCHANGED <<gone, shown>>
    BY <1>8 DEF SendDevice, Idle, history
  <2>3. DoneOK(r)' /\ CarriesOK(r)' /\ ShutOK(r)'
    BY <2>2 DEF DoneOK, CarriesOK, ShutOK, Bounded
  <2> QED
    BY <1>k, <2>1, <2>3 DEF RequestOK
<1>9. ASSUME Lifecycle PROVE RequestOK(x)'
  BY <1>9, <1>i, <1>k DEF Lifecycle, Signal, ServeFails, Close, Exit, Kill, Start, Tick, Die
<1> QED
  BY <1>1, <1>2, <1>3, <1>4, <1>5, <1>6, <1>7, <1>8, <1>9, Steps
--------------------------------------------------------------------------------
(* Only a response gives a browser a cookie or tells a client anything.     *)
LEMMA TellingStep ==
  ASSUME Next
  PROVE  \/ UNCHANGED <<session, known, gone, shown>>
         \/ \E r \in Request : Respond(r)
<1>1. ASSUME NEW r \in Request,
             \/ Silent(r) \/ HandleLogin(r) \/ HandleCreateDevice(r)
             \/ HandleDeleteDevice(r) \/ InsertInvite(r)
      PROVE  UNCHANGED <<session, known, gone, shown>>
  BY <1>1, SilentStep
  DEF history, HandleLogin, HandleCreateDevice, InsertDevice, HandleDeleteDevice,
      RevokeDevice, InsertInvite, AddInvite
<1>2. ASSUME \/ \E r \in Request, b \in Browser, op \in Op, d \in Device \cup {None} :
                   SendDashboard(r, b, op, d)
             \/ \E r \in Request, op \in DeviceOp, d \in Device : SendDevice(r, op, d)
             \/ Lifecycle
      PROVE  UNCHANGED <<session, known, gone, shown>>
  BY <1>2, LifecycleStep DEF history, SendDashboard, SendDevice
<1> QED
  BY <1>1, <1>2, Steps

LEMMA SessionsStep == IInv /\ Next => SessionsOK'
<1> SUFFICES ASSUME IInv, Next PROVE SessionsOK'
    OBVIOUS
<1>1. verified' # None => verified' <= now'
  <2>1. verified' = verified \/ (verified' = now /\ now' = now)
    <3>1. ASSUME NEW r \in Request, HandleLogin(r) PROVE verified' = now /\ now' = now
      BY <3>1 DEF HandleLogin, process
    <3>2. ASSUME NEW r \in Request,
                 \/ Silent(r) \/ HandleCreateDevice(r) \/ HandleDeleteDevice(r)
                 \/ InsertInvite(r) \/ Respond(r)
          PROVE  verified' = verified
      BY <3>2, SilentStep
      DEF history, HandleCreateDevice, InsertDevice, HandleDeleteDevice, RevokeDevice,
          InsertInvite, AddInvite, Respond
    <3>3. ASSUME \/ \E r \in Request, b \in Browser, op \in Op, d \in Device \cup {None} :
                       SendDashboard(r, b, op, d)
                 \/ \E r \in Request, op \in DeviceOp, d \in Device : SendDevice(r, op, d)
                 \/ Lifecycle
          PROVE  verified' = verified
      BY <3>3, LifecycleStep DEF history, SendDashboard, SendDevice
    <3> QED
      BY <3>1, <3>2, <3>3, Steps
  <2>2. /\ now \in Int /\ now' \in Int /\ now <= now'
        /\ verified # None => verified \in Int /\ verified <= now
    BY Monotone DEF IInv, TypeOK, SessionsOK, Time
  <2> QED
    BY <2>1, <2>2
<1>2. ASSUME NEW b \in Browser PROVE Bounded(session'[b], verified')
  <2>1. session[b] \in Expiry \cup {None} /\ Bounded(session[b], verified)
    BY DEF IInv, TypeOK, SessionsOK
  <2>2. Bounded(session[b], verified') /\ Bounded(None, verified')
    BY <2>1, BoundedStays DEF Bounded
  <2>3. ASSUME NEW r \in Request, Respond(r) PROVE Bounded(session'[b], verified')
    <3>1. req[r].op = "login" => Bounded(req[r].at, verified')
      BY <2>3 DEF Respond, IInv, RequestsOK, DoneOK
    <3>2. \/ session'[b] \in {session[b], None}
          \/ req[r].op = "login" /\ session'[b] = req[r].at
      BY <2>3 DEF Respond, IInv, TypeOK
    <3> QED
      BY <2>2, <3>1, <3>2
  <2> QED
    BY <2>2, <2>3, TellingStep
<1> QED
  BY <1>1, <1>2 DEF SessionsOK

LEMMA StoredStep == IInv /\ Next => AnsweredIsStored'
<1> SUFFICES ASSUME IInv, Next PROVE AnsweredIsStored'
    OBVIOUS
<1>1. /\ \A d \in known' : d \in Device /\ row[d] # "absent"
      /\ \A d \in gone' : d \in revoked
      /\ \A i \in shown' : i \in Invite /\ created[i] # None
  <2>1. ASSUME NEW r \in Request, Respond(r)
        PROVE  /\ \A d \in known' \ known : d \in Device /\ row[d] # "absent"
               /\ \A d \in gone' \ gone : d \in revoked
               /\ \A i \in shown' \ shown : i \in Invite /\ created[i] # None
    BY <2>1 DEF Respond, IInv, RequestsOK, DoneOK
  <2> QED
    BY <2>1, TellingStep DEF IInv, TypeOK, AnsweredIsStored
<1> QED
  BY <1>1, Monotone DEF AnsweredIsStored

LEMMA StopStep == IInv /\ Next => StopOK'
<1> SUFFICES ASSUME IInv, Next PROVE StopOK'
    OBVIOUS
<1> USE DEF IInv, TypeOK, StopOK
<1>1. CASE Lifecycle
  <2>1. ASSUME Signal PROVE StopOK'
    BY <2>1, AccessAssumption DEF AccessAssumption, Signal, Time
  <2>2. ASSUME ~Signal PROVE StopOK'
    BY <1>1, <2>2 DEF Lifecycle, ServeFails, Close, Exit, Kill, Die, Start, Tick
  <2> QED
    BY <2>1, <2>2
<1>2. ASSUME ~Lifecycle PROVE UNCHANGED process
  <2>1. ASSUME NEW r \in Request,
               \/ Silent(r) \/ HandleLogin(r) \/ HandleCreateDevice(r)
               \/ HandleDeleteDevice(r) \/ InsertInvite(r) \/ Respond(r)
        PROVE  UNCHANGED process
    BY <2>1, SilentStep
    DEF HandleLogin, HandleCreateDevice, InsertDevice, HandleDeleteDevice, RevokeDevice,
        InsertInvite, AddInvite, Respond
  <2> QED
    BY <1>2, <2>1, Steps DEF SendDashboard, SendDevice
<1> QED
  BY <1>1, <1>2 DEF process

LEMMA NextIInv == IInv /\ [Next]_vars => IInv'
<1>1. CASE Next
  BY <1>1, TypeStep, RequestsStep, SessionsStep, StoredStep, StopStep DEF IInv
<1>2. CASE UNCHANGED vars
  BY <1>2
  DEF vars, IInv, TypeOK, RequestsOK, DoneOK, CarriesOK, ShutOK, SessionsOK, AnsweredIsStored,
      StopOK
<1> QED
  BY <1>1, <1>2

LEMMA InductiveInvariant == Spec => []IInv
  BY InitIInv, NextIInv, PTL DEF Spec
--------------------------------------------------------------------------------
(* Type correctness: every row, cookie and request record the handlers      *)
(* build keeps its type.                                                    *)
THEOREM TypeCorrect == Spec => []TypeOK
  BY InductiveInvariant, PTL DEF IInv

(* No response of success is a lie, now or later: the row it speaks of is   *)
(* in the table through failed statements, shutdowns, kills and restarts.   *)
THEOREM AnswersAreDurable == Spec => []AnsweredIsStored
  BY InductiveInvariant, PTL DEF IInv

(* Once a DELETE has been answered, no later request of that device passes  *)
(* requireDeviceToken and no later list shows it as live.                   *)
THEOREM RevocationIsEffective == Spec => []RevokedIsShut
<1>1. IInv => RevokedIsShut
  BY DEF IInv, RequestsOK, ShutOK, RevokedIsShut
<1> QED
  BY <1>1, InductiveInvariant, PTL

(* The QR never falls behind an invite that was announced before it was     *)
(* asked for.                                                               *)
THEOREM QRIsCurrent == Spec => []QRNotStale
<1>1. IInv => QRNotStale
  BY DEF IInv, RequestsOK, DoneOK, QRNotStale
<1> QED
  BY <1>1, InductiveInvariant, PTL

(* requireSession admits nobody later than a session after the last login.  *)
THEOREM SessionsLapse == Spec => LoginIsRecent
<1> DEFINE Step == \A r \in Request :
       req[r].op \in Dashboard /\ req[r].pc = "sent" /\ req'[r].pc = "admitted"
         => verified # None /\ now <= verified + SessionTTL
<1>1. ASSUME IInv, [Next]_vars, NEW r \in Request,
             req[r].op \in Dashboard, req[r].pc = "sent", req'[r].pc = "admitted"
      PROVE  verified # None /\ now <= verified + SessionTTL
  <2>1. ASSUME NEW s \in Request, RequireSession(s) PROVE s = r /\ ValidSession(req[r].cookie)
    BY <1>1, <2>1 DEF RequireSession, Admit, Return, Idle, IInv, TypeOK
  <2>2. ~(\/ \E s \in Request :
               \/ HandleLogin(s) \/ HandleCreateDevice(s) \/ HandleDeleteDevice(s)
               \/ InsertInvite(s) \/ Respond(s))
    BY <1>1 DEF HandleLogin, HandleCreateDevice, InsertDevice, HandleDeleteDevice,
                RevokeDevice, InsertInvite, AddInvite, Respond,
       InHandler, Return, Done, Idle, IInv, TypeOK
  <2>3. ~Lifecycle
    BY <1>1 DEF Lifecycle, Signal, ServeFails, Close, Exit, Kill, Die, Start, Tick, Idle
  <2>4. ~(\/ \E s \in Request, b \in Browser, op \in Op, d \in Device \cup {None} :
               SendDashboard(s, b, op, d)
          \/ \E s \in Request, op \in DeviceOp, d \in Device : SendDevice(s, op, d))
    <3>1. ASSUME NEW s \in Request, req[s] = Idle, \A x \in Request \ {s} : req'[x] = req[x]
          PROVE  FALSE
      BY <1>1, <3>1 DEF Idle
    <3>2. ASSUME NEW s \in Request, NEW b \in Browser, NEW op \in Op,
                 NEW d \in Device \cup {None}, SendDashboard(s, b, op, d)
          PROVE  FALSE
      BY <1>1, <3>1, <3>2 DEF SendDashboard, IInv, TypeOK
    <3>3. ASSUME NEW s \in Request, NEW op \in DeviceOp, NEW d \in Device, SendDevice(s, op, d)
          PROVE  FALSE
      BY <1>1, <3>1, <3>3 DEF SendDevice, IInv, TypeOK
    <3> QED
      BY <3>2, <3>3
  <2>5. ~(\E s \in Request : Silent(s) /\ ~RequireSession(s))
    <3>1. ~(\E s \in Request : Refuse(s) \/ CutIdle(s))
      BY <1>1, Dismissed DEF Return, Idle, IInv, TypeOK
    <3> QED
      BY <1>1, <3>1 DEF Silent, Gate, RequireDeviceToken, NoGate, HandleLogout,
         HandleListDevices, ListedLive, StampInvite, HandleInviteQR, HandleOTPPush,
         FanOutEnds, HandleOTPClaim,
         InHandler, Return, Done, Admit, Idle, Dashboard, DeviceOp, IInv, TypeOK
  <2>6. req' # req
    BY <1>1
  <2>7. ValidSession(req[r].cookie)
    BY <1>1, <2>1, <2>2, <2>3, <2>4, <2>5, <2>6, Steps DEF vars
  <2>8. Bounded(req[r].cookie, verified) /\ req[r].cookie \in Expiry \cup {None}
    BY <1>1 DEF IInv, RequestsOK, CarriesOK, TypeOK, RequestState
  <2> QED
    BY <1>1, <2>7, <2>8, AccessAssumption
    DEF ValidSession, Bounded, AccessAssumption, Expiry, IInv, TypeOK, Time
<1>2. IInv /\ [Next]_vars => [Step]_vars
  BY <1>1
<1> QED
  BY <1>2, InductiveInvariant, PTL DEF Spec, LoginIsRecent

--------------------------------------------------------------------------------
(* Liveness.  That its guards are all that an action needs, and that a      *)
(* number which falls until something happens does not fall for ever, stand *)
(* among the hypotheses: the provers have no ENABLED and no induction over  *)
(* temporal formulas.                                                       *)
CanProceed(r) == ENABLED <<Proceeds(r)>>_vars
CanClose == ENABLED <<Close>>_vars
CanExit == ENABLED <<Exit>>_vars
CanTick == ENABLED <<Tick>>_vars

(* A request that reads no body always has a branch to take: an invite that *)
(* was stamped finds an id, and one that is rendered a latest row.          *)
Unread(r) == req[r].pc = "admitted" /\ req[r].op \notin WithBody
GuardsSuffice ==
  /\ \A r \in Request :
       \/ req[r].pc \in {"sent", "done"}
       \/ Unread(r) /\ req[r].op # "qr"
       \/ /\ Unread(r) /\ req[r].op = "qr"
          /\ \/ StatementRuns /\ \E i \in Invite : LatestInvite(i)
             \/ StatementFails \/ \A i \in Invite : created[i] = None
       \/ /\ req[r].pc = "stamped"
          /\ StatementFails \/ \E i \in Invite : created[i] = None
       => CanProceed(r)
  /\ phase = "draining" /\ ShutdownReturns => CanClose
  /\ phase = "closed" => CanExit
  /\ now < Horizon => CanTick

Draining == phase = "draining"
Stopping(n) == Draining /\ n = IF now >= deadline THEN 0 ELSE deadline - now
Closing == phase \in {"closed", "down"}
Closed == phase = "closed"
Down == phase = "down"

GraceFalls(n) == Stopping(n) ~> Stopping(n - 1) \/ Closing
GraceLands(n) == Stopping(n) ~> Stopping(0) \/ Closing
CountdownEnds == (\A n \in Nat \ {0} : GraceFalls(n)) => \A n \in Nat : GraceLands(n)

(* There are as many invite tokens left as requests that will mint one.     *)
InvitesLeft == {i \in Invite : created[i] = None}
EnoughInvites == Cardinality(Minting("invite")) <= Cardinality(InvitesLeft)
LInv == IInv /\ EnoughInvites

(* What holds of a run that is scheduled fairly, and of every suffix of it. *)
Scheduled == Spec /\ []Fairness /\ []GuardsSuffice /\ []CountdownEnds
Run == []LInv /\ [][Next]_vars /\ []Fairness /\ []GuardsSuffice /\ []CountdownEnds

LEMMA NoInvite == None # "invite"
  BY AccessAssumption DEF AccessAssumption, Op, Dashboard

(* What the goroutine of a request does is to that request alone.           *)
LEMMA OthersRest ==
  ASSUME req \in [Request -> RequestState], NEW r \in Request,
         Gate(r) \/ Refuse(r) \/ Handle(r) \/ FanOutEnds(r) \/ Respond(r) \/ CutIdle(r)
  PROVE  /\ \A x \in Request \ {r} : req'[x] = req[x]
         /\ req'[r].op \in {req[r].op, None}
         /\ req'[r].pc # "done" => req[r].pc # "done" \/ req'[r].op = None
<1> DEFINE Goal == /\ \A x \in Request \ {r} : req'[x] = req[x]
                   /\ req'[r].op \in {req[r].op, None}
                   /\ req'[r].pc # "done" => req[r].pc # "done" \/ req'[r].op = None
<1>1. Return(r) => Goal
  BY DEF Return, Idle
<1>2. (Admit(r) \/ Done(r)) /\ req[r].pc # "done" => Goal
  BY DEF Admit, Done, RequestState
<1>3. CASE Gate(r) \/ Refuse(r) \/ FanOutEnds(r) \/ Respond(r) \/ CutIdle(r)
  BY <1>1, <1>2, <1>3, Dismissed
  DEF Gate, RequireSession, RequireDeviceToken, NoGate, FanOutEnds, Respond
<1>4. CASE \/ HandleLogout(r) \/ HandleDeleteDevice(r) \/ HandleOTPClaim(r)
  BY <1>1, <1>2, <1>4 DEF HandleLogout, HandleDeleteDevice, HandleOTPClaim, InHandler
<1>5. CASE HandleLogin(r) \/ HandleListDevices(r) \/ StampInvite(r) \/ HandleOTPPush(r)
  BY <1>1, <1>5
  DEF HandleLogin, HandleListDevices, StampInvite, HandleOTPPush, InHandler, RequestState
<1>6. CASE HandleCreateDevice(r) \/ InsertInvite(r) \/ HandleInviteQR(r)
  BY <1>1, <1>6
  DEF HandleCreateDevice, InsertInvite, HandleInviteQR, InHandler, RequestState
<1> QED
  BY <1>3, <1>4, <1>5, <1>6 DEF Handle

LEMMA MintingStep == LInv /\ [Next]_vars => EnoughInvites'
<1> SUFFICES ASSUME LInv, [Next]_vars PROVE EnoughInvites'
    OBVIOUS
<1> DEFINE M == Minting("invite")
           I == InvitesLeft
<1>1. req \in [Request -> RequestState] /\ created \in [Invite -> Time \cup {None}]
  BY DEF LInv, IInv, TypeOK
<1>2. IsFiniteSet(M) /\ IsFiniteSet(I)
  BY AccessAssumption, FS_Subset DEF AccessAssumption, Minting, InvitesLeft
<1>3. ASSUME M' \subseteq M, I' = I PROVE EnoughInvites'
  <2>1. IsFiniteSet(M') /\ Cardinality(M') <= Cardinality(M)
    BY <1>2, <1>3, FS_Subset
  <2>2. Cardinality(M) \in Nat /\ Cardinality(M') \in Nat /\ Cardinality(I) \in Nat
    BY <1>2, <2>1, FS_CardinalityType
  <2> QED
    BY <1>3, <2>1, <2>2 DEF LInv, EnoughInvites
<1>4. created' = created => I' = I
  BY DEF InvitesLeft
<1>5. ASSUME NEW r \in Request, \A x \in Request \ {r} : req'[x] = req[x],
             \/ req'[r].op # "invite" \/ req'[r].pc = "done"
             \/ req[r].op = "invite" /\ req[r].pc # "done"
      PROVE  M' \subseteq M
  BY <1>5 DEF Minting
<1>6. CASE UNCHANGED vars
  BY <1>3, <1>4, <1>6 DEF vars, tables, Minting
<1>7. ASSUME NEW r \in Request, NEW b \in Browser, NEW op \in Op,
             NEW d \in Device \cup {None}, SendDashboard(r, b, op, d)
      PROVE  EnoughInvites'
  <2>1. created' = created /\ I' = I
    BY <1>4, <1>7 DEF SendDashboard, tables
  <2>2. /\ \A x \in Request \ {r} : req'[x] = req[x]
        /\ req'[r].op = op
    BY <1>1, <1>7 DEF SendDashboard, Idle
  <2>3. CASE op # "invite"
    BY <1>3, <1>5, <2>1, <2>2, <2>3
  <2>4. CASE op = "invite"
    <3>1. M' \subseteq M \cup {r}
      BY <2>2 DEF Minting
    <3>2. Cardinality(M) < Cardinality(I)
      BY <1>7, <2>4 DEF SendDashboard, EnoughIds, InvitesLeft
    <3>3. IsFiniteSet(M \cup {r}) /\ Cardinality(M \cup {r}) <= Cardinality(M) + 1
      <4>1. Cardinality(M) \in Nat
        BY <1>2, FS_CardinalityType
      <4>2. /\ IsFiniteSet(M \cup {r})
            /\ Cardinality(M \cup {r}) = IF r \in M THEN Cardinality(M) ELSE Cardinality(M) + 1
        BY <1>2, FS_AddElement, Zenon
      <4> QED
        BY <4>1, <4>2
    <3>4. IsFiniteSet(M') /\ Cardinality(M') <= Cardinality(M \cup {r})
      BY <3>1, <3>3, FS_Subset
    <3>5. /\ Cardinality(M) \in Nat /\ Cardinality(M') \in Nat /\ Cardinality(I) \in Nat
          /\ Cardinality(M \cup {r}) \in Nat
      BY <1>2, <3>3, <3>4, FS_CardinalityType
    <3> QED
      BY <2>1, <3>2, <3>3, <3>4, <3>5 DEF EnoughInvites
  <2> QED
    BY <2>3, <2>4
<1>8. ASSUME NEW r \in Request, NEW op \in DeviceOp, NEW d \in Device, SendDevice(r, op, d)
      PROVE  EnoughInvites'
  <2>1. created' = created
    BY <1>8 DEF SendDevice, tables
  <2>2. /\ \A x \in Request \ {r} : req'[x] = req[x]
        /\ req'[r].op # "invite"
    BY <1>1, <1>8 DEF SendDevice, Idle, DeviceOp
  <2> QED
    BY <1>3, <1>4, <1>5, <2>1, <2>2
<1>9. ASSUME Lifecycle PROVE EnoughInvites'
  <2>1. created' = created
    BY <1>9, LifecycleStep DEF tables
  <2>2. M' \subseteq M
    <3>1. CASE req' = req
      BY <3>1 DEF Minting
    <3>2. CASE Die
      BY <3>2, NoInvite DEF Die, Minting, Idle
    <3> QED
      BY <1>9, <3>1, <3>2 DEF Lifecycle, Signal, ServeFails, Close, Exit, Kill, Start, Tick
  <2> QED
    BY <1>3, <1>4, <2>1, <2>2
<1>10. ASSUME NEW r \in Request, InsertInvite(r), req'[r].pc = "done" PROVE EnoughInvites'
  <2>1. PICK i \in Invite :
          /\ created[i] = None
          /\ created' = [created EXCEPT ![i] = req[r].at]
          /\ req' = [req EXCEPT ![r].pc = "done", ![r].inv = i]
    BY <1>1, <1>10 DEF InsertInvite, AddInvite, Return, Idle
  <2>2. req[r].at \in Time /\ req[r].op = "invite" /\ req[r].pc = "stamped"
    BY <1>10 DEF LInv, IInv, RequestsOK, CarriesOK, InsertInvite
  <2>3. I' = I \ {i} /\ i \in I
    BY <1>1, <2>1, <2>2, AccessAssumption DEF InvitesLeft, AccessAssumption, Time
  <2>4. M' = M \ {r} /\ r \in M
    BY <1>1, <2>1, <2>2 DEF Minting
  <2>5. Cardinality(M') = Cardinality(M) - 1 /\ Cardinality(I') = Cardinality(I) - 1
    BY <1>2, <2>3, <2>4, FS_RemoveElement
  <2>6. Cardinality(M) \in Nat /\ Cardinality(I) \in Nat
    BY <1>2, FS_CardinalityType
  <2> QED
    BY <2>5, <2>6 DEF LInv, EnoughInvites
<1>11. ASSUME NEW r \in Request,
              \/ Gate(r) \/ Refuse(r) \/ Handle(r) \/ FanOutEnds(r) \/ Respond(r) \/ CutIdle(r),
              ~(InsertInvite(r) /\ req'[r].pc = "done")
       PROVE  created' = created
  <2>1. CASE Silent(r)
    BY <2>1, SilentStep DEF tables
  <2>2. CASE InsertInvite(r)
    BY <1>1, <1>11, <2>2 DEF InsertInvite, Return, Idle, RequestState
  <2>3. CASE HandleLogin(r) \/ HandleCreateDevice(r) \/ HandleDeleteDevice(r) \/ Respond(r)
    BY <2>3 DEF HandleLogin, HandleCreateDevice, HandleDeleteDevice, Respond, tables
  <2> QED
    BY <1>11, <2>1, <2>2, <2>3 DEF Silent, Handle
<1>12. ASSUME NEW r \in Request,
              \/ Gate(r) \/ Refuse(r) \/ Handle(r) \/ FanOutEnds(r) \/ Respond(r) \/ CutIdle(r)
       PROVE  EnoughInvites'
  <2>1. M' \subseteq M
    BY <1>1, <1>5, OthersRest, <1>12, NoInvite
  <2>2. CASE InsertInvite(r) /\ req'[r].pc = "done"
    BY <1>10, <2>2
  <2>3. CASE ~(InsertInvite(r) /\ req'[r].pc = "done")
    BY <1>3, <1>4, <1>11, <1>12, <2>1, <2>3
  <2> QED
    BY <2>2, <2>3
<1> QED
  BY <1>6, <1>7, <1>8, <1>9, <1>12 DEF Next, Lifecycle

LEMMA LiveInvariant == Spec => []LInv
<1>1. Init => EnoughInvites
  <2> SUFFICES ASSUME Init PROVE EnoughInvites
      OBVIOUS
  <2>1. Minting("invite") = {}
    BY NoInvite DEF Minting, Init, Idle
  <2>2. IsFiniteSet(InvitesLeft)
    BY AccessAssumption, FS_Subset DEF AccessAssumption, InvitesLeft
  <2> QED
    BY <2>1, <2>2, FS_EmptySet, FS_CardinalityType DEF EnoughInvites
<1>2. LInv /\ [Next]_vars => LInv'
  BY NextIInv, MintingStep DEF LInv
<1> QED
  BY <1>1, <1>2, InitIInv, PTL DEF LInv, Spec

LEMMA RunLasts == (Scheduled => Run) /\ (Run => []Run)
  BY LiveInvariant, PTL DEF Run, Scheduled, Spec
--------------------------------------------------------------------------------
(* A request is moved by nobody but its own goroutine, and ends with the    *)
(* process.                                                                 *)
LEMMA RequestMoves ==
  ASSUME IInv, [Next]_vars, NEW r \in Request, req[r] # Idle
  PROVE  \/ req'[r] = req[r] \/ req'[r] = Idle
         \/ Gate(r) \/ Refuse(r) \/ Handle(r) \/ FanOutEnds(r) \/ Respond(r) \/ CutIdle(r)
<1>1. req \in [Request -> RequestState]
  BY DEF IInv, TypeOK
<1>2. ASSUME NEW s \in Request \ {r},
             Gate(s) \/ Refuse(s) \/ Handle(s) \/ FanOutEnds(s) \/ Respond(s) \/ CutIdle(s)
      PROVE  req'[r] = req[r]
  BY <1>1, <1>2, OthersRest
<1>3. ASSUME NEW s \in Request, NEW b \in Browser, NEW op \in Op,
             NEW d \in Device \cup {None}, SendDashboard(s, b, op, d)
      PROVE  req'[r] = req[r]
  BY <1>1, <1>3 DEF SendDashboard
<1>4. ASSUME NEW s \in Request, NEW op \in DeviceOp, NEW d \in Device, SendDevice(s, op, d)
      PROVE  req'[r] = req[r]
  BY <1>1, <1>4 DEF SendDevice
<1>5. ASSUME Lifecycle PROVE req'[r] = req[r] \/ req'[r] = Idle
  BY <1>5 DEF Lifecycle, Signal, ServeFails, Close, Exit, Kill, Start, Tick, Die
<1> QED
  BY <1>2, <1>3, <1>4, <1>5 DEF Next, Lifecycle, vars

Sent(r) == req[r].pc = "sent"
Stamped(r) == req[r].pc = "stamped"
Answering(r) == req[r].pc = "done"
Ended(r) == req[r].pc \in {"idle", "waiting"} \/ (req[r].pc = "admitted" /\ req[r].op \in WithBody)

LEMMA IdleEnded == ASSUME NEW r \in Request, req[r] = Idle PROVE Ended(r)
  BY DEF Ended, Idle

(* What its goroutine does next.                                            *)
LEMMA GoroutineMoves ==
  ASSUME IInv, NEW r \in Request,
         Gate(r) \/ Refuse(r) \/ Handle(r) \/ FanOutEnds(r) \/ Respond(r) \/ CutIdle(r)
  PROVE  /\ Sent(r) => Unread(r)' \/ Ended(r)'
         /\ Unread(r) => Stamped(r)' \/ Answering(r)' \/ Ended(r)'
         /\ Stamped(r) => Answering(r)' \/ Ended(r)'
         /\ Answering(r) => Ended(r)'
<1> DEFINE Goal == /\ Sent(r) => Unread(r)' \/ Ended(r)'
                   /\ Unread(r) => Stamped(r)' \/ Answering(r)' \/ Ended(r)'
                   /\ Stamped(r) => Answering(r)' \/ Ended(r)'
                   /\ Answering(r) => Ended(r)'
<1> USE DEF Sent, Unread, Stamped, Answering
<1>a. req \in [Request -> RequestState] /\ req[r] \in RequestState
  BY DEF IInv, TypeOK
<1>1. Return(r) => Goal
  BY <1>a DEF Return, Ended, Idle
<1>2. Done(r) /\ req[r].pc \in {"admitted", "waiting"} => Goal
  BY <1>a DEF Done, RequestState
<1>3. Admit(r) /\ Sent(r) => Goal
  BY <1>a DEF Admit, RequestState, Ended
<1>4. CASE Gate(r) \/ Refuse(r) \/ FanOutEnds(r) \/ Respond(r) \/ CutIdle(r)
  BY <1>1, <1>2, <1>3, <1>4, Dismissed
  DEF Gate, RequireSession, RequireDeviceToken, NoGate, FanOutEnds, Respond
<1>5. CASE \/ HandleLogout(r) \/ HandleDeleteDevice(r) \/ HandleOTPClaim(r)
  BY <1>1, <1>2, <1>5 DEF HandleLogout, HandleDeleteDevice, HandleOTPClaim, InHandler
<1>6. CASE HandleLogin(r) \/ HandleListDevices(r) \/ StampInvite(r)
  BY <1>a, <1>1, <1>6
  DEF HandleLogin, HandleListDevices, StampInvite, InHandler, RequestState
<1>7. CASE HandleCreateDevice(r) \/ InsertInvite(r) \/ HandleInviteQR(r)
  BY <1>a, <1>1, <1>7
  DEF HandleCreateDevice, InsertInvite, HandleInviteQR, InHandler, RequestState
<1>8. CASE HandleOTPPush(r)
  BY <1>1, <1>8 DEF HandleOTPPush, InHandler, WithBody, DeviceOp
<1> QED
  BY <1>4, <1>5, <1>6, <1>7, <1>8 DEF Handle

LEMMA RequestServed == ASSUME NEW r \in Request PROVE Fairness => Served(r)
  BY DEF Fairness

(* Its next step, if it takes it at all, is one of those.                   *)
LEMMA ProceedMoves ==
  ASSUME NEW r \in Request, Proceeds(r)
  PROVE  Gate(r) \/ Refuse(r) \/ Handle(r) \/ FanOutEnds(r) \/ Respond(r) \/ CutIdle(r)
  BY DEF Proceeds

LEMMA SentPasses == ASSUME NEW r \in Request PROVE Run => (Sent(r) ~> Unread(r) \/ Ended(r))
<1>1. LInv /\ Sent(r) /\ [Next]_vars => Sent(r)' \/ Unread(r)' \/ Ended(r)'
  BY RequestMoves, GoroutineMoves, IdleEnded DEF LInv, Sent, Ended, Idle
<1>2. LInv /\ Sent(r) /\ <<Proceeds(r)>>_vars => Unread(r)' \/ Ended(r)'
  BY GoroutineMoves, ProceedMoves DEF LInv
<1>3. Sent(r) /\ GuardsSuffice => CanProceed(r)
  BY DEF Sent, GuardsSuffice
<1> QED
  BY <1>1, <1>2, <1>3, RequestServed, PTL DEF Run, CanProceed, Served

(* A set of naturals has a least member; the latest of the invites is the   *)
(* one that is the fewest ticks from the horizon.                           *)
Less == {e \in Nat \X Nat : e[1] < e[2]}

LEMMA LeastNatural ==
  ASSUME NEW T \in SUBSET Nat, T # {} PROVE \E x \in T : \A y \in T : x <= y
<1>1. IsWellFoundedOn(Less, Nat)
  BY NatLessThanWellFounded DEF OpToRel, Less
<1>2. PICK x \in T : \A y \in T : <<y, x>> \notin Less
  BY <1>1, WFMin
<1>3. \A y \in T : ~(y < x)
  <2> SUFFICES ASSUME NEW y \in T, y < x PROVE FALSE
      OBVIOUS
  <2>1. <<y, x>> \in Nat \X Nat
    OBVIOUS
  <2>2. <<y, x>> \in Less
    BY <2>1 DEF Less
  <2> QED
    BY <1>2, <2>2
<1> QED
  BY <1>3

LEMMA LatestExists ==
  ASSUME IInv, NEW j \in Invite, created[j] # None PROVE \E i \in Invite : LatestInvite(i)
<1> DEFINE T == {Horizon - created[i] : i \in {k \in Invite : created[k] # None}}
<1>1. \A i \in Invite : created[i] # None => created[i] \in Int /\ Horizon - created[i] \in Nat
  BY AccessAssumption DEF AccessAssumption, IInv, TypeOK, Time
<1>2. T \in SUBSET Nat /\ T # {}
  BY <1>1
<1>3. PICK x \in T : \A y \in T : x <= y
  BY <1>2, LeastNatural
<1>4. PICK i \in Invite : created[i] # None /\ x = Horizon - created[i]
  BY <1>3
<1>5. ASSUME NEW k \in Invite, created[k] # None PROVE created[k] <= created[i]
  <2>1. Horizon - created[i] <= Horizon - created[k]
    BY <1>3, <1>4, <1>5
  <2> QED
    BY <1>1, <1>4, <1>5, <2>1, AccessAssumption DEF AccessAssumption
<1> QED
  BY <1>4, <1>5 DEF LatestInvite

LEMMA UnreadPasses ==
  ASSUME NEW r \in Request
  PROVE  Run => (Unread(r) ~> Stamped(r) \/ Answering(r) \/ Ended(r))
<1>1. LInv /\ Unread(r) /\ [Next]_vars =>
        Unread(r)' \/ Stamped(r)' \/ Answering(r)' \/ Ended(r)'
  BY RequestMoves, GoroutineMoves, IdleEnded DEF LInv, Unread, Ended, Idle
<1>2. LInv /\ Unread(r) /\ <<Proceeds(r)>>_vars =>
        Stamped(r)' \/ Answering(r)' \/ Ended(r)'
  BY GoroutineMoves, ProceedMoves DEF LInv
<1>3. LInv /\ Unread(r) /\ GuardsSuffice => CanProceed(r)
  <2> SUFFICES ASSUME LInv, Unread(r), GuardsSuffice PROVE CanProceed(r)
      OBVIOUS
  <2>1. StatementRuns \/ StatementFails
    BY DEF StatementRuns, StatementFails
  <2>2. (\A i \in Invite : created[i] = None) \/ \E i \in Invite : LatestInvite(i)
    BY LatestExists DEF LInv
  <2> QED
    BY <2>1, <2>2 DEF GuardsSuffice
<1> QED
  BY <1>1, <1>2, <1>3, RequestServed, PTL DEF Run, CanProceed, Served

LEMMA StampedPasses ==
  ASSUME NEW r \in Request PROVE Run => (Stamped(r) ~> Answering(r) \/ Ended(r))
<1>1. LInv /\ Stamped(r) /\ [Next]_vars => Stamped(r)' \/ Answering(r)' \/ Ended(r)'
  BY RequestMoves, GoroutineMoves, IdleEnded DEF LInv, Stamped, Ended, Idle
<1>2. LInv /\ Stamped(r) /\ <<Proceeds(r)>>_vars => Answering(r)' \/ Ended(r)'
  BY GoroutineMoves, ProceedMoves DEF LInv
<1>3. LInv /\ Stamped(r) /\ GuardsSuffice => CanProceed(r)
  <2> SUFFICES ASSUME LInv, Stamped(r), GuardsSuffice PROVE CanProceed(r)
      OBVIOUS
  <2>1. r \in Minting("invite")
    BY DEF LInv, IInv, RequestsOK, CarriesOK, Stamped, Minting
  <2>2. IsFiniteSet(Minting("invite")) /\ IsFiniteSet(InvitesLeft)
    BY AccessAssumption, FS_Subset DEF AccessAssumption, Minting, InvitesLeft
  <2>3. /\ Cardinality(Minting("invite")) \in Nat /\ Cardinality(InvitesLeft) \in Nat
        /\ Cardinality(Minting("invite")) # 0
    BY <2>1, <2>2, FS_CardinalityType, FS_EmptySet
  <2>4. InvitesLeft # {}
    BY <2>3, FS_EmptySet DEF LInv, EnoughInvites
  <2> QED
    BY <2>4 DEF Stamped, GuardsSuffice, InvitesLeft
<1> QED
  BY <1>1, <1>2, <1>3, RequestServed, PTL DEF Run, CanProceed, Served

LEMMA AnsweringEnds == ASSUME NEW r \in Request PROVE Run => (Answering(r) ~> Ended(r))
<1>1. LInv /\ Answering(r) /\ [Next]_vars => Answering(r)' \/ Ended(r)'
  BY RequestMoves, GoroutineMoves, IdleEnded DEF LInv, Answering, Ended, Idle
<1>2. LInv /\ Answering(r) /\ <<Proceeds(r)>>_vars => Ended(r)'
  BY GoroutineMoves, ProceedMoves DEF LInv
<1>3. Answering(r) /\ GuardsSuffice => CanProceed(r)
  BY DEF Answering, GuardsSuffice
<1> QED
  BY <1>1, <1>2, <1>3, RequestServed, PTL DEF Run, CanProceed, Served

(* Every request ends, through failing statements and the stop of the       *)
(* process, unless it waits for its own body or for the fan-out.            *)
THEOREM RequestsAreServed == Scheduled => RequestEnds
<1> DEFINE Ends(r) == Sent(r) ~> Ended(r)
<1>1. ASSUME NEW r \in Request PROVE Run => Ends(r)
  <2>1. Run => (Sent(r) ~> Unread(r) \/ Ended(r))
    BY SentPasses
  <2>2. Run => (Unread(r) ~> Stamped(r) \/ Answering(r) \/ Ended(r))
    BY UnreadPasses
  <2>3. Run => (Stamped(r) ~> Answering(r) \/ Ended(r))
    BY StampedPasses
  <2>4. Run => (Answering(r) ~> Ended(r))
    BY AnsweringEnds
  <2> QED
    BY <2>1, <2>2, <2>3, <2>4, PTL
<1>2. Run => \A r \in Request : Ends(r)
  <2> HIDE DEF Ends
  <2> QED
    BY <1>1
<1>3. (\A r \in Request : Ends(r)) => RequestEnds
  BY DEF RequestEnds, Sent, Ended
<1> QED
  BY <1>2, <1>3, RunLasts, PTL
--------------------------------------------------------------------------------
(* A stop moves on by its own steps alone, and the deadline stands.         *)
LEMMA StopMoves ==
  ASSUME IInv, [Next]_vars, phase # "up", phase # "down"
  PROVE  \/ UNCHANGED <<now, phase, deadline>>
         \/ Tick \/ phase' = "down"
         \/ phase = "draining" /\ phase' = "closed"
<1>1. CASE Lifecycle
  BY <1>1 DEF Lifecycle, Signal, ServeFails, Close, Exit, Kill, Die, Start
<1>2. ASSUME NEW r \in Request, \/ Silent(r) \/ HandleLogin(r) \/ HandleCreateDevice(r)
                                \/ HandleDeleteDevice(r) \/ InsertInvite(r) \/ Respond(r)
      PROVE  UNCHANGED <<now, phase, deadline>>
  BY <1>2, SilentStep
  DEF HandleLogin, HandleCreateDevice, HandleDeleteDevice, InsertInvite, Respond, process
<1>3. CASE UNCHANGED vars
  BY <1>3 DEF vars
<1> QED
  BY <1>1, <1>2, <1>3, Steps DEF SendDashboard, SendDevice

LEMMA GraceRuns == ASSUME NEW n \in Nat \ {0} PROVE Run => GraceFalls(n)
<1>1. LInv /\ Stopping(n) /\ [Next]_vars =>
        Stopping(n)' \/ Stopping(n - 1)' \/ Closing'
  <2> SUFFICES ASSUME LInv, Stopping(n), [Next]_vars, ~Closing'
               PROVE  Stopping(n)' \/ Stopping(n - 1)'
      OBVIOUS
  <2>1. /\ phase = "draining" /\ now \in Nat /\ deadline \in Nat
        /\ now < deadline /\ n = deadline - now
    BY AccessAssumption DEF Stopping, Draining, LInv, IInv, TypeOK, StopOK, Time, AccessAssumption
  <2>2. UNCHANGED <<now, phase, deadline>> \/ Tick
    BY <2>1, StopMoves DEF LInv, Closing
  <2> QED
    BY <2>1, <2>2 DEF Tick, Stopping, Draining
<1>2. LInv /\ Stopping(n) /\ <<Tick>>_vars => ~Stopping(n)'
  <2> SUFFICES ASSUME LInv, Stopping(n), Tick PROVE ~Stopping(n)'
      OBVIOUS
  <2>1. /\ phase = "draining" /\ now \in Nat /\ deadline \in Nat
        /\ now < deadline /\ n = deadline - now
    BY AccessAssumption DEF Stopping, Draining, LInv, IInv, TypeOK, StopOK, Time, AccessAssumption
  <2> QED
    BY <2>1 DEF Tick, Stopping, Draining
<1>3. LInv /\ Stopping(n) /\ GuardsSuffice => CanTick
  <2> SUFFICES ASSUME LInv, Stopping(n), GuardsSuffice PROVE CanTick
      OBVIOUS
  <2>1. now < Horizon
    BY AccessAssumption DEF Stopping, Draining, LInv, IInv, TypeOK, StopOK, Time, AccessAssumption
  <2> QED
    BY <2>1 DEF GuardsSuffice
<1>4. Fairness => TimePasses
  BY DEF Fairness
<1> QED
  BY <1>1, <1>2, <1>3, <1>4, PTL DEF Run, CanTick, TimePasses, GraceFalls

LEMMA GraceOver == Run => (Stopping(0) ~> Closing)
<1>1. LInv /\ Stopping(0) /\ [Next]_vars => Stopping(0)' \/ Closing'
  <2> SUFFICES ASSUME LInv, Stopping(0), [Next]_vars, ~Closing' PROVE Stopping(0)'
      OBVIOUS
  <2>1. phase = "draining" /\ now \in Nat /\ deadline \in Nat /\ now >= deadline
    BY AccessAssumption DEF Stopping, Draining, LInv, IInv, TypeOK, StopOK, Time, AccessAssumption
  <2>2. UNCHANGED <<now, phase, deadline>> \/ Tick
    BY <2>1, StopMoves DEF LInv, Closing
  <2> QED
    BY <2>1, <2>2 DEF Tick, Stopping, Draining
<1>2. Stopping(0) /\ <<Close>>_vars => Closing'
  BY DEF Close, Closing
<1>3. LInv /\ Stopping(0) /\ GuardsSuffice => CanClose
  <2> SUFFICES ASSUME LInv, Stopping(0), GuardsSuffice PROVE CanClose
      OBVIOUS
  <2>1. phase = "draining" /\ now >= deadline
    BY AccessAssumption DEF Stopping, Draining, LInv, IInv, TypeOK, StopOK, Time, AccessAssumption
  <2> QED
    BY <2>1 DEF ShutdownReturns, GuardsSuffice
<1>4. Fairness => StopCompletes
  BY DEF Fairness
<1> QED
  BY <1>1, <1>2, <1>3, <1>4, PTL DEF Run, CanClose, StopCompletes

LEMMA ClosedExits == Run => (Closed ~> Down)
<1>1. LInv /\ Closed /\ [Next]_vars => Closed' \/ Down'
  BY StopMoves DEF LInv, Closed, Down, Tick
<1>2. Closed /\ <<Exit>>_vars => Down'
  BY DEF Exit, Die, Down
<1>3. Closed /\ GuardsSuffice => CanExit
  BY DEF Closed, GuardsSuffice
<1>4. Fairness => StopCompletes
  BY DEF Fairness
<1> QED
  BY <1>1, <1>2, <1>3, <1>4, PTL DEF Run, CanExit, StopCompletes

(* The process exits after a signal, whatever its handlers are waiting for  *)
(* and however long the grace.                                              *)
THEOREM StopCompletesInTime == Scheduled => SignalledStops
<1>1. ASSUME NEW n \in Nat PROVE Run => (Stopping(n) => <>Closing)
  <2>1. ASSUME NEW k \in Nat \ {0} PROVE Run => GraceFalls(k)
    BY GraceRuns
  <2>2. Run => CountdownEnds
    BY PTL DEF Run
  <2>3. Run => GraceLands(n)
    BY <2>1, <2>2 DEF CountdownEnds
  <2> QED
    BY <2>3, GraceOver, RunLasts, PTL DEF GraceLands
<1>2. LInv /\ Draining => \E n \in Nat : Stopping(n)
  <2> SUFFICES ASSUME LInv, Draining PROVE \E n \in Nat : Stopping(n)
      OBVIOUS
  <2>1. now \in Nat /\ deadline \in Nat
    BY AccessAssumption DEF Draining, LInv, IInv, TypeOK, StopOK, Time, AccessAssumption
  <2>2. (IF now >= deadline THEN 0 ELSE deadline - now) \in Nat
    BY <2>1
  <2> QED
    BY <2>2 DEF Stopping
<1>3. Run /\ LInv => (Draining => <>Closing)
  BY <1>1, <1>2
<1>4. Closing => Closed \/ Down
  BY DEF Closing, Closed, Down
<1>5. Run => (Draining ~> Down)
  BY <1>3, <1>4, ClosedExits, RunLasts, PTL DEF Run
<1> QED
  BY <1>5, RunLasts, PTL DEF SignalledStops, Draining, Down
================================================================================
