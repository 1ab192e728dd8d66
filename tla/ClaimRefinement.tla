---------------------------- MODULE ClaimRefinement ----------------------------
(***************************************************************************)
(* ClaimManager implements ClaimContract under every schedule, and forgets *)
(* no claim: for every set of devices, OTPs and calls, every window and    *)
(* TTL, and whatever faults are allowed.  Under a fair schedule it also    *)
(* answers every claim, closes every window and decides every OTP.         *)
(***************************************************************************)
EXTENDS ClaimManagerProofs

(* The rows that calls work on exist: rows are never deleted. *)
RowsExist == \A c \in Call : call[c].pc # "idle" => status[call[c].otp] # "absent"

RInv == IInv /\ RowsExist

(* What Owed is made of: a call that holds the claim, or the open window.   *)
Holding == {"reload", "mark", "deliver", "kill", "notify"}
ByCall(c, d, o) ==
  /\ call[c].otp = o
  /\ \/ call[c].pc = "enter" /\ call[c].dev = d
     \/ call[c].pc \in Holding /\ Claimant(call[c].who, d)
ByWindow(d, o) == pending[o] # None /\ Claimant(pending[o].claimants, d)

LEMMA OwedSplit ==
  ASSUME NEW d, NEW o
  PROVE  /\ Owed(d, o) <=> ByWindow(d, o) \/ \E c \in Call : ByCall(c, d, o)
         /\ Owed(d, o)' <=> ByWindow(d, o)' \/ \E c \in Call : ByCall(c, d, o)'
  BY DEF Owed, ByCall, ByWindow, Holding

LEMMA OwingIs ==
  /\ Owing \in [Otp -> SUBSET Device] /\ Owing' \in [Otp -> SUBSET Device]
  /\ \A o \in Otp, d \in Device : /\ d \in Owing[o] <=> Owed(d, o)
                                  /\ d \in Owing'[o] <=> Owed(d, o)'
  BY DEF Owing

LEMMA OwingEqual ==
  ASSUME NEW F \in [Otp -> SUBSET Device],
         \A o \in Otp, d \in Device : Owed(d, o)' <=> d \in F[o]
  PROVE  Owing' = F
<1>1. \A o \in Otp : Owing'[o] = F[o]
  BY OwingIs
<1> QED
  BY <1>1, OwingIs

(* A step of c that passes its claims between itself and the window. *)
LEMMA NobodyDropped ==
  ASSUME NEW c \in Call,
         \A x \in Call, d \in Device, o \in Otp :
           x # c => (ByCall(x, d, o)' <=> ByCall(x, d, o)),
         \A d \in Device, o \in Otp :
           (ByCall(c, d, o) \/ ByWindow(d, o))' <=> ByCall(c, d, o) \/ ByWindow(d, o)
  PROVE  Owing' = Owing
<1>1. \A d \in Device, o \in Otp : Owed(d, o)' <=> Owed(d, o)
  BY OwedSplit
<1> HIDE DEF Owing
<1> QED
  BY <1>1, OwingIs

LEMMA NothingMoves ==
  ASSUME UNCHANGED <<call, pending>> PROVE Owing' = Owing
  BY DEF Owing, Owed

(* A step of c that is done with one claimant. *)
LEMMA OneDropped ==
  ASSUME NEW c \in Call, NEW w \in Device, NEW p \in Otp,
         UNCHANGED pending, \A x \in Call : x # c => call'[x] = call[x],
         \A d \in Device, o \in Otp :
           /\ ByCall(c, d, o)' => ByCall(c, d, o)
           /\ ByCall(c, d, o) /\ ~ByCall(c, d, o)' => d = w /\ o = p
  PROVE  Owing' \in {Owing, [Owing EXCEPT ![p] = @ \ {w}]}
<1>1. \A x \in Call, d \in Device, o \in Otp :
        x # c => (ByCall(x, d, o)' <=> ByCall(x, d, o))
  BY DEF ByCall
<1>2. \A d \in Device, o \in Otp : ByWindow(d, o)' <=> ByWindow(d, o)
  BY DEF ByWindow
<1>3. \A d \in Device, o \in Otp : d # w \/ o # p => (Owed(d, o)' <=> Owed(d, o))
  BY <1>1, <1>2, OwedSplit
<1>4. Owed(w, p)' => Owed(w, p)
  BY <1>1, <1>2, OwedSplit
<1>5. CASE Owed(w, p)' <=> Owed(w, p)
  <2>1. Owing' = Owing
    BY <1>3, <1>5, OwingIs
  <2> QED
    BY <2>1
<1>6. CASE ~Owed(w, p)'
  <2> DEFINE Less == [Owing EXCEPT ![p] = @ \ {w}]
  <2>1. Less \in [Otp -> SUBSET Device]
    BY OwingIs
  <2>2. \A o \in Otp, d \in Device :
          d \in Less[o] <=> d \in Owing[o] /\ (d # w \/ o # p)
    BY OwingIs
  <2>3. \A o \in Otp, d \in Device : Owed(d, o)' <=> d \in Less[o]
    BY <1>3, <1>6, <2>2, OwingIs
  <2> HIDE DEF Less
  <2>4. Owing' = Less
    BY <2>1, <2>3, OwingEqual
  <2> QED
    BY <2>4 DEF Less
<1> QED
  BY <1>4, <1>5, <1>6
--------------------------------------------------------------------------------
LEMMA RowStays ==
  ASSUME IInv, Next, NEW o \in Otp, status[o] # "absent" PROVE status'[o] # "absent"
  BY DecisionStep

(* What a step can do to the row a call works on. *)
LEMMA CallFrame ==
  ASSUME IInv, Next, NEW x \in Call
  PROVE  \/ call'[x].pc = "idle"
         \/ call[x].pc # "idle" /\ call'[x].otp = call[x].otp
         \/ \E d \in Device, o \in Otp : ClaimPending(x, d, o)
<1> USE DEF IInv, TypeOK, CallState
<1> DEFINE Framed == call'[x].pc = "idle" \/ (call[x].pc # "idle" /\ call'[x].otp = call[x].otp)
<1>0. ASSUME NEW c \in Call, call[c].pc # "idle",
             \/ Return(c) \/ \E l \in PC : Goto(c, l)
             \/ \E s : call' = [call EXCEPT ![c].who = s]
             \/ \E l, n : call' = [call EXCEPT ![c].pc = l, ![c].left = n]
             \/ \E l, s : call' = [call EXCEPT ![c].pc = l, ![c].who = s]
      PROVE  Framed
  <2>1. CASE Return(c)
    BY <1>0, <2>1 DEF Return, Idle
  <2>2. CASE \E l \in PC : Goto(c, l)
    BY <1>0, <2>2 DEF Goto
  <2>3. CASE \E s : call' = [call EXCEPT ![c].who = s]
    BY <1>0, <2>3
  <2>4. ASSUME NEW l, NEW n, call' = [call EXCEPT ![c].pc = l, ![c].left = n] PROVE Framed
    <3>1. call'[x] = IF x = c THEN [call[c] EXCEPT !.pc = l, !.left = n] ELSE call[x]
      BY <2>4
    <3>2. [call[c] EXCEPT !.pc = l, !.left = n].otp = call[c].otp
      OBVIOUS
    <3> QED
      BY <1>0, <3>1, <3>2
  <2>5. ASSUME NEW l, NEW t, call' = [call EXCEPT ![c].pc = l, ![c].who = t] PROVE Framed
    <3>1. call'[x] = IF x = c THEN [call[c] EXCEPT !.pc = l, !.who = t] ELSE call[x]
      BY <2>5
    <3>2. [call[c] EXCEPT !.pc = l, !.who = t].otp = call[c].otp
      OBVIOUS
    <3> QED
      BY <1>0, <3>1, <3>2
  <2> QED
    BY <1>0, <2>1, <2>2, <2>3, <2>4, <2>5
<1>1. ASSUME NEW c \in Call,
             OpenWindow(c) \/ Fire(c) \/ TakeWindow(c) \/ Reload(c) \/ Mark(c)
      PROVE  Framed
  <2>1. CASE OpenWindow(c)
    BY <1>0, <2>1 DEF OpenWindow
  <2>2. CASE Fire(c)
    BY <1>0, <2>2 DEF Fire, PC
  <2>3. CASE TakeWindow(c)
    <3>1. call[c].pc = "fired"
      BY <2>3 DEF TakeWindow
    <3>2. Return(c) \/ \E l, s : call' = [call EXCEPT ![c].pc = l, ![c].who = s]
      BY <2>3, Zenon DEF TakeWindow
    <3> QED
      BY <1>0, <3>1, <3>2
  <2>4. CASE Reload(c) \/ Mark(c)
    BY <1>0, <2>4 DEF Reload, Mark, PC
  <2> QED
    BY <1>1, <2>1, <2>2, <2>3, <2>4
<1>2. ASSUME NEW c \in Call,
             RepeatClaim(c) \/ Deliver(c) \/ Kill(c) \/ Notify(c) \/ Unwind(c)
      PROVE  Framed
  BY <1>0, <1>2 DEF RepeatClaim, Deliver, Kill, Notify, Unwind, PC
<1>3. ASSUME NEW c \in Call, SecondClaim(c) PROVE Framed
  <2>1. /\ call[c].otp \in Otp /\ pending[call[c].otp] # None /\ call[c].pc = "enter"
        /\ pending[call[c].otp].timer \in Call
        /\ call[pending[call[c].otp].timer].pc \in {"armed", "fired"}
    BY <1>3, CallHolds, WindowHolds DEF SecondClaim
  <2> QED
    BY <1>3, <2>1 DEF SecondClaim, Stopped, Idle
<1>4. ASSUME NEW c \in Call, NEW d \in Device, NEW o \in Otp, ClaimPending(c, d, o), c # x
      PROVE  call'[x] = call[x]
  BY <1>4 DEF ClaimPending
<1>5. ASSUME (\E o \in Otp : Ingest(o)) \/ Sweep \/ \E d \in Device, o \in Otp : ClaimRefused(d, o)
      PROVE  call'[x] = call[x]
  BY <1>5 DEF Ingest, Sweep, ClaimRefused
<1>6. ASSUME Crash PROVE call'[x].pc = "idle"
  BY <1>6 DEF Crash, Idle
<1>7. ASSUME Tick PROVE call'[x].pc = call[x].pc /\ call'[x].otp = call[x].otp
  BY <1>7 DEF Tick
<1> QED
  BY <1>1, <1>2, <1>3, <1>4, <1>5, <1>6, <1>7 DEF Next, Step

LEMMA RowsExistStep == IInv /\ RowsExist /\ Next => RowsExist'
<1> SUFFICES ASSUME IInv, RowsExist, Next, NEW x \in Call, call'[x].pc # "idle"
             PROVE  status'[call'[x].otp] # "absent"
    BY DEF RowsExist
<1>1. CASE call[x].pc # "idle" /\ call'[x].otp = call[x].otp
  BY <1>1, CallHolds, RowStays DEF RowsExist
<1>2. ASSUME NEW d \in Device, NEW o \in Otp, ClaimPending(x, d, o)
      PROVE  status'[call'[x].otp] # "absent"
  <2>1. status[o] # "absent" /\ call'[x].otp = o
    BY <1>2 DEF ClaimPending, Verdict, IInv, TypeOK
  <2> QED
    BY <2>1, RowStays
<1> QED
  BY <1>1, <1>2, CallFrame

LEMMA RowsInvariant == Spec => []RInv
<1>1. Init => RowsExist
  BY DEF Init, RowsExist, Idle
<1>2. IInv /\ RowsExist /\ [Next]_vars => RowsExist'
  <2>1. UNCHANGED vars /\ RowsExist => RowsExist'
    BY DEF vars, RowsExist
  <2> QED
    BY <2>1, RowsExistStep
<1> QED
  BY <1>1, <1>2, InductiveInvariant, PTL DEF Spec, RInv
--------------------------------------------------------------------------------
(* Steps between the registration of a claim and its answer.                *)
LEMMA PassedOn ==
  ASSUME RInv, NEW c \in Call,
         \/ OpenWindow(c) \/ RepeatClaim(c) \/ SecondClaim(c) \/ Fire(c) \/ TakeWindow(c)
         \/ Goto(c, "mark") /\ call[c].pc = "reload" /\ UNCHANGED pending
         \/ Goto(c, "deliver") /\ call[c].pc = "mark" /\ UNCHANGED pending
         \/ Goto(c, "notify") /\ call[c].pc = "kill" /\ UNCHANGED pending
  PROVE  Owing' = Owing
<1> DEFINE Others == \A x \in Call, d \in Device, o \in Otp :
                       x # c => (ByCall(x, d, o)' <=> ByCall(x, d, o))
           Same == \A d \in Device, o \in Otp :
                     (ByCall(c, d, o) \/ ByWindow(d, o))' <=> ByCall(c, d, o) \/ ByWindow(d, o)
<1> USE DEF RInv, IInv, TypeOK, CallState
<1>0. ASSUME \A x \in Call : x # c => call'[x] = call[x] PROVE Others
  BY <1>0 DEF ByCall
<1>1. CASE OpenWindow(c)
  <2>1. Others
    BY <1>0, <1>1 DEF OpenWindow
  <2>2. /\ call[c].otp \in Otp /\ call[c].pc = "enter" /\ pending[call[c].otp] = None
        /\ pending' = [pending EXCEPT ![call[c].otp] =
                         [claimants |-> <<call[c].dev>>, timer |-> c]]
        /\ call'[c].pc = "armed" /\ call'[c].otp = call[c].otp
        /\ [claimants |-> <<call[c].dev>>, timer |-> c] # None
    <3>1. call[c].otp \in Otp /\ call[c].dev \in Device
      BY <1>1, CallHolds DEF OpenWindow
    <3>2. [claimants |-> <<call[c].dev>>, timer |-> c] \in ClaimState
      BY <3>1 DEF ClaimState
    <3> QED
      BY <1>1, <3>1, <3>2, ManagerAssumption DEF OpenWindow, ManagerAssumption
  <2>3. Same
    BY <2>2, ClaimantOfOne DEF ByCall, ByWindow, Holding
  <2> QED
    BY <2>1, <2>3, NobodyDropped
<1>2. CASE RepeatClaim(c)
  <2>1. Others
    BY <1>0, <1>2 DEF RepeatClaim, Return
  <2>2. Same
    BY <1>2 DEF RepeatClaim, Return, Idle, ByCall, ByWindow, Holding
  <2> QED
    BY <2>1, <2>2, NobodyDropped
<1>3. CASE SecondClaim(c)
  <2> DEFINE o == call[c].otp  t == pending[o].timer  e == call[c].dev  a == call[t].dev
  <2>1. /\ o \in Otp /\ e \in Device /\ t \in Call /\ call[c].pc = "enter"
        /\ call[t].pc \in {"armed", "fired"} /\ pending[o] # None
        /\ pending[o].claimants = <<a>> /\ a \in Device
    <3>1. /\ o \in Otp /\ e \in Device /\ t \in Call /\ call[c].pc = "enter"
          /\ call[t].pc \in {"armed", "fired"} /\ pending[o] # None
          /\ pending[o].claimants = <<a>>
      BY <1>3, CallHolds, WindowHolds DEF SecondClaim
    <3> QED
      BY <3>1, CallHolds
  <2>2. /\ pending' = [pending EXCEPT ![o] = None] /\ t # c
        /\ call'[c].pc = "kill" /\ call'[c].otp = o /\ call'[c].who = <<a, e>>
        /\ call'[t].pc \in {"idle", "fired"}
        /\ \A x \in Call : x # c /\ x # t => call'[x] = call[x]
    BY <1>3, <2>1, AppendToOne DEF SecondClaim, CloseWindow, Stopped, Idle
  <2>3. Others
    <3> SUFFICES ASSUME NEW x \in Call, NEW d \in Device, NEW p \in Otp, x # c
                 PROVE  ByCall(x, d, p)' <=> ByCall(x, d, p)
        OBVIOUS
    <3>1. CASE x = t
      BY <2>1, <2>2, <3>1 DEF ByCall, Holding
    <3>2. CASE x # t
      BY <2>2, <3>2 DEF ByCall
    <3> QED
      BY <3>1, <3>2
  <2>4. Same
    <3> SUFFICES ASSUME NEW d \in Device, NEW p \in Otp
                 PROVE  (ByCall(c, d, p) \/ ByWindow(d, p))'
                          <=> ByCall(c, d, p) \/ ByWindow(d, p)
        OBVIOUS
    <3>0. Claimant(pending[o].claimants, d) <=> d = a
      BY <2>1, ClaimantOfOne
    <3>1. (ByCall(c, d, p) <=> p = o /\ d = e) /\ (p = o => (ByWindow(d, p) <=> d = a))
      BY <2>1, <3>0 DEF ByCall, ByWindow, Holding
    <3>2. ByCall(c, d, p)' <=> p = o /\ d \in {a, e}
      BY <2>2, ClaimantOfTwo DEF ByCall, Holding
    <3>3. IF p = o THEN ~ByWindow(d, p)' ELSE ByWindow(d, p)' <=> ByWindow(d, p)
      BY <2>2 DEF ByWindow
    <3> QED
      BY <3>1, <3>2, <3>3
  <2> QED
    BY <2>3, <2>4, NobodyDropped
<1>4. CASE Fire(c)
  <2>1. Others
    BY <1>0, <1>4 DEF Fire, Goto
  <2>2. Same
    BY <1>4 DEF Fire, Goto, ByCall, ByWindow, Holding
  <2> QED
    BY <2>1, <2>2, NobodyDropped
<1>5. CASE TakeWindow(c)
  <2>1. Others
    BY <1>0, <1>5 DEF TakeWindow, Return
  <2>2. call[c].otp \in Otp /\ call[c].pc = "fired"
    BY <1>5, CallHolds DEF TakeWindow
  <2>3. CASE pending[call[c].otp] = None
    <3>1. UNCHANGED pending /\ call'[c].pc = "idle"
      BY <1>5, <2>3 DEF TakeWindow, Return, Idle
    <3>2. Same
      BY <2>2, <3>1 DEF ByCall, ByWindow, Holding
    <3> QED
      BY <2>1, <3>2, NobodyDropped
  <2>4. CASE pending[call[c].otp] # None
    <3>1. /\ pending' = [pending EXCEPT ![call[c].otp] = None]
          /\ call'[c].pc \in {"kill", "reload"} /\ call'[c].otp = call[c].otp
          /\ call'[c].who = pending[call[c].otp].claimants
      BY <1>5, <2>2, <2>4 DEF TakeWindow, CloseWindow
    <3>2. Same
      BY <2>2, <2>4, <3>1 DEF ByCall, ByWindow, Holding
    <3> QED
      BY <2>1, <3>2, NobodyDropped
  <2> QED
    BY <2>3, <2>4
<1>6. ASSUME NEW l \in {"mark", "deliver", "notify"}, Goto(c, l), UNCHANGED pending,
             call[c].pc \in {"reload", "mark", "kill"}
      PROVE  Owing' = Owing
  <2>1. Others
    BY <1>0, <1>6 DEF Goto
  <2>2. Same
    BY <1>6 DEF Goto, ByCall, ByWindow, Holding
  <2> QED
    BY <2>1, <2>2, NobodyDropped
<1> QED
  BY <1>1, <1>2, <1>3, <1>4, <1>5, <1>6

(* A call that returns has one claimant left, the one it answers last.      *)
LEMMA LastAnswered ==
  ASSUME RInv, NEW c \in Call, Return(c), UNCHANGED pending,
         NEW w \in Device, call[c].who = <<w>>, call[c].pc \in Holding
  PROVE  /\ call[c].otp \in Otp /\ Owed(w, call[c].otp)
         /\ Owing' \in {Owing, [Owing EXCEPT ![call[c].otp] = @ \ {w}]}
<1> USE DEF RInv, IInv, TypeOK, CallState
<1>1. call[c].otp \in Otp /\ \A d : Claimant(call[c].who, d) <=> d = w
  BY CallHolds, ClaimantOfOne DEF Holding
<1>2. Owed(w, call[c].otp)
  BY <1>1 DEF Owed, Holding
<1>3. \A x \in Call : x # c => call'[x] = call[x]
  BY DEF Return
<1>4. call'[c].pc = "idle"
  BY DEF Return, Idle
<1>5. \A d \in Device, o \in Otp :
        /\ ByCall(c, d, o)' => ByCall(c, d, o)
        /\ ByCall(c, d, o) /\ ~ByCall(c, d, o)' => d = w /\ o = call[c].otp
  BY <1>1, <1>4 DEF ByCall, Holding
<1> QED
  BY <1>1, <1>2, <1>3, <1>5, OneDropped
--------------------------------------------------------------------------------
(* The steps of the contract, with what it takes for one of them to lose a  *)
(* claim.                                                                   *)
Accounted ==
  \/ \E o \in Otp : AnySchedule!Publish(o) \/ AnySchedule!Invalidate(o)
  \/ \E d \in Device, o \in Otp : AnySchedule!Register(d, o) \/ AnySchedule!Award(d, o)
  \/ \E d \in Device, o \in Otp, type \in Reply : AnySchedule!Answer(d, o, type)
  \/ \E S \in SUBSET Otp : AnySchedule!Expire(S)
  \/ AnySchedule!Pause
  \/ Crash /\ AnySchedule!Restart
  \/ /\ \E c \in Call : Unwind(c)
     /\ \E d \in Device, o \in Otp : AnySchedule!Forget(d, o)

(* Steps before a claim is registered, and those that no claim takes.       *)
LEMMA OtherSteps ==
  ASSUME RInv,
         \/ \E o \in Otp : Ingest(o)
         \/ \E d \in Device, o \in Otp : ClaimRefused(d, o)
         \/ \E c \in Call, d \in Device, o \in Otp : ClaimPending(c, d, o)
         \/ Sweep \/ Crash \/ Tick
  PROVE  Accounted
<1> USE DEF RInv, IInv, TypeOK, TableTypeOK
<1>1. ASSUME NEW o \in Otp, Ingest(o) PROVE AnySchedule!Publish(o)
  <2>1. Owing' = Owing
    BY <1>1, NothingMoves DEF Ingest
  <2>2. UNCHANGED claimedBy
    BY <1>1, TableAssumption DEF Ingest, InsertOTP, WinnerClaimed
  <2> QED
    BY <1>1, <2>1, <2>2 DEF Ingest, InsertOTP, Quiet, AnySchedule!Publish
<1>2. ASSUME NEW d \in Device, NEW o \in Otp, ClaimRefused(d, o) PROVE Accounted
  <2>1. UNCHANGED <<status, claimedBy>> /\ Owing' = Owing
    BY <1>2, NothingMoves DEF ClaimRefused, table
  <2>2. PICK type \in Reply : /\ out' = [to |-> d, otp |-> o, type |-> type]
                              /\ type = Verdict(o) \/ type = "err_internal"
    <3>1. Verdict(o) # "enter" => Verdict(o) \in Reply
      BY DEF Verdict, Reply
    <3>2. "err_internal" \in Reply
      BY DEF Reply
    <3> QED
      BY <1>2, <3>1, <3>2 DEF ClaimRefused, Send
  <2>3. AnySchedule!MayAnswer(d, o, type)
    BY <2>2 DEF AnySchedule!MayAnswer, Verdict, Reply, Status
  <2> QED
    BY <2>1, <2>2, <2>3 DEF AnySchedule!Answer, Accounted
<1>3. ASSUME NEW c \in Call, NEW d \in Device, NEW o \in Otp, ClaimPending(c, d, o)
      PROVE  AnySchedule!Register(d, o)
  <2>1. status[o] = "pending" /\ UNCHANGED <<status, claimedBy, pending>> /\ out' = None
    BY <1>3 DEF ClaimPending, Verdict, Status, table, Quiet
  <2>2. \A x \in Call, e \in Device, p \in Otp :
          ByCall(x, e, p)' <=> ByCall(x, e, p) \/ (x = c /\ e = d /\ p = o)
    BY <1>3 DEF ClaimPending, ByCall, Holding
  <2>3. \A e \in Device, p \in Otp : Owed(e, p)' <=> Owed(e, p) \/ (e = d /\ p = o)
    BY <2>1, <2>2, OwedSplit DEF ByWindow
  <2> DEFINE More == [Owing EXCEPT ![o] = @ \cup {d}]
  <2>4. More \in [Otp -> SUBSET Device]
    BY OwingIs
  <2>5. \A p \in Otp, e \in Device : Owed(e, p)' <=> e \in More[p]
    BY <2>3, OwingIs
  <2> HIDE DEF More
  <2>6. Owing' = More
    BY <2>4, <2>5, OwingEqual
  <2> QED
    BY <2>1, <2>6 DEF AnySchedule!Register, More
<1>4. ASSUME Sweep PROVE \E S \in SUBSET Otp : AnySchedule!Expire(S)
  <2> DEFINE Stale == {o \in Otp : status[o] = "pending" /\ Lapsed(o)}
  <2>1. Owing' = Owing
    BY <1>4, NothingMoves DEF Sweep
  <2>2. status \in [Otp -> Status]
    BY DEF RInv, IInv, TypeOK, TableTypeOK
  <2>3. CASE ExpireStaleOTPs
    <3>1. /\ \A o \in Stale : status[o] = "pending"
          /\ status' = [o \in Otp |-> IF o \in Stale THEN "expired" ELSE status[o]]
      BY <2>3 DEF ExpireStaleOTPs
    <3>2. AnySchedule!Expire(Stale)
      BY <1>4, <2>1, <2>3, <3>1 DEF Sweep, ExpireStaleOTPs, Quiet, AnySchedule!Expire
    <3> QED
      BY <3>2
  <2>4. CASE UNCHANGED table
    <3>1. AnySchedule!Expire({})
      BY <1>4, <2>1, <2>2, <2>4 DEF Sweep, table, Quiet, AnySchedule!Expire
    <3> QED
      BY <3>1
  <2> QED
    BY <1>4, <2>3, <2>4 DEF Sweep
<1>5. ASSUME Crash PROVE AnySchedule!Restart
  <2>1. \A d \in Device, o \in Otp : ~Owed(d, o)'
    BY <1>5 DEF Crash, Owed, Idle
  <2>2. Owing' = [o \in Otp |-> {}]
    <3> DEFINE Nobody == [o \in Otp |-> {}]
    <3>1. Nobody \in [Otp -> SUBSET Device] /\ \A o \in Otp : Nobody[o] = {}
      OBVIOUS
    <3> HIDE DEF Nobody
    <3>2. Owing' = Nobody
      BY <2>1, <3>1, OwingEqual
    <3> QED
      BY <3>2 DEF Nobody
  <2> QED
    BY <1>5, <2>2 DEF Crash, Quiet, table, AnySchedule!Restart
<1>6. ASSUME Tick PROVE AnySchedule!Pause
  <2>1. \A c \in Call : /\ call'[c].pc = call[c].pc /\ call'[c].otp = call[c].otp
                        /\ call'[c].dev = call[c].dev /\ call'[c].who = call[c].who
    BY <1>6 DEF Tick, CallState
  <2>2. \A d \in Device, o \in Otp : Owed(d, o)' <=> Owed(d, o)
    BY <1>6, <2>1, OwedSplit DEF Tick, ByCall, ByWindow
  <2>3. Owing' = Owing
    BY <2>2, OwingIs, OwingEqual
  <2> QED
    BY <1>6, <2>3 DEF Tick, AgeRows, Quiet, AnySchedule!Pause
<1> QED
  BY <1>1, <1>2, <1>3, <1>4, <1>5, <1>6 DEF Accounted

(* A call that answers one claimant and is done with it. *)
LEMMA AnswerGiven ==
  ASSUME RInv, NEW c \in Call, NEW w \in Device, NEW type \in Reply,
         call[c].otp \in Otp, Owed(w, call[c].otp), Send(w, call[c].otp, type),
         UNCHANGED <<status, claimedBy>>,
         Owing' \in {Owing, [Owing EXCEPT ![call[c].otp] = @ \ {w}]},
         \/ type = "err_expired" /\ call[c].pc # "idle"
         \/ type \in {"otp_invalidated", "err_internal"}
         \/ type = "otp_payload" /\ status[call[c].otp] \in {"claimed", "invalidated"}
  PROVE  Accounted
<1> DEFINE o == call[c].otp
<1>1. w \in Owing[o] /\ out' = [to |-> w, otp |-> o, type |-> type]
  BY OwingIs DEF Send
<1>2. AnySchedule!MayAnswer(w, o, type)
  BY <1>1 DEF AnySchedule!MayAnswer, RInv, RowsExist
<1>3. AnySchedule!Answer(w, o, type)
  BY <1>1, <1>2 DEF AnySchedule!Answer
<1> QED
  BY <1>3 DEF Accounted

LEMMA ClaimantTail ==
  ASSUME NEW s \in Seq(Device), s # <<>>, NEW d
  PROVE  /\ Head(s) \in Device /\ Tail(s) \in Seq(Device)
         /\ Claimant(s, d) <=> d = Head(s) \/ Claimant(Tail(s), d)
<1>1. /\ Head(s) \in Device /\ Head(s) = s[1]
      /\ Tail(s) \in Seq(Device) /\ Len(Tail(s)) = Len(s) - 1
      /\ \A i \in 1..Len(Tail(s)) : Tail(s)[i] = s[i + 1]
  BY HeadTailProperties
<1>2. Len(s) \in Nat \ {0}
  BY EmptySeq, LenProperties
<1>3. ASSUME NEW i \in 1..Len(s), s[i] = d PROVE d = Head(s) \/ Claimant(Tail(s), d)
  <2>1. CASE i = 1
    BY <1>1, <1>3, <2>1
  <2>2. CASE i # 1
    <3>1. i - 1 \in 1..Len(Tail(s)) /\ Tail(s)[i - 1] = s[i]
      BY <1>1, <1>2, <2>2
    <3> QED
      BY <1>3, <3>1 DEF Claimant
  <2> QED
    BY <2>1, <2>2
<1>4. ASSUME NEW i \in 1..Len(Tail(s)), Tail(s)[i] = d PROVE Claimant(s, d)
  <2>1. i + 1 \in 1..Len(s) /\ s[i + 1] = d
    BY <1>1, <1>2, <1>4
  <2> QED
    BY <2>1 DEF Claimant
<1>5. Claimant(s, Head(s))
  BY <1>1, <1>2 DEF Claimant
<1> QED
  BY <1>1, <1>3, <1>4, <1>5 DEF Claimant

LEMMA SingleSeq ==
  ASSUME NEW s \in Seq(Device), s # <<>>, Tail(s) = <<>> \/ Len(s) = 1
  PROVE  s = <<Head(s)>> /\ Head(s) \in Device
<1>1. Head(s) = s[1] /\ Head(s) \in Device /\ Len(Tail(s)) = Len(s) - 1 /\ Len(s) \in Nat
  BY HeadTailProperties, LenProperties
<1>2. Len(s) = 1
  <2>1. Tail(s) = <<>> => Len(Tail(s)) = 0
    BY EmptySeq
  <2> QED
    BY <1>1, <2>1
<1>3. s \in [1..1 -> Device]
  BY <1>2, LenProperties
<1> QED
  BY <1>1, <1>2, <1>3

(* The steps of a call. *)
LEMMA CallSteps ==
  ASSUME RInv, NEW c \in Call, Step(c) \/ Unwind(c) PROVE Accounted
<1> USE DEF RInv, IInv, TypeOK, TableTypeOK, Reply
<1> DEFINE o == call[c].otp
<1>0. call[c].pc # "idle" /\ o \in Otp /\ call[c].dev \in Device /\ call[c].who \in Seq(Device)
  <2>1. call[c].pc # "idle"
    BY DEF Step, Unwind, OpenWindow, RepeatClaim, SecondClaim, Fire, TakeWindow, Reload, Mark,
           Deliver, Kill, Notify
  <2> QED
    BY <2>1, CallHolds
<1>1. CASE OpenWindow(c) \/ RepeatClaim(c) \/ SecondClaim(c) \/ Fire(c) \/ TakeWindow(c)
  <2>1. Owing' = Owing
    BY <1>1, PassedOn
  <2>2. UNCHANGED <<status, claimedBy>> /\ out' = None
    BY <1>1 DEF OpenWindow, RepeatClaim, SecondClaim, Fire, TakeWindow, Quiet, table
  <2> QED
    BY <2>1, <2>2 DEF AnySchedule!Pause, Accounted
<1>2. ASSUME call[c].pc \in {"reload", "mark", "deliver"}
      PROVE  \E w \in Device : call[c].who = <<w>> /\ call[c].who[1] = w
  BY <1>2, <1>0, CallHolds DEF CallsOK, CallOK
<1>3. CASE Reload(c)
  <2>1. PICK w \in Device : call[c].who = <<w>> /\ call[c].who[1] = w
    BY <1>2, <1>3 DEF Reload
  <2>2. CASE Goto(c, "mark") /\ Quiet
    <3>1. Owing' = Owing
      BY <1>3, <2>2, PassedOn DEF Reload
    <3> QED
      BY <1>3, <2>2, <3>1 DEF Reload, Quiet, table, AnySchedule!Pause, Accounted
  <2>3. ASSUME NEW type \in {"err_expired", "err_internal"}, Return(c), Send(w, o, type)
        PROVE  Accounted
    <3>1. call[c].pc \in Holding /\ UNCHANGED <<pending, status, claimedBy>>
      BY <1>3 DEF Reload, Holding, table
    <3> QED
      BY <1>0, <2>1, <2>3, <3>1, LastAnswered, AnswerGiven
  <2> QED
    BY <1>3, <2>1, <2>2, <2>3 DEF Reload
<1>4. CASE Mark(c)
  <2>1. PICK w \in Device : call[c].who = <<w>> /\ call[c].who[1] = w
    BY <1>2, <1>4 DEF Mark
  <2>2. CASE SetOTPStatus(o, "claimed", w) /\ Goto(c, "deliver") /\ Quiet
    <3>1. Owing' = Owing
      BY <1>4, <2>2, PassedOn DEF Mark
    <3>2. w \in Owing[o]
      <4>1. Claimant(call[c].who, w)
        BY <2>1, ClaimantOfOne
      <4>2. Owed(w, o)
        BY <1>4, <4>1 DEF Mark, Owed
      <4> QED
        BY <1>0, <4>2, OwingIs
    <3>3. status[o] \in {"pending", "claimed", "invalidated", "expired"}
      BY <1>0, <2>2 DEF SetOTPStatus, Status
    <3>4. AnySchedule!Award(w, o)
      BY <2>2, <3>1, <3>2, <3>3 DEF SetOTPStatus, Quiet, AnySchedule!Award
    <3> QED
      BY <1>0, <3>4 DEF Accounted
  <2>3. CASE Return(c) /\ Send(w, o, "err_internal") /\ UNCHANGED table
    <3>1. call[c].pc \in Holding /\ UNCHANGED <<pending, status, claimedBy>>
      BY <1>4, <2>3 DEF Mark, Holding, table
    <3> QED
      BY <1>0, <2>1, <2>3, <3>1, LastAnswered, AnswerGiven
  <2> QED
    BY <1>4, <2>1, <2>2, <2>3 DEF Mark
<1>5. CASE Deliver(c)
  <2>1. PICK w \in Device : call[c].who = <<w>> /\ call[c].who[1] = w
    BY <1>2, <1>5 DEF Deliver
  <2>2. /\ call[c].pc \in Holding /\ UNCHANGED <<pending, status, claimedBy>>
        /\ Return(c) /\ Send(w, o, "otp_payload") /\ status[o] \in {"claimed", "invalidated"}
    BY <1>5, <2>1 DEF Deliver, Holding, table, CallsOK, CallOK
  <2> QED
    BY <1>0, <2>1, <2>2, LastAnswered, AnswerGiven
<1>6. CASE Kill(c)
  <2>1. Owing' = Owing
    BY <1>6, PassedOn DEF Kill
  <2>2. CASE SetOTPStatus(o, "invalidated", None)
    <3>1. PICK d, e \in rivals[o] : d # e /\ call[c].who = <<d, e>>
      BY <1>6 DEF Kill, CallsOK, CallOK
    <3>2. d \in Device /\ e \in Device
      BY <1>0, <3>1
    <3>3. d \in Owing[o] /\ e \in Owing[o]
      <4>1. Claimant(call[c].who, d) /\ Claimant(call[c].who, e)
        BY <3>1, ClaimantOfTwo
      <4>2. Owed(d, o) /\ Owed(e, o)
        BY <1>6, <4>1 DEF Kill, Owed
      <4> QED
        BY <1>0, <3>2, <4>2, OwingIs
    <3>4. status[o] \in {"pending", "claimed", "invalidated", "expired"}
      BY <1>0, <2>2 DEF SetOTPStatus, Status
    <3>5. AnySchedule!Invalidate(o)
      BY <1>6, <2>1, <2>2, <3>1, <3>3, <3>4
      DEF Kill, SetOTPStatus, Quiet, AnySchedule!Invalidate
    <3> QED
      BY <1>0, <3>5 DEF Accounted
  <2>3. CASE UNCHANGED table
    BY <1>6, <2>1, <2>3 DEF Kill, Quiet, table, AnySchedule!Pause, Accounted
  <2> QED
    BY <1>6, <2>2, <2>3 DEF Kill
<1>7. CASE Notify(c)
  <2> DEFINE w == Head(call[c].who)
  <2>1. call[c].who # <<>> /\ w \in Device /\ call[c].pc \in Holding
        /\ UNCHANGED <<pending, status, claimedBy>> /\ Send(w, o, "otp_invalidated")
    BY <1>0, <1>7, ClaimantTail DEF Notify, Holding, table, CallsOK, CallOK
  <2>2. CASE Tail(call[c].who) = <<>>
    <3>1. Return(c) /\ call[c].who = <<w>>
      BY <1>0, <1>7, <2>1, <2>2, SingleSeq DEF Notify
    <3> QED
      BY <1>0, <2>1, <3>1, LastAnswered, AnswerGiven
  <2>3. CASE Tail(call[c].who) # <<>>
    <3>1. call' = [call EXCEPT ![c].who = Tail(call[c].who)] /\ call[c].pc = "notify"
      BY <1>7, <2>3 DEF Notify
    <3>2. /\ call'[c].pc = "notify" /\ call'[c].otp = o /\ call'[c].who = Tail(call[c].who)
          /\ \A x \in Call : x # c => call'[x] = call[x]
      BY <3>1
    <3>3. \A d : Claimant(call[c].who, d) <=> d = w \/ Claimant(Tail(call[c].who), d)
      BY <1>0, <2>1, ClaimantTail
    <3>4. \A d \in Device, p \in Otp :
            /\ ByCall(c, d, p)' => ByCall(c, d, p)
            /\ ByCall(c, d, p) /\ ~ByCall(c, d, p)' => d = w /\ p = o
      BY <3>1, <3>2, <3>3 DEF ByCall, Holding
    <3>5. Owing' \in {Owing, [Owing EXCEPT ![o] = @ \ {w}]}
      BY <1>0, <2>1, <3>2, <3>4, OneDropped
    <3>6. Owed(w, o)
      BY <2>1, <3>3 DEF Owed, Holding
    <3> QED
      BY <1>0, <2>1, <3>5, <3>6, AnswerGiven
  <2> QED
    BY <2>2, <2>3
<1>8. CASE Unwind(c)
  <2> DEFINE w == Head(call[c].who)
  <2>1. /\ call[c].who = <<w>> /\ w \in Device /\ Return(c) /\ call[c].pc \in Holding
        /\ UNCHANGED <<pending, status, claimedBy>> /\ out' = None /\ "panic" \in Faults
    BY <1>0, <1>8, SingleSeq DEF Unwind, Holding, Quiet, table, CallsOK, CallOK
  <2>2. Owing' \in {Owing, [Owing EXCEPT ![o] = @ \ {w}]}
    BY <2>1, LastAnswered
  <2>3. CASE Owing' = Owing
    BY <2>1, <2>3 DEF AnySchedule!Pause, Accounted
  <2>4. CASE Owing' = [Owing EXCEPT ![o] = @ \ {w}]
    BY <1>0, <1>8, <2>1, <2>4 DEF AnySchedule!Forget, Accounted
  <2> QED
    BY <2>2, <2>3, <2>4
<1> QED
  BY <1>1, <1>3, <1>4, <1>5, <1>6, <1>7, <1>8 DEF Step

LEMMA StepAccounted ==
  ASSUME RInv, Next PROVE Accounted
  BY CallSteps, OtherSteps DEF Next
--------------------------------------------------------------------------------
(* The manager implements its contract: claims are registered only while    *)
(* the row is up for grabs, rows go to registered claimants or are killed   *)
(* between two, payloads follow settled rows, and a claim ends with an      *)
(* answer.                                                                  *)
THEOREM ManagerKeepsContract == Spec => KeepsContract
<1>1. Init => AnySchedule!Init
  <2> SUFFICES ASSUME Init PROVE AnySchedule!Init
      OBVIOUS
  <2>1. \A d \in Device, o \in Otp : ~Owed(d, o)
    BY DEF Init, Owed, Idle
  <2> QED
    BY <2>1 DEF Init, TableInit, AnySchedule!Init, Owing
<1>2. RInv /\ [Next]_vars => [AnySchedule!Next]_(AnySchedule!cvars)
  <2>1. ASSUME RInv, Next PROVE AnySchedule!Next
    BY <2>1, StepAccounted DEF Accounted, AnySchedule!Next, Reply, AnySchedule!Reply
  <2>2. ASSUME UNCHANGED vars PROVE UNCHANGED AnySchedule!cvars
    BY <2>2, NothingMoves DEF vars, AnySchedule!cvars
  <2> QED
    BY <2>1, <2>2
<1> QED
  BY <1>1, <1>2, RowsInvariant, PTL DEF Spec, KeepsContract, AnySchedule!Spec

(* A device ceases to be owed an answer only by being sent one, unless the  *)
(* process or the handler that was answering it dies.                       *)
LEMMA ForgottenStep ==
  ASSUME RInv, Next, NEW d \in Device, NEW o \in Otp, Owed(d, o), ~Owed(d, o)'
  PROVE  Answered(d, o)' \/ Crash \/ \E c \in Call : Unwind(c)
<1>1. d \in Owing[o] /\ d \notin Owing'[o]
  BY OwingIs
<1>2. ASSUME NEW x \in Device, NEW p \in Otp, NEW type \in Reply, AnySchedule!Answer(x, p, type)
      PROVE  Answered(d, o)'
  <2>1. Owing' \in {Owing, [Owing EXCEPT ![p] = @ \ {x}]}
        /\ out' = [to |-> x, otp |-> p, type |-> type]
    BY <1>2 DEF AnySchedule!Answer
  <2>2. x = d /\ p = o
    BY <1>1, <2>1, OwingIs
  <2>3. out' \in Envelope /\ None \notin Envelope
    BY <2>1, ManagerAssumption DEF Envelope, ManagerAssumption
  <2> QED
    BY <2>1, <2>2, <2>3 DEF Answered
<1>3. ASSUME \/ \E p \in Otp : AnySchedule!Publish(p) \/ AnySchedule!Invalidate(p)
             \/ \E x \in Device, p \in Otp : AnySchedule!Register(x, p) \/ AnySchedule!Award(x, p)
             \/ \E S \in SUBSET Otp : AnySchedule!Expire(S)
             \/ AnySchedule!Pause
      PROVE  FALSE
  <2>1. Owing' = Owing \/ \E x \in Device, p \in Otp : Owing' = [Owing EXCEPT ![p] = @ \cup {x}]
    BY <1>3 DEF AnySchedule!Publish, AnySchedule!Invalidate, AnySchedule!Register,
                AnySchedule!Award, AnySchedule!Expire, AnySchedule!Pause
  <2> QED
    BY <1>1, <2>1, OwingIs
<1> QED
  BY <1>2, <1>3, StepAccounted DEF Accounted

(* No claim that was taken in is dropped unanswered, however windows overlap *)
(* and statements fail, while the process and the handlers live.             *)
THEOREM NothingForgotten == Spec => NoClaimForgotten
<1>1. RInv /\ [Next]_vars =>
        [\A d \in Device, o \in Otp :
           Owed(d, o) /\ ~Owed(d, o)'
             => Answered(d, o)' \/ Crash \/ \E c \in Call : Unwind(c)]_vars
  BY ForgottenStep
<1> QED
  BY <1>1, RowsInvariant, PTL DEF Spec, NoClaimForgotten
--------------------------------------------------------------------------------
(* Liveness.  The theorems below are about the runs of FairSpec; two facts   *)
(* that the provers cannot reach stand among their hypotheses.  One is that  *)
(* the guards of a step, of a sweep and of the clock are all that these      *)
(* need: ENABLED is only a name to the provers.                              *)
CanStep(c) == ENABLED <<Step(c)>>_vars
CanSweep == ENABLED <<Swept>>_vars
CanTick == ENABLED <<Tick>>_vars
GuardsSuffice ==
  /\ \A c \in Call : Runnable(c) => CanStep(c)
  /\ \A o \in Otp : status[o] = "pending" /\ Lapsed(o) => CanSweep
  /\ ~Prompt /\ (\E c \in Call : call[c].left > 0) => CanTick
  /\ ~Prompt /\ (\E o \in Otp : ~Lapsed(o)) => CanTick

Open(o) == pending[o] # None
Closed(o) == pending[o] = None
Counting(o, c, n) ==
  Open(o) /\ pending[o].timer = c /\ call[c].pc = "armed" /\ call[c].left = n
Ringing(o, c) == Open(o) /\ pending[o].timer = c /\ call[c].pc = "fired"
Undecided(o, n) == status[o] = "pending" /\ life[o] = n
Decided(o) == status[o] # "pending"

(* The other is that a number which falls until something happens does not   *)
(* fall for ever.  It is so in every behaviour, by induction on the number;  *)
(* but the induction is over temporal formulas, from which no set of         *)
(* numbers can be formed for the library's theorems to be about.             *)
TimerFalls(o, c, n) == Counting(o, c, n) ~> Counting(o, c, n - 1) \/ Closed(o)
TimerLands(o, c, n) == Counting(o, c, n) ~> Counting(o, c, 0) \/ Closed(o)
RowFalls(o, n) == Undecided(o, n) ~> Undecided(o, n - 1) \/ Decided(o)
RowLands(o, n) == Undecided(o, n) ~> Undecided(o, 0) \/ Decided(o)
CountdownsEnd ==
  /\ \A o \in Otp, c \in Call :
       (\A n \in Nat \ {0} : TimerFalls(o, c, n)) => \A n \in Nat : TimerLands(o, c, n)
  /\ \A o \in Otp :
       (\A n \in Nat \ {0} : RowFalls(o, n)) => \A n \in Nat : RowLands(o, n)

Scheduled == Spec /\ []Fairness /\ []GuardsSuffice /\ []CountdownsEnd

(* What holds of a scheduled run, and of every suffix of it. *)
Run == []RInv /\ [][Next]_vars /\ []Fairness /\ []GuardsSuffice /\ []CountdownsEnd

LEMMA RunLasts == (Scheduled => Run) /\ (Run => []Run)
  BY RowsInvariant, PTL DEF Run, Scheduled, Spec

LEMMA RunCounts == Run => CountdownsEnd
  BY PTL DEF Run

LEMMA CallServed == ASSUME NEW c \in Call PROVE Fairness => Served(c)
  BY DEF Fairness

(* An open window stays what it is until it is closed, and its timer does   *)
(* nothing but run down and fire.                                           *)
LEMMA WindowPersists ==
  ASSUME IInv, Next, NEW o \in Otp, pending[o] # None, pending'[o] # None
  PROVE  LET t == pending[o].timer IN
         /\ pending'[o] = pending[o]
         /\ \/ call'[t] = call[t]
            \/ Fire(t)
            \/ call[t].left > 0 /\ call'[t] = [call[t] EXCEPT !.left = @ - 1]
<1> DEFINE t == pending[o].timer
           Still == pending'[o] = pending[o] /\ call'[t] = call[t]
<1>a. /\ call \in [Call -> CallState] /\ pending \in [Otp -> ClaimState \cup {None}]
      /\ t \in Call /\ call[t].pc \in {"armed", "fired"} /\ call[t].otp = o
  BY WindowHolds DEF IInv, TypeOK
<1> HIDE DEF t
<1>1. ASSUME \/ \E x \in Otp : Ingest(x)
             \/ \E d \in Device, x \in Otp : ClaimRefused(d, x)
             \/ Sweep
      PROVE  Still
  BY <1>1 DEF Ingest, ClaimRefused, Sweep
<1>2. ASSUME NEW c \in Call, NEW d \in Device, NEW x \in Otp, ClaimPending(c, d, x)
      PROVE  Still
  BY <1>2, <1>a DEF ClaimPending
<1>3. ASSUME NEW c \in Call, OpenWindow(c) PROVE Still
  BY <1>3, <1>a, CallHolds DEF OpenWindow
<1>4. ASSUME NEW c \in Call, \/ RepeatClaim(c) \/ Reload(c) \/ Mark(c) \/ Deliver(c)
                             \/ Kill(c) \/ Notify(c) \/ Unwind(c)
      PROVE  Still
  BY <1>4, <1>a DEF RepeatClaim, Reload, Mark, Deliver, Kill, Notify, Unwind, Return, Goto
<1>5. ASSUME NEW c \in Call, SecondClaim(c) PROVE Still
  <2>1. /\ call[c].otp \in Otp /\ call[c].pc = "enter" /\ pending[call[c].otp] # None
        /\ pending[call[c].otp].timer \in Call
        /\ call[pending[call[c].otp].timer].otp = call[c].otp
        /\ pending' = [pending EXCEPT ![call[c].otp] = None]
    BY <1>5, CallHolds, WindowHolds DEF SecondClaim, CloseWindow
  <2>2. call[c].otp # o
    BY <2>1, <1>a
  <2> QED
    BY <1>5, <1>a, <2>1, <2>2 DEF SecondClaim
<1>6. ASSUME NEW c \in Call, Fire(c) PROVE Still \/ (pending'[o] = pending[o] /\ Fire(t))
  BY <1>6, <1>a DEF Fire, Goto
<1>7. ASSUME NEW c \in Call, TakeWindow(c) PROVE Still
  <2>1. call[c].otp # o
    BY <1>7, <1>a DEF TakeWindow, CloseWindow
  <2>2. c # t
    BY <2>1, <1>a
  <2> QED
    BY <1>7, <1>a, <2>1, <2>2, CallHolds DEF TakeWindow, CloseWindow, Return
<1>8. ~Crash
  BY DEF Crash
<1>9. ASSUME Tick
      PROVE  /\ pending'[o] = pending[o]
             /\ \/ call'[t] = call[t]
                \/ call[t].left > 0 /\ call'[t] = [call[t] EXCEPT !.left = @ - 1]
  BY <1>9, <1>a DEF Tick
<1> QED
  BY <1>1, <1>2, <1>3, <1>4, <1>5, <1>6, <1>7, <1>8, <1>9 DEF Next, Step, t

LEMMA RingingCloses ==
  ASSUME NEW o \in Otp, NEW c \in Call PROVE Run => (Ringing(o, c) ~> Closed(o))
<1>1. RInv /\ Ringing(o, c) /\ [Next]_vars => Ringing(o, c)' \/ Closed(o)'
  <2> SUFFICES ASSUME RInv, Ringing(o, c), [Next]_vars PROVE Ringing(o, c)' \/ Closed(o)'
      OBVIOUS
  <2>1. CASE UNCHANGED vars
    BY <2>1 DEF vars, Ringing, Open
  <2>2. CASE Next
    BY <2>2, WindowPersists DEF RInv, Ringing, Open, Closed, Fire, RInv, IInv, TypeOK, CallState
  <2> QED
    BY <2>1, <2>2
<1>2. RInv /\ Ringing(o, c) /\ <<Step(c)>>_vars => Closed(o)'
  <2> SUFFICES ASSUME RInv, Ringing(o, c), Step(c) PROVE Closed(o)'
      OBVIOUS
  <2>1. TakeWindow(c) /\ call[c].otp = o
    BY WindowHolds DEF RInv, Ringing, Open, Step, OpenWindow, RepeatClaim, SecondClaim, Fire,
                       Reload, Mark, Deliver, Kill, Notify
  <2> QED
    BY <2>1 DEF TakeWindow, CloseWindow, Ringing, Open, Closed, RInv, IInv, TypeOK
<1>3. Ringing(o, c) /\ GuardsSuffice => CanStep(c)
  BY DEF Ringing, Runnable, GuardsSuffice
<1> QED
  BY <1>1, <1>2, <1>3, CallServed, PTL DEF Run, CanStep, Served

(* Its time runs out and it fires. *)
LEMMA ExpiredCloses ==
  ASSUME NEW o \in Otp, NEW c \in Call PROVE Run => (Counting(o, c, 0) ~> Closed(o))
<1>1. RInv /\ Counting(o, c, 0) /\ [Next]_vars =>
        Counting(o, c, 0)' \/ Ringing(o, c)' \/ Closed(o)'
  <2> SUFFICES ASSUME RInv, Counting(o, c, 0), [Next]_vars, ~Closed(o)'
               PROVE  Counting(o, c, 0)' \/ Ringing(o, c)'
      OBVIOUS
  <2>1. CASE UNCHANGED vars
    BY <2>1 DEF vars, Counting, Open
  <2>2. CASE Next
    <3>1. pending[o].timer = c /\ pending[o] # None /\ pending'[o] # None /\ ~(call[c].left > 0)
      BY DEF Counting, Open, Closed
    <3>2. pending'[o] = pending[o] /\ (call'[c] = call[c] \/ Fire(c))
      BY <2>2, <3>1, WindowPersists DEF RInv
    <3> QED
      BY <3>1, <3>2 DEF Fire, Goto, Counting, Ringing, Open, RInv, IInv, TypeOK, CallState
  <2> QED
    BY <2>1, <2>2
<1>2. RInv /\ Counting(o, c, 0) /\ <<Step(c)>>_vars => ~Counting(o, c, 0)'
  <2> SUFFICES ASSUME RInv, Counting(o, c, 0), Step(c) PROVE ~Counting(o, c, 0)'
      OBVIOUS
  <2>1. Fire(c)
    BY DEF RInv, Counting, Open, Step, OpenWindow, RepeatClaim, SecondClaim, TakeWindow,
           Reload, Mark, Deliver, Kill, Notify
  <2> QED
    BY <2>1 DEF Fire, Goto, Counting, Open, RInv, IInv, TypeOK, CallState
<1>3. Counting(o, c, 0) /\ GuardsSuffice => CanStep(c)
  BY DEF Counting, Runnable, GuardsSuffice
<1> QED
  BY <1>1, <1>2, <1>3, RingingCloses, RunLasts, CallServed, PTL DEF Run, CanStep, Served

LEMMA CountsDown ==
  ASSUME NEW o \in Otp, NEW c \in Call, NEW n \in Nat \ {0}, ~Prompt
  PROVE  Run => TimerFalls(o, c, n)
<1>1. RInv /\ Counting(o, c, n) /\ [Next]_vars =>
        Counting(o, c, n)' \/ Counting(o, c, n - 1)' \/ Closed(o)'
  <2> SUFFICES ASSUME RInv, Counting(o, c, n), [Next]_vars, ~Closed(o)'
               PROVE  Counting(o, c, n)' \/ Counting(o, c, n - 1)'
      OBVIOUS
  <2>1. CASE UNCHANGED vars
    BY <2>1 DEF vars, Counting, Open
  <2>2. CASE Next
    <3>1. /\ pending'[o] = pending[o]
          /\ call'[c] = call[c] \/ call'[c] = [call[c] EXCEPT !.left = @ - 1]
      BY <2>2, WindowPersists DEF RInv, Counting, Open, Closed, Fire
    <3> QED
      BY <3>1 DEF Counting, Open, RInv, IInv, TypeOK, CallState
  <2> QED
    BY <2>1, <2>2
<1>2. RInv /\ Counting(o, c, n) /\ <<Tick>>_vars => ~Counting(o, c, n)'
  BY DEF Tick, Counting, RInv, IInv, TypeOK, CallState
<1>3. Counting(o, c, n) /\ GuardsSuffice => CanTick
  BY DEF Counting, GuardsSuffice
<1>4. Fairness => TimePasses
  BY DEF Fairness
<1> QED
  BY <1>1, <1>2, <1>3, <1>4, PTL DEF Run, CanTick, TimePasses, TimerFalls

LEMMA CountingCloses ==
  ASSUME NEW o \in Otp, NEW c \in Call, NEW n \in Nat, ~Prompt
  PROVE  Run => (Counting(o, c, n) ~> Closed(o))
<1>1. ASSUME NEW k \in Nat \ {0} PROVE Run => TimerFalls(o, c, k)
  BY CountsDown
<1>2. Run => TimerLands(o, c, n)
  BY <1>1, RunCounts DEF CountdownsEnd
<1>3. Run => (Counting(o, c, 0) ~> Closed(o))
  BY ExpiredCloses
<1> QED
  BY <1>2, <1>3, RunLasts, PTL DEF TimerLands

LEMMA OpenCloses ==
  ASSUME NEW o \in Otp, ~Prompt PROVE Run => (Open(o) ~> Closed(o))
<1>1. ASSUME NEW c \in Call PROVE Run => (Ringing(o, c) => <>Closed(o))
  BY RingingCloses, PTL
<1>2. ASSUME NEW c \in Call, NEW n \in Nat
      PROVE  Run => (Counting(o, c, n) => <>Closed(o))
  <2>1. Run => (Counting(o, c, n) ~> Closed(o))
    BY CountingCloses
  <2> QED
    BY <2>1, PTL
<1>3. RInv /\ Open(o) => \E c \in Call : Ringing(o, c) \/ \E n \in Nat : Counting(o, c, n)
  <2> SUFFICES ASSUME RInv, Open(o)
               PROVE  \E c \in Call : Ringing(o, c) \/ \E n \in Nat : Counting(o, c, n)
      OBVIOUS
  <2>1. pending[o].timer \in Call /\ call[pending[o].timer].pc \in {"armed", "fired"}
    BY WindowHolds DEF RInv, Open
  <2>2. call[pending[o].timer].left \in Nat
    BY <2>1, ManagerAssumption DEF RInv, IInv, TypeOK, CallState, ManagerAssumption
  <2> QED
    BY <2>1, <2>2 DEF Ringing, Counting, Open
<1>4. Run /\ RInv => (Open(o) => <>Closed(o))
  BY <1>1, <1>2, <1>3
<1> QED
  BY <1>4, RunLasts, PTL DEF Run

(* The pending map does not leak: every window that opens is closed, on any *)
(* schedule that is fair, whatever the database does and whether or not the *)
(* process crashes.                                                         *)
THEOREM WindowsAreClosed == ~Prompt /\ Scheduled => WindowCloses
<1> SUFFICES ASSUME ~Prompt PROVE Scheduled => WindowCloses
    OBVIOUS
<1> DEFINE Shut(o) == Open(o) ~> Closed(o)
<1>1. ASSUME NEW o \in Otp PROVE Run => Shut(o)
  BY OpenCloses
<1>2. Run => \A o \in Otp : Shut(o)
  <2> HIDE DEF Shut
  <2> QED
    BY <1>1
<1>3. (\A o \in Otp : Shut(o)) => WindowCloses
  BY DEF WindowCloses, Open, Closed
<1> QED
  BY <1>2, <1>3, RunLasts, PTL
--------------------------------------------------------------------------------
(* The clock alone touches the life of a row that is pending. *)
LEMMA PendingMoves ==
  ASSUME RInv, [Next]_vars, NEW o \in Otp, NEW n \in Nat, Undecided(o, n)
  PROVE  \/ Decided(o)' \/ Undecided(o, n)'
         \/ n # 0 /\ Undecided(o, n - 1)'
<1> USE DEF RInv, IInv, TypeOK, TableTypeOK, Undecided, Decided
<1>1. ASSUME life' = life PROVE Decided(o)' \/ Undecided(o, n)'
  BY <1>1
<1>2. ASSUME NEW x \in Otp, Ingest(x) PROVE Undecided(o, n)'
  BY <1>2 DEF Ingest, InsertOTP
<1>3. ASSUME Tick PROVE Undecided(o, n)' \/ (n # 0 /\ Undecided(o, n - 1)')
  BY <1>3 DEF Tick, AgeRows, Lapsed
<1>4. ASSUME NEW c \in Call, Step(c) \/ Unwind(c) PROVE life' = life
  BY <1>4 DEF Step, Unwind, OpenWindow, RepeatClaim, SecondClaim, Fire, TakeWindow, Reload,
              Mark, Deliver, Kill, Notify, SetOTPStatus, table
<1>5. ASSUME \/ \E d \in Device, x \in Otp : ClaimRefused(d, x)
             \/ \E c \in Call, d \in Device, x \in Otp : ClaimPending(c, d, x)
             \/ Sweep \/ Crash \/ UNCHANGED vars
      PROVE  life' = life
  BY <1>5 DEF ClaimRefused, ClaimPending, Sweep, ExpireStaleOTPs, Crash, table, vars
<1> QED
  BY <1>1, <1>2, <1>3, <1>4, <1>5 DEF Next

LEMMA StaleDecided ==
  ASSUME NEW o \in Otp PROVE Run => (Undecided(o, 0) ~> Decided(o))
<1>1. RInv /\ Undecided(o, 0) /\ [Next]_vars => Undecided(o, 0)' \/ Decided(o)'
  BY PendingMoves
<1>2. RInv /\ Undecided(o, 0) /\ <<Swept>>_vars => Decided(o)'
  BY DEF Swept, Sweep, ExpireStaleOTPs, Lapsed, Undecided, Decided, RInv, IInv, TypeOK, TableTypeOK
<1>3. Undecided(o, 0) /\ GuardsSuffice => CanSweep
  BY DEF Undecided, Lapsed, GuardsSuffice
<1>4. Fairness => JanitorRuns
  BY DEF Fairness
<1> QED
  BY <1>1, <1>2, <1>3, <1>4, PTL DEF Run, CanSweep, JanitorRuns

LEMMA RowAges ==
  ASSUME NEW o \in Otp, NEW n \in Nat \ {0}, ~Prompt
  PROVE  Run => RowFalls(o, n)
<1>1. RInv /\ Undecided(o, n) /\ [Next]_vars =>
        Undecided(o, n)' \/ Undecided(o, n - 1)' \/ Decided(o)'
  BY PendingMoves
<1>2. RInv /\ Undecided(o, n) /\ <<Tick>>_vars => ~Undecided(o, n)'
  BY DEF Tick, AgeRows, Lapsed, Undecided, RInv, IInv, TypeOK, TableTypeOK
<1>3. Undecided(o, n) /\ GuardsSuffice => CanTick
  BY DEF Undecided, Lapsed, GuardsSuffice
<1>4. Fairness => TimePasses
  BY DEF Fairness
<1> QED
  BY <1>1, <1>2, <1>3, <1>4, PTL DEF Run, CanTick, TimePasses, RowFalls

LEMMA AgingDecided ==
  ASSUME NEW o \in Otp, NEW n \in Nat, ~Prompt
  PROVE  Run => (Undecided(o, n) ~> Decided(o))
<1>1. ASSUME NEW k \in Nat \ {0} PROVE Run => RowFalls(o, k)
  BY RowAges
<1>2. Run => RowLands(o, n)
  BY <1>1, RunCounts DEF CountdownsEnd
<1>3. Run => (Undecided(o, 0) ~> Decided(o))
  BY StaleDecided
<1> QED
  BY <1>2, <1>3, RunLasts, PTL DEF RowLands

(* Every OTP is decided: a row that nobody claims in time is swept, and one *)
(* that is claimed, invalidated or lost to a crash on the way does not stay *)
(* pending either.                                                          *)
THEOREM EveryOtpIsDecided == ~Prompt /\ Scheduled => PendingEnds
<1> SUFFICES ASSUME ~Prompt PROVE Scheduled => PendingEnds
    OBVIOUS
<1> DEFINE Ends(o) == status[o] = "pending" ~> Decided(o)
<1>1. ASSUME NEW o \in Otp PROVE Run => Ends(o)
  <2>1. ASSUME NEW n \in Nat PROVE Run => (Undecided(o, n) => <>Decided(o))
    BY AgingDecided, PTL
  <2>2. RInv /\ status[o] = "pending" => \E n \in Nat : Undecided(o, n)
    BY TableAssumption DEF TableAssumption, RInv, IInv, TypeOK, TableTypeOK, Undecided
  <2>3. Run /\ RInv => (status[o] = "pending" => <>Decided(o))
    BY <2>1, <2>2
  <2> QED
    BY <2>3, RunLasts, PTL DEF Run
<1>2. Run => \A o \in Otp : Ends(o)
  <2> HIDE DEF Ends
  <2> QED
    BY <1>1
<1>3. (\A o \in Otp : Ends(o)) => PendingEnds
  BY DEF PendingEnds, Decided
<1> QED
  BY <1>2, <1>3, RunLasts, PTL
--------------------------------------------------------------------------------
(* Nothing kills the process or a handler. *)
Calm == "crash" \notin Faults /\ "panic" \notin Faults

Waiting(c, d, o) == call[c].pc = "enter" /\ call[c].dev = d /\ call[c].otp = o
Held(c, d, o) ==
  call[c].pc \in Holding /\ call[c].otp = o /\ Claimant(call[c].who, d)
SomeWaiting(d, o) == \E c \in Call : Waiting(c, d, o)
SomeHeld(d, o) == \E c \in Call : Held(c, d, o)

(* A call that is under way is moved by nobody but itself. *)
LEMMA CallRests ==
  ASSUME RInv, Calm, [Next]_vars, NEW c \in Call,
         call[c].pc \notin {"idle", "armed", "fired"}, ~Step(c)
  PROVE  /\ call'[c].pc = call[c].pc /\ call'[c].dev = call[c].dev
         /\ call'[c].otp = call[c].otp /\ call'[c].who = call[c].who
<1> USE DEF RInv, IInv, TypeOK, CallState
<1> DEFINE Rests == /\ call'[c].pc = call[c].pc /\ call'[c].dev = call[c].dev
                    /\ call'[c].otp = call[c].otp /\ call'[c].who = call[c].who
<1>1. ASSUME NEW x \in Call, x # c, SecondClaim(x) PROVE call'[c] = call[c]
  <2>1. /\ pending[call[x].otp].timer \in Call
        /\ call[pending[call[x].otp].timer].pc \in {"armed", "fired"}
    BY <1>1, CallHolds, WindowHolds DEF SecondClaim
  <2> QED
    BY <1>1, <2>1 DEF SecondClaim
<1>2. ASSUME NEW x \in Call, x # c, Step(x), ~SecondClaim(x) PROVE call'[c] = call[c]
  BY <1>2 DEF Step, OpenWindow, RepeatClaim, Fire, TakeWindow, Reload, Mark, Deliver,
              Kill, Notify, Return, Goto
<1>3. ASSUME NEW x \in Call, NEW d \in Device, NEW o \in Otp, ClaimPending(x, d, o)
      PROVE  call'[c] = call[c]
  BY <1>3 DEF ClaimPending
<1>4. ASSUME Tick PROVE Rests
  BY <1>4 DEF Tick
<1>5. ASSUME \/ \E o \in Otp : Ingest(o)
             \/ \E d \in Device, o \in Otp : ClaimRefused(d, o)
             \/ Sweep \/ UNCHANGED vars
      PROVE  call'[c] = call[c]
  BY <1>5 DEF Ingest, ClaimRefused, Sweep, vars
<1>6. ~Crash /\ \A x \in Call : ~Unwind(x)
  BY DEF Calm, Crash, Unwind
<1> QED
  BY <1>1, <1>2, <1>3, <1>4, <1>5, <1>6 DEF Next

(* What the goroutine that holds a claim does next answers it or leaves     *)
(* less to do before it is answered.                                        *)
LEMMA HeldMoves ==
  ASSUME RInv, NEW c \in Call, NEW d \in Device, NEW o \in Otp, Held(c, d, o), Step(c)
  PROVE  \/ Answered(d, o)'
         \/ Held(c, d, o)' /\ Remaining(c)' \in Nat /\ Remaining(c)' < Remaining(c)
<1> USE DEF RInv, IInv, TypeOK, CallState
<1>1. Remaining(c)' \in Nat /\ Remaining(c)' < Remaining(c)
  BY OwnStepShrinks
<1>2. ASSUME NEW type \in Reply, Send(d, o, type) PROVE Answered(d, o)'
  <2>1. out' = [to |-> d, otp |-> o, type |-> type] /\ out' \in Envelope
    BY <1>2 DEF Send, Envelope
  <2> QED
    BY <2>1, ManagerAssumption DEF Answered, ManagerAssumption
<1>3. ASSUME NEW l \in Holding, Goto(c, l) PROVE Held(c, d, o)'
  BY <1>3 DEF Goto, Held
<1>4. ASSUME call[c].pc \in {"reload", "mark", "deliver"} PROVE call[c].who[1] = d
  <2>1. PICK w \in joined[call[c].otp] : call[c].who = <<w>>
    BY <1>4 DEF CallsOK, CallOK
  <2>2. w = d
    BY <2>1, ClaimantOfOne DEF Held
  <2> QED
    BY <2>1, <2>2
<1>5. CASE Reload(c)
  BY <1>2, <1>3, <1>4, <1>5, <1>1 DEF Reload, Reply, Holding, Held
<1>6. CASE Mark(c)
  BY <1>2, <1>3, <1>4, <1>6, <1>1 DEF Mark, Reply, Holding, Held
<1>7. CASE Deliver(c)
  BY <1>2, <1>4, <1>7 DEF Deliver, Reply, Held
<1>8. CASE Kill(c)
  BY <1>1, <1>3, <1>8 DEF Kill, Holding
<1>9. CASE Notify(c)
  <2> DEFINE who == call[c].who
  <2>1. /\ who \in Seq(Device) /\ who # <<>>
        /\ d = Head(who) \/ Claimant(Tail(who), d)
    BY <1>9, ClaimantTail DEF Notify, CallsOK, CallOK, Held
  <2>2. CASE d = Head(who)
    BY <1>2, <1>9, <2>2 DEF Notify, Reply, Held
  <2>3. CASE Claimant(Tail(who), d)
    <3>1. Tail(who) # <<>>
      <4>1. ~Claimant(<<>>, d)
        BY DEF Claimant
      <4> QED
        BY <2>3, <4>1
    <3>2. call' = [call EXCEPT ![c].who = Tail(who)]
      BY <1>9, <3>1 DEF Notify
    <3>3. Held(c, d, o)'
      BY <2>3, <3>2 DEF Held
    <3> QED
      BY <1>1, <3>3
  <2> QED
    BY <2>1, <2>2, <2>3
<1> QED
  BY <1>5, <1>6, <1>7, <1>8, <1>9 DEF Step, OpenWindow, RepeatClaim, SecondClaim, Fire,
                                     TakeWindow, Held, Holding

(* A call that has read a pending row joins the window or closes it.        *)
LEMMA WaitingMoves ==
  ASSUME RInv, NEW c \in Call, NEW d \in Device, NEW o \in Otp, Waiting(c, d, o), Step(c)
  PROVE  ByWindow(d, o)' \/ Held(c, d, o)'
<1> USE DEF RInv, IInv, TypeOK, CallState, Waiting
<1>1. CASE OpenWindow(c)
  <2>1. [claimants |-> <<d>>, timer |-> c] \in ClaimState
    BY DEF ClaimState
  <2>2. pending'[o] = [claimants |-> <<d>>, timer |-> c]
    BY <1>1 DEF OpenWindow
  <2> QED
    BY <2>1, <2>2, ClaimantOfOne, ManagerAssumption DEF ByWindow, ManagerAssumption
<1>2. CASE RepeatClaim(c)
  BY <1>2 DEF RepeatClaim, ByWindow
<1>3. CASE SecondClaim(c)
  <2> DEFINE t == pending[o].timer  a == call[t].dev
  <2>1. /\ t \in Call /\ call[t].pc \in {"armed", "fired"} /\ a \in Device
        /\ pending[o].claimants = <<a>>
    <3>1. /\ t \in Call /\ call[t].pc \in {"armed", "fired"}
          /\ pending[o].claimants = <<a>>
      BY <1>3, WindowHolds DEF SecondClaim
    <3> QED
      BY <3>1, CallHolds
  <2>2. call'[c].pc = "kill" /\ call'[c].otp = o /\ call'[c].who = <<a, d>>
    BY <1>3, <2>1, AppendToOne DEF SecondClaim
  <2> QED
    BY <2>2, ClaimantOfTwo DEF Held, Holding
<1> QED
  BY <1>1, <1>2, <1>3 DEF Step, Fire, TakeWindow, Reload, Mark, Deliver, Kill, Notify

(* A claimant leaves a window only into the hands of a goroutine. *)
LEMMA WindowHands ==
  ASSUME RInv, Calm, [Next]_vars, NEW d \in Device, NEW o \in Otp, ByWindow(d, o)
  PROVE  ByWindow(d, o)' \/ SomeHeld(d, o)'
<1> USE DEF RInv, IInv, TypeOK, CallState
<1> DEFINE Goal == ByWindow(d, o)' \/ SomeHeld(d, o)'
<1>0. ASSUME pending'[o] = pending[o] PROVE Goal
  BY <1>0 DEF ByWindow
<1>1. ASSUME NEW c \in Call, SecondClaim(c), call[c].otp = o PROVE Goal
  <2> DEFINE t == pending[o].timer  a == call[t].dev  e == call[c].dev
  <2>1. /\ t \in Call /\ call[t].pc \in {"armed", "fired"} /\ a \in Device /\ e \in Device
        /\ pending[o].claimants = <<a>>
    <3>1. /\ t \in Call /\ call[t].pc \in {"armed", "fired"} /\ e \in Device
          /\ pending[o].claimants = <<a>>
      BY <1>1, WindowHolds, CallHolds DEF SecondClaim
    <3> QED
      BY <3>1, CallHolds
  <2>2. call'[c].pc = "kill" /\ call'[c].otp = o /\ call'[c].who = <<a, e>>
    BY <1>1, <2>1, AppendToOne DEF SecondClaim
  <2>3. d = a
    BY <2>1, ClaimantOfOne DEF ByWindow
  <2>4. Claimant(call'[c].who, d)
    BY <2>2, <2>3, ClaimantOfTwo
  <2> QED
    BY <2>2, <2>4 DEF Held, Holding, SomeHeld
<1>2. ASSUME NEW c \in Call, TakeWindow(c), call[c].otp = o PROVE Goal
  <2>1. /\ call'[c].pc \in {"kill", "reload"} /\ call'[c].otp = o
        /\ call'[c].who = pending[o].claimants
    BY <1>2 DEF TakeWindow, ByWindow
  <2> QED
    BY <2>1 DEF Held, Holding, SomeHeld, ByWindow
<1>3. ASSUME NEW c \in Call, SecondClaim(c) \/ TakeWindow(c), call[c].otp # o PROVE Goal
  BY <1>0, <1>3 DEF SecondClaim, TakeWindow, CloseWindow
<1>4. ASSUME NEW c \in Call, OpenWindow(c) PROVE Goal
  BY <1>0, <1>4 DEF OpenWindow, ByWindow
<1>5. ASSUME NEW c \in Call, \/ RepeatClaim(c) \/ Fire(c) \/ Reload(c) \/ Mark(c)
                             \/ Deliver(c) \/ Kill(c) \/ Notify(c) \/ Unwind(c)
      PROVE  Goal
  BY <1>0, <1>5 DEF RepeatClaim, Fire, Reload, Mark, Deliver, Kill, Notify, Unwind
<1>6. ASSUME \/ \E x \in Otp : Ingest(x)
             \/ \E x \in Otp, e \in Device : ClaimRefused(e, x)
             \/ \E c \in Call, x \in Otp, e \in Device : ClaimPending(c, e, x)
             \/ Sweep \/ Tick \/ UNCHANGED vars
      PROVE  Goal
  BY <1>0, <1>6 DEF Ingest, ClaimRefused, ClaimPending, Sweep, Tick, vars
<1>7. ~Crash
  BY DEF Calm, Crash
<1> QED
  BY <1>1, <1>2, <1>3, <1>4, <1>5, <1>6, <1>7 DEF Next, Step
HeldWithin(c, d, o, n) == Held(c, d, o) /\ Remaining(c) <= n
HeldAnswered(c, d, o, n) == HeldWithin(c, d, o, n) ~> Answered(d, o)

LEMMA HeldShrinks ==
  ASSUME NEW c \in Call, NEW d \in Device, NEW o \in Otp, NEW n \in Nat \ {0}, Calm
  PROVE  Run => (HeldWithin(c, d, o, n) ~> HeldWithin(c, d, o, n - 1) \/ Answered(d, o))
<1>1. RInv /\ HeldWithin(c, d, o, n) /\ [Next]_vars =>
        HeldWithin(c, d, o, n)' \/ HeldWithin(c, d, o, n - 1)' \/ Answered(d, o)'
  <2> SUFFICES ASSUME RInv, HeldWithin(c, d, o, n), [Next]_vars
               PROVE  HeldWithin(c, d, o, n)' \/ Answered(d, o)'
      OBVIOUS
  <2>1. CASE Step(c)
    BY <2>1, HeldMoves, RemainingIs DEF HeldWithin, RInv
  <2>2. CASE ~Step(c)
    <3>1. /\ call'[c].pc = call[c].pc /\ call'[c].otp = call[c].otp
          /\ call'[c].who = call[c].who
      BY <2>2, CallRests DEF HeldWithin, Held, Holding
    <3> QED
      BY <3>1 DEF HeldWithin, Held, Remaining
  <2> QED
    BY <2>1, <2>2
<1>2. RInv /\ HeldWithin(c, d, o, n) /\ <<Step(c)>>_vars =>
        HeldWithin(c, d, o, n - 1)' \/ Answered(d, o)'
  <2> SUFFICES ASSUME RInv, HeldWithin(c, d, o, n), Step(c), ~Answered(d, o)'
               PROVE  HeldWithin(c, d, o, n - 1)'
      OBVIOUS
  <2>1. Held(c, d, o)' /\ Remaining(c)' \in Nat /\ Remaining(c)' < Remaining(c)
    BY HeldMoves DEF HeldWithin
  <2>2. Remaining(c) \in Nat /\ Remaining(c) <= n
    BY RemainingIs DEF RInv, HeldWithin
  <2>3. Remaining(c)' <= n - 1
    BY <2>1, <2>2
  <2> QED
    BY <2>1, <2>3 DEF HeldWithin
<1>3. HeldWithin(c, d, o, n) /\ GuardsSuffice => CanStep(c)
  BY DEF HeldWithin, Held, Holding, Runnable, GuardsSuffice
<1> QED
  BY <1>1, <1>2, <1>3, CallServed, PTL DEF Run, CanStep, Served

(* A goroutine that holds a claim has three steps left at most. *)
LEMMA HeldIsAnswered ==
  ASSUME NEW c \in Call, NEW d \in Device, NEW o \in Otp, Calm
  PROVE  Run => (Held(c, d, o) ~> Answered(d, o))
<1>1. Run => HeldAnswered(c, d, o, 0)
  <2>1. RInv => ~HeldWithin(c, d, o, 0)
    BY TailShorter, RemainingIs DEF RInv, HeldWithin, Held, Holding, Remaining
  <2> QED
    BY <2>1, PTL DEF Run, HeldAnswered
<1>2. ASSUME NEW n \in Nat \ {0}
      PROVE  Run /\ HeldAnswered(c, d, o, n - 1) => HeldAnswered(c, d, o, n)
  BY HeldShrinks, PTL DEF HeldAnswered
<1>3. Run => HeldAnswered(c, d, o, 3)
  <2>1. Run => HeldAnswered(c, d, o, 1)
    BY <1>1, <1>2
  <2>2. Run => HeldAnswered(c, d, o, 2)
    BY <1>2, <2>1
  <2> QED
    BY <1>2, <2>2
<1>4. RInv /\ Held(c, d, o) => HeldWithin(c, d, o, 3)
  <2> SUFFICES ASSUME RInv, Held(c, d, o) PROVE Remaining(c) <= 3
      BY DEF HeldWithin
  <2>1. CASE call[c].pc = "notify"
    <3>1. Len(call[c].who) \in {1, 2}
      BY <2>1, TailShorter DEF RInv
    <3>2. Remaining(c) = Len(call[c].who)
      BY <2>1 DEF Remaining
    <3>3. \A n \in {1, 2} : n <= 3
      OBVIOUS
    <3> QED
      BY <3>1, <3>2, <3>3
  <2>2. CASE call[c].pc # "notify"
    BY <2>2 DEF Held, Holding, Remaining
  <2> QED
    BY <2>1, <2>2
<1> QED
  BY <1>3, <1>4, PTL DEF Run, HeldAnswered

LEMMA SomeHeldIsAnswered ==
  ASSUME NEW d \in Device, NEW o \in Otp, Calm
  PROVE  Run => (SomeHeld(d, o) ~> Answered(d, o))
<1>1. ASSUME NEW c \in Call PROVE Run => (Held(c, d, o) => <>Answered(d, o))
  BY HeldIsAnswered, PTL
<1>2. Run => (SomeHeld(d, o) => <>Answered(d, o))
  BY <1>1 DEF SomeHeld
<1> QED
  BY <1>2, RunLasts, PTL

LEMMA WindowIsAnswered ==
  ASSUME NEW d \in Device, NEW o \in Otp, Calm, ~Prompt
  PROVE  Run => (ByWindow(d, o) ~> Answered(d, o))
<1>1. RInv /\ ByWindow(d, o) /\ [Next]_vars => ByWindow(d, o)' \/ SomeHeld(d, o)'
  BY WindowHands
<1>2. (ByWindow(d, o) => Open(o)) /\ (Closed(o) => ~ByWindow(d, o))
  BY DEF ByWindow, Open, Closed
<1> QED
  BY <1>1, <1>2, OpenCloses, SomeHeldIsAnswered, RunLasts, PTL DEF Run

LEMMA WaitingIsAnswered ==
  ASSUME NEW c \in Call, NEW d \in Device, NEW o \in Otp, Calm, ~Prompt
  PROVE  Run => (Waiting(c, d, o) ~> Answered(d, o))
<1>1. RInv /\ Waiting(c, d, o) /\ [Next]_vars =>
        Waiting(c, d, o)' \/ ByWindow(d, o)' \/ Held(c, d, o)'
  <2> SUFFICES ASSUME RInv, Waiting(c, d, o), [Next]_vars
               PROVE  Waiting(c, d, o)' \/ ByWindow(d, o)' \/ Held(c, d, o)'
      OBVIOUS
  <2>1. CASE Step(c)
    BY <2>1, WaitingMoves
  <2>2. CASE ~Step(c)
    BY <2>2, CallRests DEF Waiting
  <2> QED
    BY <2>1, <2>2
<1>2. RInv /\ Waiting(c, d, o) /\ <<Step(c)>>_vars => ByWindow(d, o)' \/ Held(c, d, o)'
  BY WaitingMoves
<1>3. Waiting(c, d, o) /\ GuardsSuffice => CanStep(c)
  BY DEF Waiting, Runnable, GuardsSuffice
<1>4. Run => (Waiting(c, d, o) ~> ByWindow(d, o) \/ Held(c, d, o))
  BY <1>1, <1>2, <1>3, CallServed, PTL DEF Run, CanStep, Served
<1>5. Run => (ByWindow(d, o) ~> Answered(d, o))
  BY WindowIsAnswered
<1>6. Run => (Held(c, d, o) ~> Answered(d, o))
  BY HeldIsAnswered
<1> QED
  BY <1>4, <1>5, <1>6, RunLasts, PTL

LEMMA OwedIsAnswered ==
  ASSUME NEW d \in Device, NEW o \in Otp, Calm, ~Prompt
  PROVE  Run => (Owed(d, o) ~> Answered(d, o))
<1>1. ASSUME NEW c \in Call PROVE Run => (Waiting(c, d, o) => <>Answered(d, o))
  BY WaitingIsAnswered, PTL
<1>2. Run => (SomeWaiting(d, o) => <>Answered(d, o))
  BY <1>1 DEF SomeWaiting
<1>3. Owed(d, o) => ByWindow(d, o) \/ SomeHeld(d, o) \/ SomeWaiting(d, o)
  BY DEF Owed, ByWindow, SomeHeld, Held, Holding, SomeWaiting, Waiting
<1> QED
  BY <1>2, <1>3, SomeHeldIsAnswered, WindowIsAnswered, RunLasts, PTL

(* Every claim that is taken in is answered, by name and about its OTP, as  *)
(* long as nothing kills the process or the handler: whether it waits for   *)
(* the lock, sits in a window or is in the hands of resolve or invalidate,  *)
(* however many windows, calls and failed statements come between.          *)
THEOREM EveryClaimIsAnswered == Calm /\ ~Prompt /\ Scheduled => ClaimAnswered
<1> SUFFICES ASSUME Calm, ~Prompt PROVE Scheduled => ClaimAnswered
    OBVIOUS
<1> DEFINE Told(d, o) == Owed(d, o) ~> Answered(d, o)
<1>1. ASSUME NEW d \in Device, NEW o \in Otp PROVE Run => Told(d, o)
  BY OwedIsAnswered
<1>2. Run => \A d \in Device, o \in Otp : Told(d, o)
  <2> HIDE DEF Told
  <2> QED
    BY <1>1
<1>3. (\A d \in Device, o \in Otp : Told(d, o)) => ClaimAnswered
  BY DEF ClaimAnswered
<1> QED
  BY <1>2, <1>3, RunLasts, PTL
================================================================================
