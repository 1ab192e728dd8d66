------------------------------ MODULE PromptProofs ------------------------------
(***************************************************************************)
(* ClaimManager under a punctual schedule: no goroutine is runnable while  *)
(* the clock moves on, a window is not zero and no statement fails.  Then  *)
(* one device at most is ever handed the payload, in time, and the tighter *)
(* contract is kept, for every set of devices and calls, and every window  *)
(* and TTL.                                                                *)
(*                                                                         *)
(* The argument: while a row can be delivered at all, one activity at most *)
(* is due on it (OneDue).  A timer becomes due only with the clock, so     *)
(* only one whose window is still open, or one that lost its window to a   *)
(* resolve or an invalidate that has the row decided before the clock      *)
(* moves (OrphanDecided).                                                  *)
(***************************************************************************)
EXTENDS ClaimRefinement

Punctual == Prompt = TRUE /\ Window # 0 /\ "db" \notin Faults

Deciding(c, o) == call[c].otp = o /\ call[c].pc \in {"kill", "reload", "mark"}
Sending(c, o) == call[c].otp = o /\ call[c].pc \in {"mark", "deliver"}
Due(c, o) ==
  /\ call[c].otp = o
  /\ \/ call[c].pc = "armed" /\ call[c].left = 0
     \/ call[c].pc \in {"fired", "reload", "mark", "deliver"}

(* A timer whose window is gone leaves a row that is being decided. *)
OrphanDecided ==
  \A c \in Call, o \in Otp :
    Deliverable(o) /\ call[c].pc = "armed" /\ call[c].otp = o =>
      \/ pending[o] # None /\ pending[o].timer = c
      \/ \E x \in Call : Deciding(x, o)

OneDue ==
  \A o \in Otp : Deliverable(o) =>
    \A c, x \in Call : Due(c, o) /\ Due(x, o) => c = x

OneSender ==
  \A o \in Otp : \A c, x \in Call : Sending(c, o) /\ Sending(x, o) => c = x

NothingPaidYet == \A c \in Call, o \in Otp : Sending(c, o) => paid[o] = {}

(* Work that is under way is on a row that has not lapsed. *)
InTime ==
  \A c \in Call : call[c].pc \in {"enter", "kill", "mark", "deliver"} =>
    ~Lapsed(call[c].otp) /\ status[call[c].otp] # "expired"

PInv ==
  /\ RInv
  /\ OrphanDecided /\ OneDue /\ OneSender /\ NothingPaidYet /\ InTime
  /\ AtMostOneDelivery
--------------------------------------------------------------------------------
(* Where a step takes the activity that makes it. *)
Moved(c) ==
  /\ call'[c].otp = call[c].otp
  /\ \/ OpenWindow(c) /\ call'[c].pc = "armed" /\ call'[c].left = Window
     \/ call[c].pc = "armed" /\ call[c].left = 0 /\ call'[c].pc = "fired"
     \/ call[c].pc = "fired" /\ call'[c].pc = "reload"
     \/ call[c].pc = "enter" /\ call'[c].pc = "kill"
     \/ call[c].pc = "reload" /\ call'[c].pc = "mark" /\ Deliverable(call[c].otp)
     \/ call[c].pc = "mark" /\ call'[c].pc = "deliver"
     \/ call[c].pc \in {"kill", "notify"} /\ call'[c].pc = "notify"

LEMMA StepMoves ==
  ASSUME IInv, NEW c \in Call, Step(c) \/ Unwind(c)
  PROVE  /\ \A x \in Call \ {c} : call'[x] = call[x] \/ call'[x] = Idle
         /\ call'[c].pc = "idle" \/ Moved(c)
<1>1. call \in [Call -> CallState] /\ call[c] \in CallState
  BY DEF IInv, TypeOK
<1>2. ASSUME OpenWindow(c)
      PROVE  /\ \A x \in Call \ {c} : call'[x] = call[x]
             /\ call'[c].otp = call[c].otp /\ call'[c].pc = "armed" /\ call'[c].left = Window
  BY <1>1, <1>2 DEF OpenWindow, ClaimWindow, CallState
<1>3. ASSUME RepeatClaim(c) \/ Deliver(c) \/ Unwind(c)
      PROVE  (\A x \in Call \ {c} : call'[x] = call[x]) /\ call'[c].pc = "idle"
  BY <1>1, <1>3 DEF RepeatClaim, Deliver, Unwind, Return, Idle
<1>4. ASSUME SecondClaim(c)
      PROVE  /\ \A x \in Call \ {c} : call'[x] = call[x] \/ call'[x] = Idle
             /\ call'[c].otp = call[c].otp /\ call[c].pc = "enter" /\ call'[c].pc = "kill"
  <2>1. /\ call[c].otp \in Otp /\ pending[call[c].otp] # None /\ call[c].pc = "enter"
        /\ pending[call[c].otp].timer \in Call
        /\ call[pending[call[c].otp].timer].pc \in {"armed", "fired"}
    BY <1>4, CallHolds, WindowHolds DEF SecondClaim
  <2> QED
    BY <1>1, <1>4, <2>1 DEF SecondClaim, Stopped, CallState
<1>5. ASSUME Fire(c)
      PROVE  /\ \A x \in Call \ {c} : call'[x] = call[x]
             /\ call'[c].otp = call[c].otp /\ call[c].pc = "armed" /\ call[c].left = 0
             /\ call'[c].pc = "fired"
  BY <1>1, <1>5 DEF Fire, Goto, CallState
<1>6. ASSUME TakeWindow(c)
      PROVE  /\ \A x \in Call \ {c} : call'[x] = call[x]
             /\ \/ call'[c].pc = "idle"
                \/ /\ call'[c].otp = call[c].otp /\ call[c].pc = "fired"
                   /\ call'[c].pc = "reload"
  <2>1. call[c].pc = "fired" /\ call[c].otp \in Otp
    BY <1>6, CallHolds DEF TakeWindow
  <2>2. CASE pending[call[c].otp] = None
    BY <1>1, <1>6, <2>2 DEF TakeWindow, Return, Idle
  <2>3. CASE pending[call[c].otp] # None
    <3>1. Len(pending[call[c].otp].claimants) = 1
      <4>1. PICK d : pending[call[c].otp].claimants = <<d>>
        BY <2>1, <2>3 DEF IInv, WindowHasTimer
      <4> QED
        BY <4>1
    <3>2. call' = [call EXCEPT ![c].pc = "reload", ![c].who = pending[call[c].otp].claimants]
      BY <1>6, <2>3, <3>1 DEF TakeWindow
    <3> QED
      BY <1>1, <2>1, <3>2 DEF CallState
  <2> QED
    BY <2>2, <2>3
<1>7. ASSUME Reload(c)
      PROVE  /\ \A x \in Call \ {c} : call'[x] = call[x]
             /\ \/ call'[c].pc = "idle"
                \/ /\ call'[c].otp = call[c].otp
                   /\ call[c].pc = "reload" /\ call'[c].pc = "mark" /\ Deliverable(call[c].otp)
  BY <1>1, <1>7 DEF Reload, Goto, Return, Idle, CallState
<1>8. ASSUME Mark(c)
      PROVE  /\ \A x \in Call \ {c} : call'[x] = call[x]
             /\ \/ call'[c].pc = "idle"
                \/ /\ call'[c].otp = call[c].otp
                   /\ call[c].pc = "mark" /\ call'[c].pc = "deliver"
  BY <1>1, <1>8 DEF Mark, Goto, Return, Idle, CallState
<1>9. ASSUME Kill(c) \/ Notify(c)
      PROVE  /\ \A x \in Call \ {c} : call'[x] = call[x]
             /\ \/ call'[c].pc = "idle"
                \/ /\ call'[c].otp = call[c].otp
                   /\ call[c].pc \in {"kill", "notify"} /\ call'[c].pc = "notify"
  BY <1>1, <1>9 DEF Kill, Notify, Goto, Return, Idle, CallState
<1> QED
  BY <1>2, <1>3, <1>4, <1>5, <1>6, <1>7, <1>8, <1>9 DEF Step, Moved

(* What becomes of an activity in any step but one of the clock. *)
LEMMA CallMoves ==
  ASSUME IInv, Next, ~Tick, NEW x \in Call
  PROVE  \/ call'[x] = call[x]
         \/ call'[x].pc = "idle"
         \/ Step(x) /\ Moved(x)
         \/ \E d \in Device, o \in Otp :
              ClaimPending(x, d, o) /\ call'[x].pc = "enter" /\ call'[x].otp = o
<1>1. call \in [Call -> CallState]
  BY DEF IInv, TypeOK
<1>2. ASSUME NEW c \in Call, Step(c) \/ Unwind(c)
      PROVE  call'[x] = call[x] \/ call'[x].pc = "idle" \/ (Step(x) /\ Moved(x))
  <2>1. c # x => call'[x] = call[x] \/ call'[x].pc = "idle"
    BY <1>2, StepMoves DEF Idle
  <2>2. Unwind(x) => call'[x].pc = "idle"
    BY <1>1 DEF Unwind, Return, Idle
  <2> QED
    BY <1>2, <2>1, <2>2, StepMoves
<1>3. ASSUME NEW c \in Call, NEW d \in Device, NEW o \in Otp, ClaimPending(c, d, o)
      PROVE  \/ call'[x] = call[x]
             \/ c = x /\ call'[x].pc = "enter" /\ call'[x].otp = o
  BY <1>1, <1>3 DEF ClaimPending
<1>4. ASSUME \/ \E o \in Otp : Ingest(o)
             \/ \E d \in Device, o \in Otp : ClaimRefused(d, o)
             \/ Sweep
      PROVE  call'[x] = call[x]
  BY <1>4 DEF Ingest, ClaimRefused, Sweep
<1>5. Crash => call'[x].pc = "idle"
  BY DEF Crash, Idle
<1> QED
  BY <1>2, <1>3, <1>4, <1>5 DEF Next

(* The clock moves only while nothing is runnable. *)
LEMMA TickMoves ==
  ASSUME IInv, Punctual, Tick, NEW x \in Call
  PROVE  /\ call[x].pc \in {"idle", "armed"}
         /\ call[x].pc = "armed" => call[x].left # 0
         /\ call'[x].pc = call[x].pc /\ call'[x].otp = call[x].otp
         /\ UNCHANGED <<status, pending, paid>>
         /\ \A o \in Otp : Deliverable(o)' => Deliverable(o)
<1>1. call \in [Call -> CallState] /\ life \in [Otp -> 0..TTL]
  BY DEF IInv, TypeOK, TableTypeOK
<1>2. ~Runnable(x)
  BY DEF Tick, Punctual
<1>3. \A o \in Otp : Deliverable(o)' => Deliverable(o)
  BY <1>1 DEF Tick, AgeRows, Deliverable, Lapsed
<1> QED
  BY <1>1, <1>2, <1>3 DEF Runnable, Tick, AgeRows, Quiet, CallState

(* A row is deliverable from its INSERT on and never again. *)
LEMMA DeliverableMoves ==
  ASSUME IInv, Next, ~Tick, NEW o \in Otp
  PROVE  /\ Deliverable(o)' => Deliverable(o) \/ status[o] = "absent"
         /\ status[o] # "absent" => life'[o] = life[o]
<1>1. /\ life \in [Otp -> 0..TTL] /\ status \in [Otp -> Status]
  BY DEF IInv, TypeOK, TableTypeOK
<1>2. status[o] # "absent" => life'[o] = life[o]
  <2>1. ASSUME NEW p \in Otp, Ingest(p), status[o] # "absent" PROVE life'[o] = life[o]
    BY <1>1, <2>1 DEF Ingest, InsertOTP
  <2>2. ASSUME NEW c \in Call, Step(c) \/ Unwind(c) PROVE life' = life
    BY <2>2 DEF Step, Unwind, OpenWindow, RepeatClaim, SecondClaim, Fire, TakeWindow, Reload,
       Mark, Deliver, Kill, Notify, table, SetOTPStatus
  <2>3. ASSUME \/ \E d \in Device, p \in Otp : ClaimRefused(d, p)
               \/ \E c \in Call, d \in Device, p \in Otp : ClaimPending(c, d, p)
               \/ Sweep \/ Crash
        PROVE  life' = life
    BY <2>3 DEF ClaimRefused, ClaimPending, Sweep, ExpireStaleOTPs, Crash, table
  <2> QED
    BY <2>1, <2>2, <2>3 DEF Next
<1> QED
  BY <1>2, SettledStaysStep DEF Deliverable, Lapsed

(* No activity is on a row that does not exist. *)
LEMMA AbsentIsIdle ==
  ASSUME RInv, Next, ~Tick, NEW o \in Otp, status[o] = "absent", NEW x \in Call
  PROVE  call'[x].pc = "idle" \/ call'[x].otp # o
<1>1. call[x].pc = "idle" \/ call[x].otp # o
  BY DEF RInv, RowsExist
<1>2. ASSUME Moved(x) PROVE call[x].pc # "idle" /\ call'[x].otp = call[x].otp
  BY <1>2 DEF Moved, OpenWindow
<1>3. ASSUME NEW d \in Device, NEW p \in Otp, ClaimPending(x, d, p) PROVE p # o
  BY <1>3 DEF ClaimPending, Verdict
<1> QED
  BY <1>1, <1>2, <1>3, CallMoves DEF RInv
--------------------------------------------------------------------------------
LEMMA DueStep == PInv /\ Punctual /\ Next => OneDue'
<1> SUFFICES ASSUME PInv, Punctual, Next, NEW o \in Otp, Deliverable(o)',
                    NEW c \in Call, NEW x \in Call, Due(c, o)', Due(x, o)'
             PROVE  c = x
    BY DEF OneDue
<1>1. CASE Tick
  <2>1. Deliverable(o) /\ ~\E y \in Call : Deciding(y, o)
    BY <1>1, TickMoves DEF PInv, RInv, Deciding
  <2>2. ASSUME NEW y \in Call, Due(y, o)' PROVE pending[o] # None /\ pending[o].timer = y
    <3>1. call[y].pc = "armed" /\ call[y].otp = o
      BY <1>1, <2>2, TickMoves DEF PInv, RInv, Due
    <3> QED
      BY <2>1, <3>1 DEF PInv, OrphanDecided
  <2> QED
    BY <2>2
<1>2. CASE ~Tick
  <2>1. status[o] # "absent"
    BY <1>2, AbsentIsIdle DEF PInv, Due
  <2>2. Deliverable(o)
    BY <1>2, <2>1, DeliverableMoves DEF PInv, RInv
  <2>3. ASSUME NEW y \in Call, Due(y, o)' PROVE Due(y, o)
    <3>1. Moved(y) => Due(y, o)
      BY <2>3 DEF Moved, Due, Punctual
    <3> QED
      BY <1>2, <2>3, <3>1, CallMoves DEF PInv, RInv, Due
  <2> QED
    BY <2>2, <2>3 DEF PInv, OneDue
<1> QED
  BY <1>1, <1>2

(* A window is closed by somebody who then decides the row. *)
LEMMA WindowMoves ==
  ASSUME IInv, Next, ~Crash, NEW o \in Otp, pending[o] # None
  PROVE  pending'[o] = pending[o] \/ \E x \in Call : Deciding(x, o)'
<1>1. call \in [Call -> CallState] /\ pending \in [Otp -> ClaimState \cup {None}]
  BY DEF IInv, TypeOK
<1>2. ASSUME NEW c \in Call, SecondClaim(c)
      PROVE  pending'[o] = pending[o] \/ Deciding(c, o)'
  <2>1. /\ call[c].otp \in Otp /\ pending[call[c].otp].timer # c /\ call[c].pc = "enter"
        /\ pending' = [pending EXCEPT ![call[c].otp] = None]
    BY <1>2, CallHolds, WindowHolds DEF SecondClaim, CloseWindow
  <2>2. call'[c].otp = call[c].otp /\ call'[c].pc = "kill"
    BY <1>1, <1>2, <2>1 DEF SecondClaim, CallState
  <2> QED
    BY <1>1, <2>1, <2>2 DEF Deciding
<1>3. ASSUME NEW c \in Call, TakeWindow(c)
      PROVE  pending'[o] = pending[o] \/ Deciding(c, o)'
  <2>1. call[c].pc = "fired" /\ call[c].otp \in Otp
    BY <1>3, CallHolds DEF TakeWindow
  <2>2. CASE call[c].otp # o \/ pending[o] = None
    BY <1>1, <1>3, <2>2 DEF TakeWindow, CloseWindow
  <2>3. CASE call[c].otp = o
    <3>1. call'[c].otp = call[c].otp /\ call'[c].pc \in {"kill", "reload"}
      BY <1>1, <1>3, <2>1, <2>3 DEF TakeWindow, CallState
    <3> QED
      BY <2>3, <3>1 DEF Deciding
  <2> QED
    BY <2>2, <2>3
<1>4. ASSUME NEW c \in Call, OpenWindow(c) PROVE pending'[o] = pending[o]
  BY <1>1, <1>4 DEF OpenWindow
<1>5. ASSUME NEW c \in Call, \/ RepeatClaim(c) \/ Fire(c) \/ Reload(c) \/ Mark(c) \/ Deliver(c)
                             \/ Kill(c) \/ Notify(c) \/ Unwind(c)
      PROVE  pending' = pending
  BY <1>5 DEF RepeatClaim, Fire, Reload, Mark, Deliver, Kill, Notify, Unwind
<1>6. ASSUME \/ \E p \in Otp : Ingest(p)
             \/ \E d \in Device, p \in Otp : ClaimRefused(d, p)
             \/ \E c \in Call, d \in Device, p \in Otp : ClaimPending(c, d, p)
             \/ Sweep \/ Tick
      PROVE  pending' = pending
  BY <1>6 DEF Ingest, ClaimRefused, ClaimPending, Sweep, Tick
<1> QED
  BY <1>2, <1>3, <1>4, <1>5, <1>6 DEF Next, Step

(* Whoever decides a row goes on until it is decided. *)
LEMMA DecidingGoesOn ==
  ASSUME IInv, Punctual, Next, ~Tick, ~Crash, NEW x \in Call, NEW o \in Otp,
         Deciding(x, o), Deliverable(o), Deliverable(o)'
  PROVE  Deciding(x, o)'
<1>1. /\ call \in [Call -> CallState] /\ call[x].otp = o
      /\ call[x].pc \in {"kill", "reload", "mark"}
      /\ status \in [Otp -> Status]
  BY DEF IInv, TypeOK, TableTypeOK, Deciding
<1>2. CASE Reload(x)
  BY <1>1, <1>2 DEF Reload, Goto, Punctual, Deciding, CallState
<1>3. CASE Mark(x) \/ Kill(x)
  <2>1. status'[o] \in {"claimed", "invalidated"}
    BY <1>1, <1>3 DEF Mark, Kill, SetOTPStatus, Punctual
  <2> QED
    BY <2>1 DEF Deliverable
<1>4. ~(OpenWindow(x) \/ RepeatClaim(x) \/ SecondClaim(x) \/ Fire(x) \/ TakeWindow(x)
        \/ Deliver(x) \/ Notify(x) \/ Unwind(x))
  BY <1>1 DEF OpenWindow, RepeatClaim, SecondClaim, Fire, TakeWindow, Deliver, Notify, Unwind
<1>5. ASSUME NEW c \in Call, c # x, Step(c) \/ Unwind(c) PROVE call'[x] = call[x]
  <2>1. CASE SecondClaim(c)
    <3>1. pending[call[c].otp].timer # x
      BY <1>1, <2>1, CallHolds, WindowHolds DEF SecondClaim
    <3> QED
      BY <1>1, <1>5, <2>1, <3>1 DEF SecondClaim
  <2>2. CASE ~SecondClaim(c)
    BY <1>1, <1>5, <2>2 DEF Step, Unwind, OpenWindow, RepeatClaim, Fire, TakeWindow, Reload,
       Mark, Deliver, Kill, Notify, Goto, Return
  <2> QED
    BY <2>1, <2>2
<1>6. ASSUME \/ \E p \in Otp : Ingest(p)
             \/ \E d \in Device, p \in Otp : ClaimRefused(d, p)
             \/ \E c \in Call, d \in Device, p \in Otp : ClaimPending(c, d, p)
             \/ Sweep
      PROVE  call'[x] = call[x]
  BY <1>1, <1>6 DEF Ingest, ClaimRefused, ClaimPending, Sweep
<1>7. call'[x] = call[x] => Deciding(x, o)'
  BY DEF Deciding
<1> QED
  BY <1>2, <1>3, <1>4, <1>5, <1>6, <1>7 DEF Next, Step

LEMMA OrphanStep == PInv /\ Punctual /\ Next => OrphanDecided'
<1> SUFFICES ASSUME PInv, Punctual, Next, NEW c \in Call, NEW o \in Otp,
                    Deliverable(o)', call'[c].pc = "armed", call'[c].otp = o
             PROVE  \/ pending'[o] # None /\ pending'[o].timer = c
                    \/ \E x \in Call : Deciding(x, o)'
    BY DEF OrphanDecided
<1> USE DEF PInv, RInv
<1>1. CASE Tick
  <2>1. /\ Deliverable(o) /\ call[c].pc = "armed" /\ call[c].otp = o
        /\ ~\E x \in Call : Deciding(x, o)
        /\ pending' = pending
    BY <1>1, TickMoves DEF Deciding
  <2> QED
    BY <2>1 DEF OrphanDecided
<1>2. CASE ~Tick
  <2>1. Deliverable(o) /\ ~Crash
    BY <1>2, AbsentIsIdle, DeliverableMoves DEF Crash, Idle
  <2>2. CASE OpenWindow(c)
    <3>1. call[c].otp \in Otp /\ pending \in [Otp -> ClaimState \cup {None}]
          /\ call'[c].otp = call[c].otp
      BY <2>2, CallHolds, StepMoves DEF OpenWindow, IInv, TypeOK, Step, Moved
    <3>2. pending'[o] = [claimants |-> <<call[c].dev>>, timer |-> c]
      BY <2>2, <3>1 DEF OpenWindow
    <3>3. <<call[c].dev>> \in Seq(Device)
      BY <2>2, CallHolds DEF OpenWindow
    <3>4. pending'[o] \in ClaimState
      BY <3>2, <3>3 DEF ClaimState
    <3>5. pending'[o] # None /\ pending'[o].timer = c
      BY <3>2, <3>4, ManagerAssumption DEF ManagerAssumption
    <3> QED
      BY <3>5
  <2>3. CASE ~OpenWindow(c)
    <3>1. call'[c] = call[c]
      BY <1>2, <2>3, CallMoves DEF Moved
    <3>2. CASE pending[o] # None /\ pending[o].timer = c
      BY <2>1, <3>2, WindowMoves
    <3>3. CASE \E x \in Call : Deciding(x, o)
      BY <1>2, <2>1, <3>3, DecidingGoesOn
    <3> QED
      BY <2>1, <3>1, <3>2, <3>3 DEF OrphanDecided
  <2> QED
    BY <2>2, <2>3
<1> QED
  BY <1>1, <1>2
--------------------------------------------------------------------------------
(* Only the one that is due comes to send. *)
LEMMA SendingMoves ==
  ASSUME PInv, Punctual, Next, NEW c \in Call, NEW o \in Otp, Sending(c, o)'
  PROVE  /\ Sending(c, o) \/ (Due(c, o) /\ Deliverable(o))
         /\ Due(c, o)
<1> USE DEF PInv, RInv
<1>1. ~Tick
  BY TickMoves DEF Sending
<1>2. Moved(c) => Sending(c, o) \/ (call[c].pc = "reload" /\ call[c].otp = o /\ Deliverable(o))
  BY DEF Moved, Sending
<1>3. call'[c] = call[c] => Sending(c, o)
  BY DEF Sending
<1> QED
  BY <1>1, <1>2, <1>3, CallMoves DEF Sending, Due

LEMMA SenderStep ==
  PInv /\ Punctual /\ Next => OneSender' /\ NothingPaidYet' /\ AtMostOneDelivery'
<1> SUFFICES ASSUME PInv, Punctual, Next
             PROVE  OneSender' /\ NothingPaidYet' /\ AtMostOneDelivery'
    OBVIOUS
<1>1. ASSUME NEW o \in Otp, NEW c \in Call, NEW x \in Call, Sending(c, o) \/ Deliverable(o),
             Due(c, o), Sending(x, o) \/ Deliverable(o), Due(x, o)
      PROVE  c = x \/ (Sending(c, o) /\ Sending(x, o))
  BY <1>1 DEF PInv, OneDue
<1>2. OneSender'
  <2> SUFFICES ASSUME NEW o \in Otp, NEW c \in Call, NEW x \in Call,
                      Sending(c, o)', Sending(x, o)'
               PROVE  c = x
      BY DEF OneSender
  <2> QED
    BY <1>1, SendingMoves DEF PInv, OneSender
<1>3. /\ paid \in [Otp -> SUBSET Device]
      /\ \A o \in Otp : Deliverable(o) => paid[o] = {}
  BY DEF PInv, RInv, IInv, TypeOK, PaidSettled, Deliverable
<1>4. ASSUME NEW y \in Call, Deliver(y)
      PROVE  /\ Sending(y, call[y].otp) /\ Due(y, call[y].otp) /\ call[y].otp \in Otp
             /\ paid' = [paid EXCEPT ![call[y].otp] = @ \cup {call[y].who[1]}]
             /\ call'[y].pc = "idle"
  <2>1. call[y].pc = "deliver" /\ call[y].otp \in Otp /\ call \in [Call -> CallState]
    BY <1>4, CallHolds DEF Deliver, PInv, RInv, IInv, TypeOK
  <2> QED
    BY <1>4, <2>1 DEF Deliver, Sending, Due, Send, Return, Idle
<1>5. NothingPaidYet'
  <2> SUFFICES ASSUME NEW c \in Call, NEW o \in Otp, Sending(c, o)' PROVE paid'[o] = {}
      BY DEF NothingPaidYet
  <2>1. paid[o] = {}
    BY <1>3, SendingMoves DEF PInv, NothingPaidYet
  <2>2. ASSUME NEW y \in Call, Deliver(y) PROVE call[y].otp # o
    <3>1. y # c
      BY <1>4, <2>2 DEF Sending
    <3> QED
      BY <1>1, <1>4, <2>2, <3>1, SendingMoves DEF PInv, OneSender, OneDue
  <2> QED
    BY <1>3, <1>4, <2>1, <2>2, PayloadWriters DEF PInv, RInv
<1>6. AtMostOneDelivery'
  <2>1. ASSUME paid' = paid PROVE AtMostOneDelivery'
    BY <2>1 DEF PInv, AtMostOneDelivery
  <2>2. ASSUME NEW y \in Call, Deliver(y) PROVE AtMostOneDelivery'
    <3>1. paid[call[y].otp] = {}
      BY <1>4, <2>2 DEF PInv, NothingPaidYet
    <3> QED
      BY <1>3, <1>4, <2>2, <3>1 DEF PInv, AtMostOneDelivery
  <2> QED
    BY <2>1, <2>2, PayloadWriters DEF PInv, RInv
<1> QED
  BY <1>2, <1>5, <1>6

(* A row is reported expired only when its time is up. *)
LEMMA ExpiredLapsed ==
  ASSUME IInv, Next, NEW o \in Otp, status'[o] = "expired"
  PROVE  status[o] = "expired" \/ Lapsed(o)
<1>1. status \in [Otp -> Status]
  BY DEF IInv, TypeOK, TableTypeOK
<1>2. ASSUME NEW x \in Otp, Ingest(x) PROVE status[o] = "expired"
  BY <1>1, <1>2 DEF Ingest, InsertOTP
<1>3. ASSUME NEW x \in Otp, NEW t \in {"claimed", "invalidated"}, NEW d, SetOTPStatus(x, t, d)
      PROVE  status[o] = "expired"
  BY <1>1, <1>3 DEF SetOTPStatus
<1>4. Sweep => status[o] = "expired" \/ Lapsed(o)
  BY <1>1 DEF Sweep, ExpireStaleOTPs, table
<1>5. \A c \in Call : Mark(c) \/ Kill(c) => call[c].otp \in Otp
  BY CallHolds DEF Mark, Kill
<1> QED
  BY <1>2, <1>3, <1>4, <1>5, TableWriters

LEMMA InTimeStep == PInv /\ Punctual /\ Next => InTime'
<1> SUFFICES ASSUME PInv, Punctual, Next, NEW c \in Call,
                    call'[c].pc \in {"enter", "kill", "mark", "deliver"}
             PROVE  ~Lapsed(call[c].otp)' /\ status'[call'[c].otp] # "expired"
    BY DEF InTime
<1> USE DEF PInv, RInv
<1>1. ~Tick
  BY TickMoves
<1>2. ASSUME NEW o \in Otp, call'[c].otp = o, status[o] # "absent", ~Lapsed(o),
             status[o] # "expired"
      PROVE  ~Lapsed(call[c].otp)' /\ status'[call'[c].otp] # "expired"
  BY <1>1, <1>2, DeliverableMoves, ExpiredLapsed DEF Lapsed
<1>3. call[c].pc # "idle" => call[c].otp \in Otp /\ status[call[c].otp] # "absent"
  BY CallHolds DEF RowsExist
<1>4. CASE call'[c] = call[c]
  BY <1>2, <1>3, <1>4 DEF InTime
<1>5. CASE Moved(c)
  BY <1>2, <1>3, <1>5 DEF Moved, InTime, Deliverable
<1>6. ASSUME NEW d \in Device, NEW o \in Otp, ClaimPending(c, d, o), call'[c].otp = o
      PROVE  ~Lapsed(call[c].otp)' /\ status'[call'[c].otp] # "expired"
  <2>1. Verdict(o) = "enter" /\ status[o] \in Status
    BY <1>6 DEF ClaimPending, IInv, TypeOK, TableTypeOK
  <2>2. status[o] = "pending" /\ ~Lapsed(o)
    BY <2>1 DEF Verdict, Status
  <2> QED
    BY <1>2, <1>6, <2>2
<1> QED
  BY <1>1, <1>4, <1>5, <1>6, CallMoves
--------------------------------------------------------------------------------
LEMMA PromptInvariant == ASSUME Punctual PROVE Spec => []PInv
<1>1. Init => PInv
  <2> SUFFICES ASSUME Init PROVE PInv
      OBVIOUS
  <2>1. \A c \in Call : call[c].pc = "idle"
    BY DEF Init, Idle
  <2>2. RInv
    BY <2>1, InitIInv DEF RInv, RowsExist
  <2>3. AtMostOneDelivery
    BY DEF Init, AtMostOneDelivery
  <2> QED
    BY <2>1, <2>2, <2>3
    DEF PInv, OrphanDecided, OneDue, OneSender, NothingPaidYet, InTime, Due, Sending
<1>2. PInv /\ RInv' /\ [Next]_vars => PInv'
  <2>1. UNCHANGED vars /\ PInv /\ RInv' => PInv'
    BY DEF vars, PInv, OrphanDecided, OneDue, OneSender, NothingPaidYet, InTime, Due, Sending,
       Deciding, Deliverable, Lapsed, AtMostOneDelivery
  <2> QED
    BY <2>1, DueStep, OrphanStep, SenderStep, InTimeStep DEF PInv
<1> QED
  BY <1>1, <1>2, RowsInvariant, PTL DEF Spec

(* One device at most is ever handed the payload of an OTP, when the        *)
(* goroutines keep up with the clock, the window is not zero and the        *)
(* database answers.                                                        *)
THEOREM OneDelivery == ASSUME Punctual PROVE Spec => []AtMostOneDelivery
<1>1. PInv => AtMostOneDelivery
  BY DEF PInv
<1> QED
  BY <1>1, PromptInvariant, PTL

(* A payload is sent by Deliver. *)
LEMMA PayloadSent ==
  ASSUME IInv, Next, out' # None, out'.type = "otp_payload"
  PROVE  \E c \in Call : Deliver(c) /\ out'.otp = call[c].otp
<1>1. ASSUME NEW d \in Device, NEW o \in Otp, ClaimRefused(d, o) PROVE FALSE
  <2>1. Verdict(o) # "otp_payload"
    BY DEF Verdict
  <2> QED
    BY <1>1, <2>1 DEF ClaimRefused, Send
<1>2. ASSUME NEW c \in Call, Step(c) PROVE Deliver(c)
  <2>1. ~(OpenWindow(c) \/ RepeatClaim(c) \/ SecondClaim(c) \/ Fire(c) \/ TakeWindow(c) \/ Kill(c))
    BY DEF OpenWindow, RepeatClaim, SecondClaim, Fire, TakeWindow, Kill, Quiet
  <2>2. ~(Reload(c) \/ Mark(c) \/ Notify(c))
    BY DEF Reload, Mark, Notify, Quiet, Send
  <2> QED
    BY <1>2, <2>1, <2>2 DEF Step
<1>3. ~(\/ \E o \in Otp : Ingest(o)
        \/ \E c \in Call, d \in Device, o \in Otp : ClaimPending(c, d, o)
        \/ \E c \in Call : Unwind(c)
        \/ Sweep \/ Crash \/ Tick)
  BY DEF Ingest, ClaimPending, Sweep, Crash, Tick, Unwind, Quiet
<1> QED
  BY <1>1, <1>2, <1>3 DEF Next, Deliver, Send

(* And none after the OTP's TTL. *)
THEOREM DeliveryInTime == ASSUME Punctual PROVE Spec => NoLateDelivery
<1>1. ASSUME PInv, Next, out' # None, out'.type = "otp_payload" PROVE ~Lapsed(out'.otp)
  <2>1. PICK c \in Call : Deliver(c) /\ out'.otp = call[c].otp
    BY <1>1, PayloadSent DEF PInv, RInv
  <2> QED
    BY <1>1, <2>1 DEF Deliver, PInv, InTime
<1>2. PInv /\ [Next]_vars =>
        [out' # None /\ out'.type = "otp_payload" => ~Lapsed(out'.otp)]_vars
  BY <1>1
<1> QED
  BY <1>2, PromptInvariant, PTL DEF Spec, NoLateDelivery
--------------------------------------------------------------------------------
(* A resolve that is about to mark its row is the first to do so. *)
MarkOpen == \A c \in Call : call[c].pc = "mark" => status[call[c].otp] # "claimed"

(* For only the activity that is due marks. *)
LEMMA MarkOpenStep == PInv /\ MarkOpen /\ Punctual /\ Next => MarkOpen'
<1> SUFFICES ASSUME PInv, MarkOpen, Punctual, Next, NEW c \in Call, call'[c].pc = "mark"
             PROVE  status'[call'[c].otp] # "claimed"
    BY DEF MarkOpen
<1> USE DEF PInv, RInv
<1>0. PICK o \in Otp : call'[c].otp = o
  <2>1. IInv'
    BY NextIInv
  <2> QED
    BY <2>1 DEF IInv, CallsOK, CallOK
<1>1. Sending(c, o)'
  BY <1>0 DEF Sending
<1>2. (Sending(c, o) \/ Deliverable(o)) /\ Due(c, o)
  BY <1>1, SendingMoves
<1>3. status[o] # "claimed"
  <2>1. CASE call'[c] = call[c]
    BY <1>0, <2>1 DEF MarkOpen
  <2>2. CASE Moved(c)
    BY <1>0, <2>2 DEF Moved, Deliverable
  <2>3. ~\E d \in Device, x \in Otp : ClaimPending(c, d, x)
    BY DEF ClaimPending, IInv, TypeOK
  <2> QED
    BY <2>1, <2>2, <2>3, TickMoves, CallMoves
<1>4. ASSUME NEW y \in Call, Mark(y) PROVE call[y].otp # o
  <2>1. call[y].pc = "mark" /\ call'[y].pc \in {"deliver", "idle"}
    BY <1>4 DEF Mark, Goto, Return, Idle, IInv, TypeOK, CallState
  <2>2. y # c
    BY <2>1
  <2> QED
    BY <1>1, <1>2, <2>1, <2>2 DEF OneSender, OneDue, Sending, Due
<1>5. status \in [Otp -> Status]
  BY DEF IInv, TypeOK, TableTypeOK
<1>6. \A x \in Otp : Ingest(x) => status'[o] # "claimed"
  BY <1>1, <1>3, <1>5 DEF Ingest, InsertOTP
<1>7. \A y \in Call : Mark(y) /\ SetOTPStatus(call[y].otp, "claimed", call[y].who[1])
        => status'[o] # "claimed"
  BY <1>1, <1>3, <1>4, <1>5 DEF SetOTPStatus
<1>8. \A y \in Call : SetOTPStatus(call[y].otp, "invalidated", None) => status'[o] # "claimed"
  BY <1>1, <1>3, <1>5 DEF SetOTPStatus
<1>9. Sweep => status'[o] # "claimed"
  BY <1>1, <1>3, <1>5 DEF Sweep, ExpireStaleOTPs, table
<1> QED
  BY <1>0, <1>3, <1>6, <1>7, <1>8, <1>9, TableWriters

(* Which rows a decision overwrites. *)
LEMMA AwardsNarrowly ==
  ASSUME PInv, MarkOpen, Punctual, Next, NEW d \in Device, NEW o \in Otp,
         AnySchedule!Award(d, o)
  PROVE  PromptSchedule!Award(d, o) \/ PromptSchedule!Pause
<1> USE DEF PInv, RInv
<1>1. status \in [Otp -> Status] /\ claimedBy \in [Otp -> Device \cup {None}]
  BY DEF IInv, TypeOK, TableTypeOK
<1>2. /\ status' = [status EXCEPT ![o] = "claimed"] /\ d \in Owing[o]
      /\ claimedBy' = [claimedBy EXCEPT ![o] = d]
      /\ out' = None /\ Owing' = Owing
  BY DEF AnySchedule!Award
<1>3. CASE status'[o] = status[o] /\ claimedBy'[o] = claimedBy[o]
  BY <1>1, <1>2, <1>3 DEF PromptSchedule!Pause
<1>4. ASSUME NEW y \in Call, Mark(y), SetOTPStatus(call[y].otp, "claimed", call[y].who[1]),
             call[y].otp = o
      PROVE  PromptSchedule!Award(d, o)
  <2>1. call[y].pc = "mark" /\ status[o] # "absent"
    BY <1>4 DEF Mark, SetOTPStatus
  <2>2. status[o] \in {"pending", "invalidated"}
    BY <1>1, <1>4, <2>1 DEF MarkOpen, InTime, Status
  <2> QED
    BY <1>2, <2>2 DEF PromptSchedule!Award
<1>5. ASSUME NEW x \in Otp, NEW t, NEW u, SetOTPStatus(x, t, u), x # o
      PROVE  status'[o] = status[o] /\ claimedBy'[o] = claimedBy[o]
  BY <1>1, <1>5 DEF SetOTPStatus
<1>6. ASSUME NEW x \in Otp, Ingest(x)
      PROVE  status'[o] = status[o] /\ claimedBy'[o] = claimedBy[o]
  BY <1>1, <1>2, <1>6 DEF Ingest, InsertOTP
<1>7. ASSUME Sweep
      PROVE  status'[o] = status[o] /\ claimedBy'[o] = claimedBy[o]
  BY <1>1, <1>2, <1>7 DEF Sweep, ExpireStaleOTPs, table
<1>8. ~SetOTPStatus(o, "invalidated", None)
  BY <1>1, <1>2 DEF SetOTPStatus
<1>9. \A y \in Call : Mark(y) \/ Kill(y) => call[y].otp \in Otp
  BY CallHolds DEF Mark, Kill
<1> QED
  BY <1>3, <1>4, <1>5, <1>6, <1>7, <1>8, <1>9, TableWriters

(* No expired row is invalidated. *)
LEMMA KillsNarrowly ==
  ASSUME PInv, Punctual, Next, NEW o \in Otp, AnySchedule!Invalidate(o)
  PROVE  PromptSchedule!Invalidate(o)
<1> USE DEF PInv, RInv
<1>1. status \in [Otp -> Status]
  BY DEF IInv, TypeOK, TableTypeOK
<1>2. status' = [status EXCEPT ![o] = "invalidated"]
  BY DEF AnySchedule!Invalidate
<1>3. status[o] # "expired"
  <2> SUFFICES ASSUME status[o] = "expired" PROVE FALSE
      OBVIOUS
  <2>1. status'[o] = "invalidated"
    BY <1>1, <1>2
  <2>2. ~\E x \in Otp : Ingest(x)
    BY <1>1, <2>1 DEF Ingest, InsertOTP
  <2>3. ASSUME NEW y \in Call, Mark(y) \/ Kill(y), NEW t, NEW u, SetOTPStatus(call[y].otp, t, u)
        PROVE  FALSE
    <3>1. call[y].otp \in Otp /\ call[y].pc \in {"mark", "kill"}
      BY <2>3, CallHolds DEF Mark, Kill
    <3>2. call[y].otp # o
      BY <3>1 DEF InTime
    <3> QED
      BY <1>1, <2>1, <2>3, <3>1, <3>2 DEF SetOTPStatus
  <2>4. ~Sweep
    BY <1>1, <2>1 DEF Sweep, ExpireStaleOTPs, table
  <2> QED
    BY <1>1, <2>1, <2>2, <2>3, <2>4, TableWriters
<1> QED
  BY <1>1, <1>3 DEF AnySchedule!Invalidate, PromptSchedule!Invalidate

(* Under the punctual schedule, and if no sending panics, the manager       *)
(* implements the tighter contract: no expired row is awarded or killed,    *)
(* none is awarded twice, and no claim is lost but in a restart.            *)
THEOREM ManagerKeepsPromptContract ==
  ASSUME Punctual, "panic" \notin Faults PROVE Spec => KeepsPromptContract
<1>1. Init => PromptSchedule!Init
  <2> SUFFICES ASSUME Init PROVE PromptSchedule!Init
      OBVIOUS
  <2>1. \A d \in Device, o \in Otp : ~Owed(d, o)
    BY DEF Init, Owed, Idle
  <2> QED
    BY <2>1 DEF Init, TableInit, PromptSchedule!Init, Owing
<1>2. ASSUME PInv, MarkOpen, Next PROVE PromptSchedule!Next
  <2> USE DEF PromptSchedule!Next
  <2>1. CASE \E o \in Otp : AnySchedule!Publish(o)
    BY <2>1 DEF AnySchedule!Publish, PromptSchedule!Publish
  <2>2. CASE \E o \in Otp : AnySchedule!Invalidate(o)
    BY <1>2, <2>2, KillsNarrowly
  <2>3. CASE \E d \in Device, o \in Otp : AnySchedule!Register(d, o)
    BY <2>3 DEF AnySchedule!Register, PromptSchedule!Register
  <2>4. CASE \E d \in Device, o \in Otp : AnySchedule!Award(d, o)
    BY <1>2, <2>4, AwardsNarrowly
  <2>5. CASE \E d \in Device, o \in Otp, type \in Reply : AnySchedule!Answer(d, o, type)
    BY <2>5 DEF AnySchedule!Answer, PromptSchedule!Answer, AnySchedule!MayAnswer,
                PromptSchedule!MayAnswer, Reply, PromptSchedule!Reply
  <2>6. CASE \E S \in SUBSET Otp : AnySchedule!Expire(S)
    BY <2>6 DEF AnySchedule!Expire, PromptSchedule!Expire
  <2>7. CASE AnySchedule!Pause \/ AnySchedule!Restart
    BY <2>7 DEF AnySchedule!Pause, PromptSchedule!Pause, AnySchedule!Restart,
                PromptSchedule!Restart
  <2>8. ~\E c \in Call : Unwind(c)
    BY DEF Unwind
  <2> QED
    BY <1>2, <2>1, <2>2, <2>3, <2>4, <2>5, <2>6, <2>7, <2>8, StepAccounted DEF Accounted, PInv
<1>3. PInv /\ MarkOpen /\ [Next]_vars => [PromptSchedule!Next]_(PromptSchedule!cvars)
  <2>1. UNCHANGED vars => UNCHANGED PromptSchedule!cvars
    BY NothingMoves DEF vars, PromptSchedule!cvars
  <2> QED
    BY <1>2, <2>1
<1>4. Init => MarkOpen
  BY DEF Init, MarkOpen, Idle
<1>5. PInv /\ MarkOpen /\ [Next]_vars => MarkOpen'
  <2>1. UNCHANGED vars /\ MarkOpen => MarkOpen'
    BY DEF vars, table, MarkOpen
  <2> QED
    BY <2>1, MarkOpenStep
<1> QED
  BY <1>1, <1>3, <1>4, <1>5, PromptInvariant, PTL DEF Spec, KeepsPromptContract, PromptSchedule!Spec
================================================================================
