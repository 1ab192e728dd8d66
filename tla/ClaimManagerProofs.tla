-------------------------- MODULE ClaimManagerProofs --------------------------
(***************************************************************************)
(* The safety invariants of ClaimManager, for every set of devices, OTPs   *)
(* and calls, every window and TTL, and whatever faults are allowed.       *)
(***************************************************************************)
EXTENDS ClaimManager, SequenceTheorems, TLAPS

(* What a call knows at each point: whom it works for and on which row,     *)
(* that a resolve carries exactly one claimant, that an invalidate carries  *)
(* two distinct rivals and has one or both of them to tell, and that a      *)
(* payload about to be sent has had its row settled already.                *)
CallOK(c) ==
  /\ call[c].pc # "idle" => call[c].dev \in Device /\ call[c].otp \in Otp
  /\ call[c].pc \in {"reload", "mark", "deliver"} =>
       \E d \in joined[call[c].otp] : call[c].who = <<d>>
  /\ call[c].pc = "kill" =>
       \E d, e \in rivals[call[c].otp] : d # e /\ call[c].who = <<d, e>>
  /\ call[c].pc = "notify" => call[c].who # <<>> /\ Len(call[c].who) <= 2
  /\ call[c].pc = "deliver" => status[call[c].otp] \in {"claimed", "invalidated"}

CallsOK == \A c \in Call : CallOK(c)

(* The claimant in a window is on record. *)
WindowsJoined ==
  \A o \in Otp : pending[o] # None => call[pending[o].timer].dev \in joined[o]

IInv ==
  /\ TypeOK
  /\ CallsOK
  /\ WindowHasTimer
  /\ WindowsJoined
  /\ PaidSettled
  /\ OnlyRivalsInvalidate
  /\ WinnerClaimed

(* The claimant lists that occur have one or two elements. *)
LEMMA ClaimantOfOne == ASSUME NEW a, NEW d PROVE Claimant(<<a>>, d) <=> d = a
<1>1. Len(<<a>>) = 1 /\ <<a>>[1] = a /\ 1..1 = {1}
  OBVIOUS
<1> QED
  BY <1>1 DEF Claimant

LEMMA ClaimantOfTwo == ASSUME NEW a, NEW b, NEW d PROVE Claimant(<<a, b>>, d) <=> d \in {a, b}
<1>1. Len(<<a, b>>) = 2 /\ <<a, b>>[1] = a /\ <<a, b>>[2] = b /\ 1..2 = {1, 2}
  OBVIOUS
<1> QED
  BY <1>1 DEF Claimant

LEMMA AppendToOne ==
  ASSUME NEW a \in Device, NEW d \in Device PROVE Append(<<a>>, d) = <<a, d>>
<1> DEFINE s == <<a>>
           t == <<a, d>>
<1>1. /\ s \in Seq(Device) /\ Len(s) = 1 /\ s[1] = a
      /\ t \in Seq(Device) /\ Len(t) = 2 /\ t[1] = a /\ t[2] = d
  OBVIOUS
<1>2. /\ Append(s, d) \in Seq(Device) /\ Len(Append(s, d)) = 2
      /\ Append(s, d)[1] = a /\ Append(s, d)[2] = d
  BY <1>1, AppendProperties
<1>3. \A i \in 1..2 : i = 1 \/ i = 2
  OBVIOUS
<1> HIDE DEF s, t
<1>4. Append(s, d) = t
  BY <1>1, <1>2, <1>3, SeqEqual
<1> QED
  BY <1>4 DEF s, t

LEMMA PairNotEmpty ==
  ASSUME NEW a, NEW b PROVE <<a, b>> # <<>> /\ Len(<<a, b>>) <= 2
  OBVIOUS

LEMMA IdleType == Idle \in CallState
  BY ManagerAssumption DEF ManagerAssumption, Idle, CallState, PC

LEMMA InitIInv == Init => IInv
<1> SUFFICES ASSUME Init PROVE IInv
    OBVIOUS
<1> USE TableAssumption DEF TableAssumption, Init, TableInit
<1>1. TypeOK
  BY IdleType DEF TypeOK, TableTypeOK, Status
<1>2. CallsOK
  BY DEF CallsOK, CallOK, Idle
<1>3. WindowHasTimer /\ WindowsJoined
  BY DEF WindowHasTimer, WindowsJoined
<1>4. PaidSettled /\ OnlyRivalsInvalidate /\ WinnerClaimed
  BY DEF PaidSettled, OnlyRivalsInvalidate, WinnerClaimed
<1> QED
  BY <1>1, <1>2, <1>3, <1>4 DEF IInv
-------------------------------------------------------------------------------
(* The ways an action writes the record of one call. *)
LEMMA CallWrites ==
  ASSUME call \in [Call -> CallState], NEW c \in Call
  PROVE  /\ Return(c) => call' \in [Call -> CallState]
         /\ \A l \in PC : Goto(c, l) => call' \in [Call -> CallState]
         /\ \A l \in PC, n \in 0..Window :
              call' = [call EXCEPT ![c].pc = l, ![c].left = n]
                => call' \in [Call -> CallState]
         /\ \A l \in PC, s \in Seq(Device) :
              call' = [call EXCEPT ![c].pc = l, ![c].who = s]
                => call' \in [Call -> CallState]
         /\ \A s \in Seq(Device) :
              call' = [call EXCEPT ![c].who = s] => call' \in [Call -> CallState]
<1>1. Return(c) => call' \in [Call -> CallState]
  BY IdleType DEF Return
<1>2. \A l \in PC : Goto(c, l) => call' \in [Call -> CallState]
  BY DEF CallState, Goto
<1>3. \A l \in PC, n \in 0..Window :
        call' = [call EXCEPT ![c].pc = l, ![c].left = n] => call' \in [Call -> CallState]
  <2>1. \A l \in PC, n \in 0..Window :
          [call[c] EXCEPT !.pc = l, !.left = n] \in CallState
    BY DEF CallState
  <2> QED
    BY <2>1
<1>4. \A l \in PC, s \in Seq(Device) :
        call' = [call EXCEPT ![c].pc = l, ![c].who = s] => call' \in [Call -> CallState]
  <2>1. \A l \in PC, s \in Seq(Device) :
          [call[c] EXCEPT !.pc = l, !.who = s] \in CallState
    BY DEF CallState
  <2> QED
    BY <2>1
<1>5. \A s \in Seq(Device) :
        call' = [call EXCEPT ![c].who = s] => call' \in [Call -> CallState]
  BY DEF CallState
<1> QED
  BY <1>1, <1>2, <1>3, <1>4, <1>5

(* What a call holds where an action uses it. *)
LEMMA CallHolds ==
  ASSUME IInv, NEW c \in Call
  PROVE  /\ call[c].who \in Seq(Device)
         /\ call[c].pc # "idle" => call[c].dev \in Device /\ call[c].otp \in Otp
         /\ call[c].pc \in {"reload", "mark", "deliver"} => call[c].who[1] \in Device
         /\ call[c].pc = "notify" => /\ Head(call[c].who) \in Device
                                     /\ Tail(call[c].who) \in Seq(Device)
<1>1. call[c].who \in Seq(Device)
  BY DEF IInv, TypeOK, CallState
<1>2. call[c].pc # "idle" => call[c].dev \in Device /\ call[c].otp \in Otp
  BY DEF IInv, CallsOK, CallOK
<1>3. call[c].pc \in {"reload", "mark", "deliver"} => call[c].who[1] \in Device
  BY <1>2 DEF IInv, CallsOK, CallOK, TypeOK
<1>4. call[c].pc = "notify" => call[c].who # <<>>
  BY DEF IInv, CallsOK, CallOK
<1> QED
  BY <1>1, <1>2, <1>3, <1>4, HeadTailProperties

(* Who is left to tell after the next one. *)
LEMMA TailShorter ==
  ASSUME IInv, NEW c \in Call, call[c].pc = "notify"
  PROVE  /\ Len(call[c].who) \in {1, 2}
         /\ Len(Tail(call[c].who)) = Len(call[c].who) - 1
<1>1. /\ call[c].who \in Seq(Device) /\ call[c].who # <<>> /\ Len(call[c].who) <= 2
  BY CallHolds DEF IInv, CallsOK, CallOK
<1>2. Len(call[c].who) \in Nat /\ Len(call[c].who) # 0
  BY <1>1, LenProperties, EmptySeq
<1>3. Len(call[c].who) \in {1, 2}
  <2>1. \A n \in Nat : n # 0 /\ n <= 2 => n \in {1, 2}
    OBVIOUS
  <2> QED
    BY <1>1, <1>2, <2>1
<1>4. Len(Tail(call[c].who)) = Len(call[c].who) - 1
  BY <1>1, HeadTailProperties
<1> QED
  BY <1>3, <1>4

(* An open window holds one claimant, who belongs to its timer's call. *)
LEMMA WindowHolds ==
  ASSUME IInv, NEW o \in Otp, pending[o] # None
  PROVE  /\ pending[o].timer \in Call
         /\ pending[o].claimants \in Seq(Device)
         /\ call[pending[o].timer].pc \in {"armed", "fired"}
         /\ call[pending[o].timer].otp = o
         /\ call[pending[o].timer].dev \in joined[o]
         /\ pending[o].claimants = <<call[pending[o].timer].dev>>
<1>1. pending[o] \in ClaimState
  BY DEF IInv, TypeOK
<1> QED
  BY <1>1 DEF IInv, WindowHasTimer, WindowsJoined, ClaimState

LEMMA CallStep == IInv /\ Next => call' \in [Call -> CallState]
<1> SUFFICES ASSUME IInv, Next PROVE call' \in [Call -> CallState]
    OBVIOUS
<1>a. call \in [Call -> CallState]
  BY DEF IInv, TypeOK
<1>1. ASSUME NEW o \in Otp, Ingest(o) PROVE call' = call
  BY <1>1 DEF Ingest
<1>2. ASSUME NEW d \in Device, NEW o \in Otp, ClaimRefused(d, o) PROVE call' = call
  BY <1>2 DEF ClaimRefused
<1>3. ASSUME NEW c \in Call, NEW d \in Device, NEW o \in Otp, ClaimPending(c, d, o)
      PROVE  call' \in [Call -> CallState]
  BY <1>3, <1>a, ManagerAssumption DEF ManagerAssumption, ClaimPending, CallState, PC
<1>4. ASSUME NEW c \in Call, OpenWindow(c) PROVE call' \in [Call -> CallState]
  <2>1. Window \in 0..Window
    BY ManagerAssumption DEF ManagerAssumption
  <2> QED
    BY <1>4, <1>a, <2>1, CallWrites DEF OpenWindow, ClaimWindow, PC
<1>5. ASSUME NEW c \in Call, RepeatClaim(c) PROVE call' \in [Call -> CallState]
  BY <1>5, <1>a, CallWrites DEF RepeatClaim
<1>6. ASSUME NEW c \in Call, SecondClaim(c) PROVE call' \in [Call -> CallState]
  <2> DEFINE o == call[c].otp
             st == pending[o]
             who == Append(st.claimants, call[c].dev)
             mid == [call EXCEPT ![st.timer] = Stopped(st.timer)]
  <2>1. call[c].dev \in Device /\ o \in Otp /\ call[c].pc = "enter" /\ st # None
    BY <1>6, CallHolds DEF SecondClaim
  <2>2. st.timer \in Call /\ st.claimants \in Seq(Device) /\ st.timer # c
    BY <2>1, WindowHolds
  <2>3. who \in Seq(Device)
    BY <2>1, <2>2, AppendProperties
  <2>4. mid \in [Call -> CallState]
    BY <2>2, <1>a, IdleType DEF Stopped
  <2>5. call' = [mid EXCEPT ![c].pc = "kill", ![c].who = who]
    BY <1>6 DEF SecondClaim
  <2> QED
    <3>1. [mid[c] EXCEPT !.pc = "kill", !.who = who] \in CallState
      BY <2>3, <2>4 DEF CallState, PC
    <3> QED
      BY <2>4, <2>5, <3>1
<1>7. ASSUME NEW c \in Call, Fire(c) PROVE call' \in [Call -> CallState]
  BY <1>7, <1>a, CallWrites DEF Fire, PC
<1>8. ASSUME NEW c \in Call, TakeWindow(c) PROVE call' \in [Call -> CallState]
  <2>1. call[c].otp \in Otp
    BY <1>8, CallHolds DEF TakeWindow
  <2>2. CASE pending[call[c].otp] = None
    BY <1>8, <1>a, <2>2, CallWrites DEF TakeWindow
  <2>3. CASE pending[call[c].otp] # None
    <3>1. pending[call[c].otp].claimants \in Seq(Device)
      BY <2>1, <2>3, WindowHolds
    <3>2. PICK l \in {"kill", "reload"} :
            call' = [call EXCEPT ![c].pc = l, ![c].who = pending[call[c].otp].claimants]
      BY <1>8, <2>3 DEF TakeWindow
    <3> QED
      BY <1>a, <3>1, <3>2, CallWrites DEF PC
  <2> QED
    BY <2>2, <2>3
<1>9. ASSUME NEW c \in Call, Reload(c) PROVE call' \in [Call -> CallState]
  BY <1>9, <1>a, CallWrites DEF Reload, PC
<1>10. ASSUME NEW c \in Call, Mark(c) PROVE call' \in [Call -> CallState]
  BY <1>10, <1>a, CallWrites DEF Mark, PC
<1>11. ASSUME NEW c \in Call, Deliver(c) PROVE call' \in [Call -> CallState]
  BY <1>11, <1>a, CallWrites DEF Deliver
<1>12. ASSUME NEW c \in Call, Kill(c) PROVE call' \in [Call -> CallState]
  BY <1>12, <1>a, CallWrites DEF Kill, PC
<1>13. ASSUME NEW c \in Call, Notify(c) PROVE call' \in [Call -> CallState]
  <2>1. Tail(call[c].who) \in Seq(Device)
    BY <1>13, CallHolds DEF Notify
  <2> QED
    BY <1>13, <1>a, <2>1, CallWrites DEF Notify
<1>14. ASSUME Sweep PROVE call' = call
  BY <1>14 DEF Sweep
<1>15. ASSUME Crash PROVE call' \in [Call -> CallState]
  BY <1>15, IdleType DEF Crash
<1>16. ASSUME Tick PROVE call' \in [Call -> CallState]
  <2>1. \A c \in Call : call[c].left > 0 =>
          [call[c] EXCEPT !.left = @ - 1] \in CallState
    <3> SUFFICES ASSUME NEW c \in Call, call[c].left > 0
                 PROVE  [call[c] EXCEPT !.left = @ - 1] \in CallState
      OBVIOUS
    <3>1. call[c] \in CallState /\ call[c].left \in 0..Window
      BY <1>a DEF CallState
    <3>2. call[c].left - 1 \in 0..Window
      BY <3>1, ManagerAssumption DEF ManagerAssumption
    <3> QED
      BY <3>1, <3>2 DEF CallState
  <2> QED
    BY <1>16, <1>a, <2>1 DEF Tick
<1>17. ASSUME NEW c \in Call, Unwind(c) PROVE call' \in [Call -> CallState]
  BY <1>17, <1>a, CallWrites DEF Unwind
<1> QED
  BY <1>a, <1>1, <1>2, <1>3, <1>4, <1>5, <1>6, <1>7, <1>8, <1>9, <1>10, <1>11, <1>12,
     <1>13, <1>14, <1>15, <1>16, <1>17 DEF Next, Step

LEMMA TypeStep == IInv /\ Next => TypeOK'
<1> SUFFICES ASSUME IInv, Next PROVE TypeOK'
    OBVIOUS
<1>a. call' \in [Call -> CallState]
  BY CallStep
<1> USE <1>a, TableAssumption, ManagerAssumption
    DEF TableAssumption, ManagerAssumption, TypeOK, TableTypeOK, Status, table, Quiet,
        Envelope, Reply, IInv
<1>1. ASSUME NEW o \in Otp, Ingest(o) PROVE TypeOK'
  BY <1>1 DEF Ingest, InsertOTP
<1>2. ASSUME NEW d \in Device, NEW o \in Otp, ClaimRefused(d, o) PROVE TypeOK'
  BY <1>2 DEF ClaimRefused, Send, Verdict
<1>3. ASSUME NEW c \in Call, NEW d \in Device, NEW o \in Otp, ClaimPending(c, d, o)
      PROVE  TypeOK'
  BY <1>3 DEF ClaimPending
<1>4. ASSUME NEW c \in Call, OpenWindow(c) PROVE TypeOK'
  <2>1. call[c].dev \in Device /\ call[c].otp \in Otp
    BY <1>4, CallHolds DEF OpenWindow
  <2>2. [claimants |-> <<call[c].dev>>, timer |-> c] \in ClaimState
    BY <2>1 DEF ClaimState
  <2> QED
    BY <1>4, <2>1, <2>2 DEF OpenWindow
<1>5. ASSUME NEW c \in Call, RepeatClaim(c) PROVE TypeOK'
  BY <1>5 DEF RepeatClaim
<1>6. ASSUME NEW c \in Call, SecondClaim(c) PROVE TypeOK'
  <2>1. call[c].dev \in Device /\ call[c].otp \in Otp
    BY <1>6, CallHolds DEF SecondClaim
  <2>2. pending' \in [Otp -> ClaimState \cup {None}]
    BY <1>6 DEF SecondClaim, CloseWindow
  <2>3. joined' \in [Otp -> SUBSET Device] /\ rivals' \in [Otp -> SUBSET Device]
    BY <1>6, <2>1 DEF SecondClaim
  <2> QED
    BY <1>6, <2>2, <2>3 DEF SecondClaim
<1>7. ASSUME NEW c \in Call, Fire(c) PROVE TypeOK'
  BY <1>7 DEF Fire
<1>8. ASSUME NEW c \in Call, TakeWindow(c) PROVE TypeOK'
  BY <1>8 DEF TakeWindow, CloseWindow
<1>9. ASSUME NEW c \in Call, Reload(c) PROVE TypeOK'
  BY <1>9, CallHolds DEF Reload, Send
<1>10. ASSUME NEW c \in Call, Mark(c) PROVE TypeOK'
  <2>1. call[c].who[1] \in Device /\ call[c].otp \in Otp
    BY <1>10, CallHolds DEF Mark
  <2>2. TableTypeOK'
    BY <1>10, <2>1 DEF Mark, SetOTPStatus
  <2>3. out' \in Envelope \cup {None} /\ paid' = paid
    BY <1>10, <2>1 DEF Mark, Send
  <2> QED
    BY <1>10, <2>2, <2>3 DEF Mark
<1>11. ASSUME NEW c \in Call, Deliver(c) PROVE TypeOK'
  BY <1>11, CallHolds DEF Deliver, Send
<1>12. ASSUME NEW c \in Call, Kill(c) PROVE TypeOK'
  BY <1>12 DEF Kill, SetOTPStatus
<1>13. ASSUME NEW c \in Call, Notify(c) PROVE TypeOK'
  BY <1>13, CallHolds DEF Notify, Send
<1>14. ASSUME Sweep PROVE TypeOK'
  <2>1. CASE ExpireStaleOTPs
    BY <1>14, <2>1 DEF Sweep, ExpireStaleOTPs
  <2>2. CASE UNCHANGED table
    BY <1>14, <2>2 DEF Sweep, table
  <2> QED
    BY <1>14, <2>1, <2>2 DEF Sweep
<1>15. ASSUME Crash PROVE TypeOK'
  BY <1>15 DEF Crash
<1>16. ASSUME Tick PROVE TypeOK'
  BY <1>16 DEF Tick, AgeRows, Lapsed
<1>17. ASSUME NEW c \in Call, Unwind(c) PROVE TypeOK'
  BY <1>17 DEF Unwind
<1> QED
  BY <1>1, <1>2, <1>3, <1>4, <1>5, <1>6, <1>7, <1>8, <1>9, <1>10, <1>11, <1>12,
     <1>13, <1>14, <1>15, <1>16, <1>17 DEF Next, Step
-------------------------------------------------------------------------------
(* Which actions write the table, the payload history and the claim         *)
(* histories.                                                               *)
LEMMA TableWriters ==
  ASSUME IInv, Next
  PROVE  \/ UNCHANGED <<status, claimedBy>>
         \/ \E o \in Otp : Ingest(o)
         \/ \E c \in Call : Mark(c) /\ SetOTPStatus(call[c].otp, "claimed", call[c].who[1])
         \/ \E c \in Call : Kill(c) /\ SetOTPStatus(call[c].otp, "invalidated", None)
         \/ Sweep
<1> USE DEF table
<1>1. ASSUME NEW d \in Device, NEW o \in Otp, ClaimRefused(d, o)
      PROVE  UNCHANGED <<status, claimedBy>>
  BY <1>1 DEF ClaimRefused
<1>2. ASSUME NEW c \in Call, NEW d \in Device, NEW o \in Otp, ClaimPending(c, d, o)
      PROVE  UNCHANGED <<status, claimedBy>>
  BY <1>2 DEF ClaimPending
<1>3. ASSUME NEW c \in Call,
             \/ OpenWindow(c) \/ RepeatClaim(c) \/ SecondClaim(c) \/ Fire(c)
             \/ TakeWindow(c) \/ Reload(c) \/ Deliver(c) \/ Notify(c)
             \/ Unwind(c)
      PROVE  UNCHANGED <<status, claimedBy>>
  BY <1>3 DEF OpenWindow, RepeatClaim, SecondClaim, Fire, TakeWindow, Reload,
              Deliver, Notify, Unwind
<1>4. ASSUME NEW c \in Call, Mark(c)
      PROVE  \/ UNCHANGED <<status, claimedBy>>
             \/ SetOTPStatus(call[c].otp, "claimed", call[c].who[1])
  BY <1>4 DEF Mark
<1>5. ASSUME NEW c \in Call, Kill(c)
      PROVE  \/ UNCHANGED <<status, claimedBy>>
             \/ SetOTPStatus(call[c].otp, "invalidated", None)
  BY <1>5 DEF Kill
<1>6. Crash \/ Tick => UNCHANGED <<status, claimedBy>>
  BY DEF Crash, Tick, AgeRows
<1> QED
  BY <1>1, <1>2, <1>3, <1>4, <1>5, <1>6 DEF Next, Step

LEMMA PayloadWriters ==
  ASSUME Next
  PROVE  paid' = paid \/ \E c \in Call : Deliver(c)
<1>1. ASSUME NEW d \in Device, NEW o \in Otp, ClaimRefused(d, o) PROVE paid' = paid
  <2>1. Verdict(o) # "otp_payload"
    BY DEF Verdict
  <2> QED
    BY <1>1, <2>1 DEF ClaimRefused, Send
<1>2. ASSUME NEW c \in Call, Step(c), ~Deliver(c) PROVE paid' = paid
  BY <1>2 DEF Step, OpenWindow, RepeatClaim, SecondClaim, Fire, TakeWindow, Reload, Mark,
              Kill, Notify, Quiet, Send
<1>3. ASSUME \/ \E o \in Otp : Ingest(o)
             \/ \E c \in Call, d \in Device, o \in Otp : ClaimPending(c, d, o)
             \/ \E c \in Call : Unwind(c)
             \/ Sweep \/ Crash \/ Tick
      PROVE  paid' = paid
  BY <1>3 DEF Ingest, ClaimPending, Sweep, Crash, Tick, Unwind, Quiet
<1> QED
  BY <1>1, <1>2, <1>3 DEF Next

LEMMA HistoryGrows ==
  ASSUME IInv, Next, NEW o \in Otp
  PROVE  joined[o] \subseteq joined'[o] /\ rivals[o] \subseteq rivals'[o]
<1> USE DEF IInv, TypeOK
<1>1. ASSUME \/ \E x \in Otp : Ingest(x)
             \/ \E c \in Call, d \in Device, x \in Otp : ClaimPending(c, d, x)
             \/ \E d \in Device, x \in Otp : ClaimRefused(d, x)
             \/ \E c \in Call : Unwind(c)
             \/ Sweep \/ Crash \/ Tick
      PROVE  UNCHANGED <<joined, rivals>>
  BY <1>1 DEF Ingest, ClaimPending, ClaimRefused, Sweep, Crash, Tick, Unwind
<1>2. ASSUME NEW c \in Call, Step(c), ~OpenWindow(c), ~SecondClaim(c)
      PROVE  UNCHANGED <<joined, rivals>>
  BY <1>2 DEF Step, RepeatClaim, Fire, TakeWindow, Reload, Mark, Deliver, Kill, Notify
<1>3. ASSUME NEW c \in Call, OpenWindow(c)
      PROVE  joined[o] \subseteq joined'[o] /\ rivals[o] \subseteq rivals'[o]
  BY <1>3 DEF OpenWindow
<1>4. ASSUME NEW c \in Call, SecondClaim(c)
      PROVE  joined[o] \subseteq joined'[o] /\ rivals[o] \subseteq rivals'[o]
  BY <1>4 DEF SecondClaim
<1> QED
  BY <1>1, <1>2, <1>3, <1>4 DEF Next

LEMMA SettledStaysStep ==
  ASSUME IInv, Next, NEW o \in Otp
  PROVE  /\ status[o] \in {"claimed", "invalidated"} =>
              status'[o] \in {"claimed", "invalidated"}
         /\ status[o] # "absent" /\ status'[o] = "pending" => status[o] = "pending"
<1> USE DEF IInv, TypeOK, TableTypeOK, Status
<1>1. ASSUME NEW x \in Otp, Ingest(x)
      PROVE  status[x] = "absent" /\ status' = [status EXCEPT ![x] = "pending"]
  BY <1>1 DEF Ingest, InsertOTP
<1>2. ASSUME NEW x \in Otp, NEW s \in {"claimed", "invalidated"}, NEW d, SetOTPStatus(x, s, d)
      PROVE  status' = [status EXCEPT ![x] = s]
  BY <1>2 DEF SetOTPStatus
<1>3. ASSUME Sweep
      PROVE  \/ status' = [x \in Otp |-> IF status[x] = "pending" /\ Lapsed(x)
                                         THEN "expired" ELSE status[x]]
             \/ status' = status
  BY <1>3 DEF Sweep, ExpireStaleOTPs, table
<1>4. \A c \in Call : Mark(c) \/ Kill(c) => call[c].otp \in Otp
  BY CallHolds DEF Mark, Kill
<1> QED
  BY <1>1, <1>2, <1>3, <1>4, TableWriters
-------------------------------------------------------------------------------
(* A call is undisturbed by a step that leaves it where it stands. *)
LEMMA CallKept ==
  ASSUME IInv, Next, NEW c \in Call,
         call'[c].pc = call[c].pc, call'[c].dev = call[c].dev,
         call'[c].otp = call[c].otp, call'[c].who = call[c].who
  PROVE  CallOK(c)'
<1>1. CASE call[c].pc = "idle"
  BY <1>1 DEF CallOK
<1>2. CASE call[c].pc # "idle"
  <2>1. call[c].otp \in Otp /\ CallOK(c)
    BY <1>2, CallHolds DEF IInv, CallsOK
  <2> QED
    BY <2>1, HistoryGrows, SettledStaysStep DEF CallOK
<1> QED
  BY <1>1, <1>2

LEMMA CallOKStep == IInv /\ Next => CallsOK'
<1> SUFFICES ASSUME IInv, Next, NEW x \in Call PROVE CallOK(x)'
    BY DEF CallsOK
<1>a. call \in [Call -> CallState] /\ call' \in [Call -> CallState]
  BY CallStep DEF IInv, TypeOK
<1>b. call'[x].pc = "idle" => CallOK(x)'
  BY DEF CallOK
<1>c. call'[x] = call[x] => CallOK(x)'
  BY CallKept
<1>1. ASSUME \/ \E o \in Otp : Ingest(o)
             \/ \E d \in Device, o \in Otp : ClaimRefused(d, o)
             \/ Sweep
      PROVE  CallOK(x)'
  BY <1>1, <1>c DEF Ingest, ClaimRefused, Sweep
<1>3. ASSUME NEW c \in Call, NEW d \in Device, NEW o \in Otp, ClaimPending(c, d, o)
      PROVE  CallOK(x)'
  <2>1. CASE x = c
    BY <1>3, <1>a, <2>1 DEF ClaimPending, CallOK
  <2>2. CASE x # c
    BY <1>3, <1>a, <1>c, <2>2 DEF ClaimPending
  <2> QED
    BY <2>1, <2>2
<1>4. ASSUME NEW c \in Call, OpenWindow(c) PROVE CallOK(x)'
  <2>1. CASE x = c
    BY <1>4, <1>a, <2>1, CallHolds DEF OpenWindow, CallOK, CallState
  <2>2. CASE x # c
    BY <1>4, <1>a, <1>c, <2>2 DEF OpenWindow
  <2> QED
    BY <2>1, <2>2
<1>5. ASSUME NEW c \in Call, RepeatClaim(c) PROVE CallOK(x)'
  BY <1>5, <1>a, <1>b, <1>c DEF RepeatClaim, Return, Idle
<1>7. ASSUME NEW c \in Call, Fire(c) PROVE CallOK(x)'
  <2>1. CASE x = c
    BY <1>7, <1>a, <2>1, CallHolds DEF Fire, Goto, CallOK, CallState
  <2>2. CASE x # c
    BY <1>7, <1>a, <1>c, <2>2 DEF Fire, Goto
  <2> QED
    BY <2>1, <2>2
<1>6. ASSUME NEW c \in Call, SecondClaim(c) PROVE CallOK(x)'
  <2> DEFINE o == call[c].otp
             st == pending[o]
             d == call[c].dev
             e == call[st.timer].dev
  <2>1. d \in Device /\ o \in Otp /\ st # None /\ call[c].pc = "enter"
    BY <1>6, CallHolds DEF SecondClaim
  <2>2. /\ st.timer \in Call /\ st.timer # c /\ st.claimants = <<e>> /\ e \in joined[o]
    BY <2>1, WindowHolds
  <2>3. CASE x = c
    <3>1. d # e
      <4>1. ~Claimant(st.claimants, d)
        BY <1>6 DEF SecondClaim
      <4> QED
        BY <2>2, <4>1, ClaimantOfOne
    <3>2. e \in Device
      BY <2>1, <2>2 DEF IInv, TypeOK
    <3>3. Append(st.claimants, d) = <<e, d>>
      BY <2>1, <2>2, <3>2, AppendToOne
    <3>4. {d, e} \subseteq rivals'[o]
      <4>1. Claimant(st.claimants, e)
        BY <2>2, ClaimantOfOne
      <4>2. rivals' = [rivals EXCEPT ![o] = @ \cup {d} \cup
                          {y \in Device : Claimant(st.claimants, y)}]
        BY <1>6 DEF SecondClaim
      <4> QED
        BY <2>1, <3>2, <4>1, <4>2 DEF IInv, TypeOK
    <3>5. /\ call'[c].pc = "kill" /\ call'[c].who = <<e, d>>
          /\ call'[c].dev = d /\ call'[c].otp = o
      BY <1>6, <1>a, <2>2, <3>3 DEF SecondClaim, CallState
    <3> QED
      BY <2>1, <2>3, <3>1, <3>4, <3>5 DEF CallOK
  <2>4. CASE x # c /\ x # st.timer
    BY <1>6, <1>a, <1>c, <2>4 DEF SecondClaim
  <2>5. CASE x = st.timer
    <3>1. call'[x] = Stopped(x)
      BY <1>6, <1>a, <2>2, <2>5 DEF SecondClaim
    <3> QED
      BY <3>1, <1>b, <1>c DEF Stopped, Idle
  <2> QED
    BY <2>3, <2>4, <2>5
<1>8. ASSUME NEW c \in Call, TakeWindow(c) PROVE CallOK(x)'
  <2> DEFINE o == call[c].otp
             st == pending[o]
  <2>1. CASE st = None
    BY <1>8, <1>a, <1>b, <1>c, <2>1 DEF TakeWindow, Return, Idle
  <2>2. CASE st # None
    <3>1. o \in Otp /\ call[c].dev \in Device
      BY <1>8, CallHolds DEF TakeWindow
    <3>2. PICK d \in joined[o] : st.claimants = <<d>>
      BY <2>2, <3>1, WindowHolds
    <3>3. call' = [call EXCEPT ![c].pc = "reload", ![c].who = <<d>>]
      BY <1>8, <2>2, <3>2 DEF TakeWindow
    <3>4. CASE x # c
      BY <1>a, <1>c, <3>3, <3>4
    <3>5. CASE x = c
      <4>1. /\ call'[c].pc = "reload" /\ call'[c].who = <<d>>
            /\ call'[c].otp = o /\ call'[c].dev = call[c].dev
        BY <1>a, <3>3 DEF CallState
      <4>2. joined' = joined
        BY <1>8 DEF TakeWindow
      <4> QED
        BY <3>1, <3>5, <4>1, <4>2 DEF CallOK
    <3> QED
      BY <3>4, <3>5
  <2> QED
    BY <2>1, <2>2
<1>9. ASSUME NEW c \in Call, Reload(c) PROVE CallOK(x)'
  <2>1. CASE Return(c)
    BY <1>a, <1>b, <1>c, <2>1 DEF Return, Idle
  <2>2. CASE Goto(c, "mark")
    <3>1. x # c => call'[x] = call[x]
      BY <1>a, <2>2 DEF Goto
    <3>2. /\ call'[c].pc = "mark" /\ call'[c].who = call[c].who
          /\ call'[c].otp = call[c].otp /\ call'[c].dev = call[c].dev
      BY <1>a, <2>2 DEF Goto, CallState
    <3>3. call[c].pc = "reload" /\ CallOK(c) /\ joined' = joined
      BY <1>9 DEF Reload, IInv, CallsOK
    <3> QED
      BY <1>c, <3>1, <3>2, <3>3 DEF CallOK
  <2> QED
    BY <1>9, <2>1, <2>2 DEF Reload
<1>10. ASSUME NEW c \in Call, Mark(c) PROVE CallOK(x)'
  <2>1. CASE Return(c)
    BY <1>a, <1>b, <1>c, <2>1 DEF Return, Idle
  <2>2. CASE Goto(c, "deliver") /\ SetOTPStatus(call[c].otp, "claimed", call[c].who[1])
    <3>1. x # c => call'[x] = call[x]
      BY <1>a, <2>2 DEF Goto
    <3>2. /\ call'[c].pc = "deliver" /\ call'[c].who = call[c].who
          /\ call'[c].otp = call[c].otp /\ call'[c].dev = call[c].dev
      BY <1>a, <2>2 DEF Goto, CallState
    <3>3. call[c].pc = "mark" /\ CallOK(c) /\ joined' = joined
      BY <1>10 DEF Mark, IInv, CallsOK
    <3>4. status'[call[c].otp] = "claimed"
      BY <2>2, <3>3 DEF SetOTPStatus, CallOK, IInv, TypeOK, TableTypeOK
    <3> QED
      BY <1>c, <3>1, <3>2, <3>3, <3>4 DEF CallOK
  <2> QED
    BY <1>10, <2>1, <2>2 DEF Mark
<1>11. ASSUME NEW c \in Call, Deliver(c) PROVE CallOK(x)'
  BY <1>11, <1>a, <1>b, <1>c DEF Deliver, Return, Idle
<1>12. ASSUME NEW c \in Call, Kill(c) PROVE CallOK(x)'
  <2>1. x # c => call'[x] = call[x]
    BY <1>12, <1>a DEF Kill, Goto
  <2>2. /\ call'[c].pc = "notify" /\ call'[c].who = call[c].who
        /\ call'[c].otp = call[c].otp /\ call'[c].dev = call[c].dev
    BY <1>12, <1>a DEF Kill, Goto, CallState
  <2>3. /\ call[c].who # <<>> /\ Len(call[c].who) <= 2
        /\ call[c].dev \in Device /\ call[c].otp \in Otp
    <3>1. PICK d, e \in rivals[call[c].otp] : call[c].who = <<d, e>>
      BY <1>12 DEF Kill, IInv, CallsOK, CallOK
    <3>2. call[c].pc = "kill"
      BY <1>12 DEF Kill
    <3> QED
      BY <3>1, <3>2, PairNotEmpty, CallHolds
  <2> QED
    BY <1>c, <2>1, <2>2, <2>3 DEF CallOK
<1>13. ASSUME NEW c \in Call, Notify(c) PROVE CallOK(x)'
  <2>1. CASE Tail(call[c].who) = <<>>
    BY <1>13, <1>a, <1>b, <1>c, <2>1 DEF Notify, Return, Idle
  <2>2. CASE Tail(call[c].who) # <<>>
    <3> DEFINE rest == Tail(call[c].who)
    <3>a. call' = [call EXCEPT ![c].who = rest] /\ call[c].pc = "notify"
      BY <1>13, <2>2 DEF Notify
    <3> HIDE DEF rest
    <3>1. x # c => call'[x] = call[x]
      BY <1>a, <3>a
    <3>2. /\ call'[c].pc = "notify" /\ call'[c].who = rest
          /\ call'[c].otp = call[c].otp /\ call'[c].dev = call[c].dev
      BY <1>a, <3>a DEF CallState
    <3>3. call[c].dev \in Device /\ call[c].otp \in Otp
      BY <1>13, CallHolds DEF Notify
    <3>4. Len(rest) <= 2
      BY <1>13, TailShorter DEF Notify, IInv, CallsOK, CallOK, rest
    <3> QED
      BY <1>c, <2>2, <3>1, <3>2, <3>3, <3>4 DEF CallOK, rest
  <2> QED
    BY <2>1, <2>2
<1>15. ASSUME Crash PROVE CallOK(x)'
  BY <1>15, <1>b DEF Crash, Idle
<1>16. ASSUME Tick PROVE CallOK(x)'
  <2>1. /\ call'[x].pc = call[x].pc /\ call'[x].dev = call[x].dev
        /\ call'[x].otp = call[x].otp /\ call'[x].who = call[x].who
    BY <1>16, <1>a DEF Tick, CallState
  <2> QED
    BY <2>1, CallKept
<1>17. ASSUME NEW c \in Call, Unwind(c) PROVE CallOK(x)'
  BY <1>17, <1>a, <1>b, <1>c DEF Unwind, Return, Idle
<1> QED
  BY <1>1, <1>3, <1>4, <1>5, <1>6, <1>7, <1>8, <1>9, <1>10, <1>11, <1>12, <1>13, <1>15,
     <1>16, <1>17 DEF Next, Step
-------------------------------------------------------------------------------
(* WindowOK(o) is the part of WindowHasTimer and WindowsJoined about o. *)
WindowOK(o) ==
  pending[o] # None =>
    LET st == pending[o] IN
    /\ st.claimants = <<call[st.timer].dev>>
    /\ call[st.timer].otp = o
    /\ call[st.timer].pc \in {"armed", "fired"}
    /\ call[st.timer].dev \in joined[o]

(* A window survives a step that leaves it and its timer in place. *)
LEMMA WindowKept ==
  ASSUME IInv, Next, NEW o \in Otp, pending'[o] = pending[o],
         pending[o] # None =>
           LET t == pending[o].timer IN
           /\ call'[t].dev = call[t].dev /\ call'[t].otp = call[t].otp
           /\ call'[t].pc \in {"armed", "fired"}
  PROVE  WindowOK(o)'
  BY WindowHolds, HistoryGrows DEF WindowOK

LEMMA WindowStep == IInv /\ Next => WindowHasTimer' /\ WindowsJoined'
<1> SUFFICES ASSUME IInv, Next, NEW o \in Otp PROVE WindowOK(o)'
    BY DEF WindowHasTimer, WindowsJoined, WindowOK
<1>a. /\ call \in [Call -> CallState] /\ call' \in [Call -> CallState]
      /\ pending \in [Otp -> ClaimState \cup {None}]
  BY CallStep DEF IInv, TypeOK
<1>b. pending'[o] = None => WindowOK(o)'
  BY DEF WindowOK
<1>c. ASSUME pending' = pending, NEW c, call[c].pc \notin {"armed", "fired"},
             \A x \in Call : x # c => call'[x] = call[x]
      PROVE  WindowOK(o)'
  BY <1>c, WindowHolds, WindowKept
<1>1. ASSUME \/ \E x \in Otp : Ingest(x)
             \/ \E d \in Device, x \in Otp : ClaimRefused(d, x)
             \/ Sweep
      PROVE  WindowOK(o)'
  BY <1>1, WindowHolds, WindowKept DEF Ingest, ClaimRefused, Sweep
<1>2. ASSUME NEW c \in Call, NEW d \in Device, NEW x \in Otp, ClaimPending(c, d, x)
      PROVE  WindowOK(o)'
  BY <1>2, <1>a, <1>c DEF ClaimPending
<1>3. ASSUME NEW c \in Call, RepeatClaim(c) \/ Deliver(c) \/ Unwind(c)
      PROVE  WindowOK(o)'
  BY <1>3, <1>a, <1>c DEF RepeatClaim, Deliver, Unwind, Return
<1>4. ASSUME NEW c \in Call, Reload(c) \/ Mark(c) \/ Kill(c)
      PROVE  WindowOK(o)'
  BY <1>4, <1>a, <1>c DEF Reload, Mark, Kill, Return, Goto
<1>5. ASSUME NEW c \in Call, Notify(c)
      PROVE  WindowOK(o)'
  BY <1>5, <1>a, <1>c DEF Notify, Return
<1>6. ASSUME NEW c \in Call, OpenWindow(c) PROVE WindowOK(o)'
  <2>1. /\ call[c].pc = "enter" /\ call[c].otp \in Otp /\ call[c].dev \in Device
        /\ pending' = [pending EXCEPT ![call[c].otp] =
                         [claimants |-> <<call[c].dev>>, timer |-> c]]
    BY <1>6, CallHolds DEF OpenWindow
  <2>2. CASE o = call[c].otp
    <3>1. pending'[o] = [claimants |-> <<call[c].dev>>, timer |-> c]
      BY <1>a, <2>1, <2>2
    <3>2. call'[c].pc = "armed" /\ call'[c].dev = call[c].dev /\ call'[c].otp = o
      BY <1>6, <1>a, <2>2 DEF OpenWindow, CallState
    <3>3. call[c].dev \in joined'[o]
      BY <1>6, <2>1, <2>2 DEF OpenWindow, IInv, TypeOK
    <3> QED
      BY <3>1, <3>2, <3>3 DEF WindowOK
  <2>3. CASE o # call[c].otp
    <3>1. pending'[o] = pending[o] /\ \A x \in Call : x # c => call'[x] = call[x]
      BY <1>6, <1>a, <2>1, <2>3 DEF OpenWindow
    <3> QED
      BY <2>1, <3>1, WindowHolds, WindowKept
  <2> QED
    BY <2>2, <2>3
<1>7. ASSUME NEW c \in Call, SecondClaim(c) PROVE WindowOK(o)'
  <2>1. /\ call[c].pc = "enter" /\ call[c].otp \in Otp /\ pending[call[c].otp] # None
        /\ pending' = [pending EXCEPT ![call[c].otp] = None]
    BY <1>7, CallHolds DEF SecondClaim, CloseWindow
  <2>2. CASE o # call[c].otp /\ pending[o] # None
    <3> DEFINE t == pending[call[c].otp].timer
    <3>1. t \in Call /\ call[t].otp = call[c].otp
      BY <2>1, WindowHolds
    <3>2. \A x \in Call : x # c /\ x # t => call'[x] = call[x]
      BY <1>7, <1>a, <3>1 DEF SecondClaim
    <3>3. pending'[o] = pending[o]
      BY <1>a, <2>1, <2>2
    <3> QED
      BY <2>1, <2>2, <3>1, <3>2, <3>3, WindowHolds, WindowKept
  <2> QED
    BY <1>a, <1>b, <2>1, <2>2
<1>8. ASSUME NEW c \in Call, TakeWindow(c) PROVE WindowOK(o)'
  <2>1. /\ call[c].otp \in Otp
        /\ pending' = [pending EXCEPT ![call[c].otp] = None]
    BY <1>8, <1>a, CallHolds DEF TakeWindow, CloseWindow
  <2>2. CASE o # call[c].otp /\ pending[o] # None
    <3>1. \A x \in Call : x # c => call'[x] = call[x]
      BY <1>8, <1>a DEF TakeWindow, Return
    <3>2. pending'[o] = pending[o]
      BY <1>a, <2>1, <2>2
    <3> QED
      BY <2>2, <3>1, <3>2, WindowHolds, WindowKept
  <2> QED
    BY <1>a, <1>b, <2>1, <2>2
<1>9. ASSUME NEW c \in Call, Fire(c) PROVE WindowOK(o)'
  <2>1. /\ \A x \in Call : x # c => call'[x] = call[x]
        /\ call'[c].pc = "fired" /\ call'[c].dev = call[c].dev /\ call'[c].otp = call[c].otp
        /\ pending' = pending
    BY <1>9, <1>a DEF Fire, Goto, CallState
  <2> QED
    BY <2>1, WindowHolds, WindowKept
<1>10. ASSUME Crash PROVE WindowOK(o)'
  BY <1>10, <1>b DEF Crash
<1>11. ASSUME Tick PROVE WindowOK(o)'
  <2>1. \A x \in Call : /\ call'[x].pc = call[x].pc /\ call'[x].dev = call[x].dev
                        /\ call'[x].otp = call[x].otp
    BY <1>11, <1>a DEF Tick, CallState
  <2>2. pending' = pending
    BY <1>11 DEF Tick
  <2> QED
    BY <2>1, <2>2, WindowHolds, WindowKept
<1> QED
  BY <1>1, <1>2, <1>3, <1>4, <1>5, <1>6, <1>7, <1>8, <1>9, <1>10, <1>11 DEF Next, Step
-------------------------------------------------------------------------------
LEMMA PaidSettledStep == IInv /\ Next => PaidSettled'
<1> SUFFICES ASSUME IInv, Next, NEW o \in Otp, paid'[o] # {}
             PROVE  status'[o] \in {"claimed", "invalidated"}
    BY DEF PaidSettled
<1>1. CASE paid[o] # {}
  BY <1>1, SettledStaysStep DEF IInv, PaidSettled
<1>2. CASE paid[o] = {}
  <2>1. PICK c \in Call : Deliver(c)
    BY <1>2, PayloadWriters
  <2>2. call[c].otp = o
    BY <1>2, <2>1 DEF Deliver, Send, IInv, TypeOK
  <2>3. status[o] \in {"claimed", "invalidated"}
    BY <2>1, <2>2 DEF Deliver, IInv, CallsOK, CallOK
  <2> QED
    BY <2>3, SettledStaysStep
<1> QED
  BY <1>1, <1>2

(* What the two UPDATEs of a decision do to one row. *)
LEMMA DecisionStep ==
  ASSUME IInv, Next, NEW o \in Otp
  PROVE  \/ status'[o] = status[o] /\ claimedBy'[o] = claimedBy[o]
         \/ status'[o] = "pending" /\ claimedBy'[o] = None
         \/ status'[o] = "claimed" /\ claimedBy'[o] \in joined[o]
         \/ /\ status'[o] = "invalidated" /\ claimedBy'[o] = None
            /\ \E d, e \in rivals[o] : d # e
         \/ /\ status[o] = "pending" /\ status'[o] = "expired"
            /\ claimedBy'[o] = claimedBy[o]
<1> USE DEF IInv, TypeOK, TableTypeOK
<1>1. ASSUME NEW x \in Otp, Ingest(x)
      PROVE  \/ status'[o] = status[o] /\ claimedBy'[o] = claimedBy[o]
             \/ status'[o] = "pending" /\ claimedBy'[o] = None
  BY <1>1 DEF Ingest, InsertOTP
<1>2. ASSUME NEW c \in Call, Mark(c), SetOTPStatus(call[c].otp, "claimed", call[c].who[1])
      PROVE  \/ status'[o] = status[o] /\ claimedBy'[o] = claimedBy[o]
             \/ status'[o] = "claimed" /\ claimedBy'[o] \in joined[o]
  <2>1. call[c].otp \in Otp /\ call[c].who[1] \in joined[call[c].otp]
    BY <1>2 DEF Mark, CallsOK, CallOK
  <2> QED
    BY <1>2, <2>1 DEF SetOTPStatus
<1>3. ASSUME NEW c \in Call, Kill(c), SetOTPStatus(call[c].otp, "invalidated", None)
      PROVE  \/ status'[o] = status[o] /\ claimedBy'[o] = claimedBy[o]
             \/ /\ status'[o] = "invalidated" /\ claimedBy'[o] = None
                /\ \E d, e \in rivals[o] : d # e
  <2>1. call[c].otp \in Otp /\ \E d, e \in rivals[call[c].otp] : d # e
    BY <1>3 DEF Kill, CallsOK, CallOK
  <2> QED
    BY <1>3, <2>1 DEF SetOTPStatus
<1>4. ASSUME Sweep
      PROVE  \/ status'[o] = status[o] /\ claimedBy'[o] = claimedBy[o]
             \/ /\ status[o] = "pending" /\ status'[o] = "expired"
                /\ claimedBy'[o] = claimedBy[o]
  BY <1>4 DEF Sweep, ExpireStaleOTPs, table
<1> QED
  BY <1>1, <1>2, <1>3, <1>4, TableWriters

LEMMA OnlyRivalsStep == IInv /\ Next => OnlyRivalsInvalidate'
<1> SUFFICES ASSUME IInv, Next, NEW o \in Otp, status'[o] = "invalidated"
             PROVE  \E d, e \in rivals'[o] : d # e
    BY DEF OnlyRivalsInvalidate
<1>1. \E d, e \in rivals[o] : d # e
  BY DecisionStep DEF IInv, OnlyRivalsInvalidate
<1> QED
  BY <1>1, HistoryGrows

LEMMA WinnerStep == IInv /\ Next => WinnerClaimed'
<1> SUFFICES ASSUME IInv, Next, NEW o \in Otp
             PROVE  /\ paid'[o] \subseteq joined'[o]
                    /\ status'[o] = "claimed" => claimedBy'[o] \in joined'[o]
                    /\ status'[o] # "claimed" => claimedBy'[o] = None
    BY DEF WinnerClaimed
<1>1. ASSUME NEW c \in Call, Deliver(c) PROVE paid'[o] \subseteq joined[o]
  <2>1. call[c].who[1] \in joined[call[c].otp]
    BY <1>1 DEF Deliver, IInv, CallsOK, CallOK
  <2> QED
    BY <1>1, <2>1 DEF Deliver, Send, IInv, TypeOK, WinnerClaimed
<1>2. paid'[o] \subseteq joined'[o]
  BY <1>1, PayloadWriters, HistoryGrows DEF IInv, WinnerClaimed
<1>3. status'[o] = "claimed" => claimedBy'[o] \in joined'[o]
  BY DecisionStep, HistoryGrows DEF IInv, WinnerClaimed
<1>4. status'[o] # "claimed" => claimedBy'[o] = None
  BY DecisionStep DEF IInv, WinnerClaimed
<1> QED
  BY <1>2, <1>3, <1>4

LEMMA NextIInv == IInv /\ [Next]_vars => IInv'
<1>1. CASE Next
  BY <1>1, TypeStep, CallOKStep, WindowStep, PaidSettledStep, OnlyRivalsStep, WinnerStep
  DEF IInv
<1>2. CASE UNCHANGED vars
  BY <1>2 DEF vars, IInv, TypeOK, TableTypeOK, CallsOK, CallOK, WindowHasTimer, WindowsJoined,
              PaidSettled, OnlyRivalsInvalidate, WinnerClaimed
<1> QED
  BY <1>1, <1>2

LEMMA InductiveInvariant == Spec => []IInv
  BY InitIInv, NextIInv, PTL DEF Spec
-------------------------------------------------------------------------------
(* Type correctness: every record, row and envelope the actions of claim.go *)
(* build keeps its type.                                                    *)
THEOREM TypeCorrect == Spec => []TypeOK
  BY InductiveInvariant, PTL DEF IInv

(* Claim and resolve never leave an open window without a live timer of its *)
(* own claimant, for any number of devices, OTPs and overlapping windows.   *)
THEOREM WindowAlwaysHasTimer == Spec => []WindowHasTimer
  BY InductiveInvariant, PTL DEF IInv

(* A payload is only ever sent after its row was settled for good, whatever *)
(* crashes and failed statements come between.                              *)
THEOREM PaidIsSettled == Spec => []PaidSettled
  BY InductiveInvariant, PTL DEF IInv

(* Only two distinct devices that met in a window get an OTP invalidated.   *)
THEOREM RetryNeverInvalidates == Spec => []OnlyRivalsInvalidate
  BY InductiveInvariant, PTL DEF IInv

(* Nobody who did not claim an OTP is recorded as its claimant or paid.     *)
THEOREM WinnerHasClaimed == Spec => []WinnerClaimed
  BY InductiveInvariant, PTL DEF IInv

(* A claim is admitted only to a pending row, and no goroutine works on an  *)
(* OTP that is not its own.                                                 *)
LEMMA UnattendedStep ==
  ASSUME IInv, Next, NEW o \in Otp, status[o] \in {"claimed", "invalidated"}, Unattended(o)
  PROVE  Unattended(o)' /\ status'[o] = status[o] /\ claimedBy'[o] = claimedBy[o]
<1> USE DEF IInv, TypeOK, TableTypeOK
<1> DEFINE Same == status'[o] = status[o] /\ claimedBy'[o] = claimedBy[o]
<1>0. o # None /\ Idle.otp = None /\ pending[o] = None /\ \A c \in Call : call[c].otp # o
  BY ManagerAssumption DEF ManagerAssumption, Idle, Unattended
<1>1. ASSUME NEW x \in Otp, Ingest(x) PROVE Unattended(o)' /\ Same
  BY <1>0, <1>1 DEF Ingest, InsertOTP, Unattended
<1>2. ASSUME NEW c \in Call, NEW d \in Device, NEW x \in Otp, ClaimPending(c, d, x)
      PROVE  Unattended(o)' /\ Same
  <2>1. x # o
    BY <1>2 DEF ClaimPending, Verdict
  <2> QED
    BY <1>0, <1>2, <2>1 DEF ClaimPending, Unattended, table
<1>3. ASSUME NEW c \in Call, Step(c) \/ Unwind(c) PROVE Unattended(o)' /\ Same
  <2>1. \A y \in Call : call'[y].otp = call[y].otp \/ call'[y] = Idle
    <3> DEFINE Own == \A y \in Call : call'[y].otp = call[y].otp \/ call'[y] = Idle
    <3>0. call \in [Call -> CallState]
      OBVIOUS
    <3>1. ASSUME SecondClaim(c) PROVE Own
      <4>1. pending[call[c].otp].timer \in Call
        BY <3>1, CallHolds, WindowHolds DEF SecondClaim
      <4> QED
        BY <3>0, <3>1, <4>1 DEF SecondClaim, Stopped, CallState
    <3>2. Return(c) => Own
      BY <3>0 DEF Return
    <3>3. \A l \in PC : Goto(c, l) => Own
      BY <3>0 DEF Goto, CallState
    <3>4. OpenWindow(c) => Own
      BY <3>0 DEF OpenWindow, CallState
    <3>5. TakeWindow(c) => Own
      <4>1. \A l \in PC : \A w : call' = [call EXCEPT ![c].pc = l, ![c].who = w] => Own
        BY <3>0 DEF CallState
      <4> QED
        BY <3>2, <4>1 DEF TakeWindow, PC
    <3>6. Notify(c) => Own
      BY <3>0, <3>2 DEF Notify, CallState
    <3>7. RepeatClaim(c) \/ Deliver(c) \/ Unwind(c) => Own
      BY <3>2 DEF RepeatClaim, Deliver, Unwind
    <3>8. Fire(c) \/ Reload(c) \/ Mark(c) \/ Kill(c) => Own
      BY <3>2, <3>3 DEF Fire, Reload, Mark, Kill, PC
    <3> HIDE DEF Own
    <3>9. Own
      BY <1>3, <3>1, <3>4, <3>5, <3>6, <3>7, <3>8 DEF Step
    <3> QED
      BY <3>9 DEF Own
  <2>2. pending'[o] = pending[o]
    BY <1>0, <1>3 DEF Step, OpenWindow, RepeatClaim, SecondClaim, Fire, TakeWindow, Reload,
                      Mark, Deliver, Kill, Notify, Unwind, CloseWindow
  <2>3. Same
    BY <1>0, <1>3 DEF Step, OpenWindow, RepeatClaim, SecondClaim, Fire, TakeWindow, Reload,
                      Mark, Deliver, Kill, Notify, Unwind, SetOTPStatus, table
  <2> QED
    BY <1>0, <2>1, <2>2, <2>3 DEF Unattended
<1>4. ASSUME (\E d \in Device, x \in Otp : ClaimRefused(d, x)) \/ Sweep
      PROVE  Unattended(o)' /\ Same
  BY <1>0, <1>4 DEF ClaimRefused, Sweep, ExpireStaleOTPs, Unattended, table
<1>5. ASSUME Crash PROVE Unattended(o)' /\ Same
  BY <1>0, <1>5 DEF Crash, Unattended, table
<1>6. ASSUME Tick PROVE Unattended(o)' /\ Same
  BY <1>0, <1>6 DEF Tick, AgeRows, Unattended, CallState
<1> QED
  BY <1>1, <1>2, <1>3, <1>4, <1>5, <1>6 DEF Next

(* Neither the sweep nor a late claim undoes a decision: the sweep never,   *)
(* and a claim only one that had read the row before it was settled.        *)
THEOREM DecisionsStand == Spec => SettledStays
<1>1. IInv /\ [Next]_vars =>
        [\A o \in Otp :
           /\ status[o] \in {"claimed", "invalidated"} =>
                /\ status'[o] \in {"claimed", "invalidated"}
                /\ Unattended(o) =>
                     Unattended(o)' /\ status'[o] = status[o] /\ claimedBy'[o] = claimedBy[o]
           /\ status[o] # "absent" /\ status'[o] = "pending" => status[o] = "pending"
        ]_vars
  BY SettledStaysStep, UnattendedStep
<1> QED
  BY <1>1, InductiveInvariant, PTL DEF Spec, SettledStays
-------------------------------------------------------------------------------
(* How many steps of its own an activity still has to take, at most.        *)
Remaining(c) ==
  LET at == call[c].pc IN
  IF at = "notify" THEN Len(call[c].who)
  ELSE IF at = "enter" THEN 6
  ELSE IF at = "armed" THEN 5
  ELSE IF at = "fired" THEN 4
  ELSE IF at \in {"reload", "kill"} THEN 3
  ELSE IF at = "mark" THEN 2
  ELSE IF at = "deliver" THEN 1
  ELSE 0

(* No step of another goroutine, nor the clock, gives an activity more to   *)
(* do, and each step of its own leaves it less.                             *)
WorkShrinks ==
  [][\A c \in Call :
       /\ Step(c) => Remaining(c)' < Remaining(c)
       /\ call[c].pc # "idle" => Remaining(c)' <= Remaining(c)]_vars

LEMMA RemainingIs == IInv => \A c \in Call : Remaining(c) \in 0..6
  BY TailShorter DEF Remaining

LEMMA RemainingStays == IInv /\ [Next]_vars => \A c \in Call : Remaining(c)' \in 0..6
<1>1. IInv /\ [Next]_vars => (\A c \in Call : Remaining(c) \in 0..6)'
  BY NextIInv, RemainingIs, PTL
<1> QED
  BY <1>1

LEMMA OwnStepShrinks ==
  ASSUME IInv, NEW c \in Call, Step(c) \/ Unwind(c)
  PROVE  /\ Remaining(c)' \in Nat /\ Remaining(c)' < Remaining(c)
         /\ \A x \in Call \ {c} : call'[x] = call[x] \/ call'[x].pc = "idle"
<1> DEFINE Less == Remaining(c)' \in Nat /\ Remaining(c)' < Remaining(c)
<1>a. call \in [Call -> CallState] /\ call[c] \in CallState
  BY DEF IInv, TypeOK
<1> DEFINE OthersStay == \A x \in Call \ {c} : call'[x] = call[x]
<1>1. ASSUME Return(c), call[c].pc # "idle" PROVE Less /\ OthersStay
  <2>1. call'[c].pc = "idle" /\ OthersStay
    BY <1>1, <1>a DEF Return, Idle
  <2> QED
    BY <1>1, <1>a, <2>1, TailShorter DEF Remaining, CallState, PC
<1>2. ASSUME NEW l \in PC, Goto(c, l)
      PROVE  call'[c].pc = l /\ call'[c].who = call[c].who /\ OthersStay
  BY <1>2, <1>a DEF Goto, CallState
<1>3. ASSUME OpenWindow(c) PROVE Less /\ OthersStay
  <2>1. call[c].pc = "enter" /\ call'[c].pc = "armed" /\ OthersStay
    BY <1>3, <1>a DEF OpenWindow, CallState
  <2> QED
    BY <2>1 DEF Remaining
<1>4. ASSUME RepeatClaim(c) \/ Deliver(c) \/ Unwind(c)
      PROVE  Less /\ OthersStay
  BY <1>1, <1>4 DEF RepeatClaim, Deliver, Unwind
<1>5. ASSUME SecondClaim(c)
      PROVE  /\ Less
             /\ \A x \in Call \ {c} : call'[x] = call[x] \/ call'[x].pc = "idle"
  <2>1. /\ call[c].pc = "enter" /\ call[c].otp \in Otp /\ pending[call[c].otp] # None
        /\ pending[call[c].otp].timer \in Call
        /\ call[pending[call[c].otp].timer].pc \in {"armed", "fired"}
    BY <1>5, CallHolds, WindowHolds DEF SecondClaim
  <2>2. /\ call'[c].pc = "kill"
        /\ \A x \in Call \ {c} : call'[x] = call[x] \/ call'[x].pc = "idle"
    BY <1>5, <1>a, <2>1 DEF SecondClaim, Stopped, Idle, CallState
  <2> QED
    BY <2>1, <2>2 DEF Remaining
<1>6. ASSUME Fire(c) PROVE Less /\ OthersStay
  <2>1. call[c].pc = "armed" /\ call'[c].pc = "fired" /\ OthersStay
    BY <1>2, <1>6 DEF Fire, PC
  <2> QED
    BY <2>1 DEF Remaining
<1>7. ASSUME TakeWindow(c) PROVE Less /\ OthersStay
  <2>1. call[c].pc = "fired"
    BY <1>7 DEF TakeWindow
  <2>2. CASE Return(c)
    BY <1>1, <2>1, <2>2
  <2>3. CASE ~Return(c)
    <3>1. call'[c].pc \in {"kill", "reload"} /\ OthersStay
      BY <1>7, <1>a, <2>3 DEF TakeWindow, CallState
    <3> QED
      BY <2>1, <3>1 DEF Remaining
  <2> QED
    BY <2>2, <2>3
<1>8. ASSUME Reload(c) \/ Mark(c) PROVE Less /\ OthersStay
  BY <1>1, <1>2, <1>8 DEF Reload, Mark, Remaining, PC
<1>9. ASSUME Kill(c) PROVE Less /\ OthersStay
  <2>1. /\ call[c].pc = "kill" /\ call'[c].pc = "notify" /\ call'[c].who = call[c].who
        /\ OthersStay
    BY <1>2, <1>9 DEF Kill, PC
  <2>2. PICK d, e \in rivals[call[c].otp] : call[c].who = <<d, e>>
    BY <2>1 DEF IInv, CallsOK, CallOK
  <2>3. Len(call[c].who) = 2
    BY <2>2
  <2> QED
    BY <2>1, <2>3 DEF Remaining
<1>10. ASSUME Notify(c) PROVE Less /\ OthersStay
  <2>1. call[c].pc = "notify"
    BY <1>10 DEF Notify
  <2>2. CASE Return(c)
    BY <1>1, <2>1, <2>2
  <2>3. CASE ~Return(c)
    <3>1. call'[c].pc = "notify" /\ call'[c].who = Tail(call[c].who) /\ OthersStay
      BY <1>10, <1>a, <2>1, <2>3 DEF Notify, CallState
    <3> QED
      BY <2>1, <3>1, TailShorter DEF Remaining
  <2> QED
    BY <2>2, <2>3
<1> QED
  BY <1>3, <1>4, <1>5, <1>6, <1>7, <1>8, <1>9, <1>10 DEF Step

LEMMA WorkShrinksStep ==
  ASSUME IInv, Next, NEW c \in Call
  PROVE  /\ Step(c) => Remaining(c)' < Remaining(c)
         /\ call[c].pc # "idle" => Remaining(c)' <= Remaining(c)
<1>a. Remaining(c) \in 0..6
  BY RemainingIs
<1>b. call \in [Call -> CallState]
  BY DEF IInv, TypeOK
<1>1. ASSUME call'[c].pc = "idle" \/ (call'[c].pc = call[c].pc /\ call'[c].who = call[c].who)
      PROVE  Remaining(c)' <= Remaining(c)
  BY <1>1, <1>a DEF Remaining
<1>2. ASSUME NEW x \in Call, Step(x) \/ Unwind(x) PROVE Remaining(c)' <= Remaining(c)
  BY <1>1, <1>2, <1>a, OwnStepShrinks, RemainingIs
<1>3. ASSUME NEW x \in Call, NEW d \in Device, NEW o \in Otp, ClaimPending(x, d, o),
             call[c].pc # "idle"
      PROVE  Remaining(c)' <= Remaining(c)
  <2>1. x # c /\ call'[c] = call[c]
    BY <1>3, <1>b DEF ClaimPending
  <2> QED
    BY <1>1, <2>1
<1>4. ASSUME \/ \E o \in Otp : Ingest(o)
             \/ \E d \in Device, o \in Otp : ClaimRefused(d, o)
             \/ Sweep \/ Crash \/ Tick
      PROVE  Remaining(c)' <= Remaining(c)
  <2>1. call'[c].pc = "idle" \/ (call'[c].pc = call[c].pc /\ call'[c].who = call[c].who)
    BY <1>4, <1>b DEF Ingest, ClaimRefused, Sweep, Crash, Tick, Idle, CallState
  <2> QED
    BY <1>1, <2>1
<1> QED
  BY <1>2, <1>3, <1>4, OwnStepShrinks DEF Next

(* Every call of Claim, and every timer it arms, is over after six steps of *)
(* its own at the latest, whatever the others do meanwhile: there is no     *)
(* retry and no loop in it.  That it takes those steps is the scheduler's.  *)
THEOREM WorkIsBounded == Spec => WorkShrinks
<1>1. IInv /\ [Next]_vars =>
        [\A c \in Call :
           /\ Step(c) => Remaining(c)' < Remaining(c)
           /\ call[c].pc # "idle" => Remaining(c)' <= Remaining(c)]_vars
  BY WorkShrinksStep
<1> QED
  BY <1>1, InductiveInvariant, PTL DEF Spec, WorkShrinks
===============================================================================
