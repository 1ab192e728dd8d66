----------------------------- MODULE ClaimManager -----------------------------
(***************************************************************************)
(* internal/claim: the coordinator that stores OTPs, arbitrates claims and *)
(* sweeps expired rows.  Claim runs on whatever goroutine received the     *)
(* claim (a WebSocket read pump or an HTTP handler), resolve on the        *)
(* goroutine of the window's timer, the sweep on the janitor's.            *)
(*                                                                         *)
(* Only the pending map is guarded by Manager.mu.  Each database statement *)
(* is atomic by itself and happens outside the lock, so the model breaks   *)
(* every function where the lock is taken and where the table is read or   *)
(* written: those are the points where another goroutine can come between. *)
(***************************************************************************)
EXTENDS OTPTable, Sequences

CONSTANTS
  Call,     \* concurrent Claim activities: a call, then the timer it armed
  Window,   \* CLAIM_WINDOW_MS in ticks; config accepts any integer, 0 included
  Prompt,   \* TRUE: time passes only while no goroutine is runnable
  Faults    \* what may go wrong: "db" (a statement fails), "crash", "panic"

Reply == {"otp_payload", "otp_invalidated", "err_not_found", "err_expired",
          "err_claimed", "err_internal"}
Envelope == [to : Device, otp : Otp, type : Reply]
ClaimState == [claimants : Seq(Device), timer : Call]

(* Where an activity stands.  "enter": Claim has read a pending row and is  *)
(* about to lock; "armed" and "fired": the call has returned and its timer  *)
(* runs, or has started a resolve that is about to lock; "reload", "mark"   *)
(* and "deliver": resolve's three steps after it unlocked; "kill" and       *)
(* "notify": invalidate's two.                                              *)
PC == {"idle", "enter", "armed", "fired", "reload", "mark", "deliver",
       "kill", "notify"}

CallState == [pc : PC, dev : Device \cup {None}, otp : Otp \cup {None},
              who : Seq(Device), left : 0..Window]

ASSUME ManagerAssumption ==
  /\ Window \in Nat
  /\ Prompt \in BOOLEAN
  /\ Faults \subseteq {"db", "crash", "panic"}
  /\ None \notin Otp
  /\ None \notin ClaimState
  /\ None \notin Envelope

VARIABLES
  pending,  \* Manager.pending: the open claim window of each OTP
  call,     \* the activities: program counter and local variables
  out,      \* the envelope this step handed to the Sender, None if none
  joined,   \* history: devices ever recorded in a window of the OTP
  rivals,   \* history: devices of the windows that a second claim closed
  paid      \* history: devices the payload of the OTP was sent to

vars == <<status, claimedBy, life, pending, call, out, joined, rivals, paid>>

Idle == [pc |-> "idle", dev |-> None, otp |-> None, who |-> <<>>, left |-> 0]

TypeOK ==
  /\ TableTypeOK
  /\ pending \in [Otp -> ClaimState \cup {None}]
  /\ call \in [Call -> CallState]
  /\ out \in Envelope \cup {None}
  /\ joined \in [Otp -> SUBSET Device]
  /\ rivals \in [Otp -> SUBSET Device]
  /\ paid \in [Otp -> SUBSET Device]

Init ==
  /\ TableInit
  /\ pending = [o \in Otp |-> None]
  /\ call = [c \in Call |-> Idle]
  /\ out = None
  /\ joined = [o \in Otp |-> {}]
  /\ rivals = [o \in Otp |-> {}]
  /\ paid = [o \in Otp |-> {}]
-------------------------------------------------------------------------------
(* Sender.SendToDevice.  The manager only logs its result, so what happens  *)
(* to the envelope afterwards is no concern of this module.                 *)
Send(d, o, type) ==
  /\ out' = [to |-> d, otp |-> o, type |-> type]
  /\ paid' = IF type = "otp_payload" THEN [paid EXCEPT ![o] = @ \cup {d}]
                                     ELSE paid

Quiet == out' = None /\ UNCHANGED paid

(* The activity ends: its goroutine is gone and so are its locals. *)
Return(c) == call' = [call EXCEPT ![c] = Idle]

Goto(c, l) == call' = [call EXCEPT ![c].pc = l]

(* m.window.  Mutant: the two durations that New takes are swapped. *)
SwappedWindow == TTL
ClaimWindow == Window

(* d is among the claimants.  Mutant: the loop that looks is dropped. *)
NoClaimant(s, d) == FALSE
Claimant(s, d) == \E i \in 1..Len(s) : s[i] = d

(* delete(m.pending, otpID).  Mutant: forgotten. *)
KeepWindow(o) == UNCHANGED pending
CloseWindow(o) == pending' = [pending EXCEPT ![o] = None]
-------------------------------------------------------------------------------
(* Ingest stores a new row.  Its push fan-out touches none of this state.   *)
Ingest(o) ==
  /\ InsertOTP(o)
  /\ Quiet
  /\ UNCHANGED <<pending, call, joined, rivals>>

(* What Claim decides from the row it loads, before it takes the lock.      *)
(* Mutant: the case of a claimed row is missing from the switch.            *)
VerdictIgnoringClaimed(o) ==
  CASE status[o] = "absent" -> "err_not_found"
    [] status[o] = "expired" \/ (status[o] = "pending" /\ Lapsed(o)) -> "err_expired"
    [] status[o] = "invalidated" -> "otp_invalidated"
    [] OTHER -> "enter"
Verdict(o) ==
  CASE status[o] = "absent" -> "err_not_found"
    [] status[o] = "expired" \/ (status[o] = "pending" /\ Lapsed(o)) -> "err_expired"
    [] status[o] = "claimed" -> "err_claimed"
    [] status[o] = "invalidated" -> "otp_invalidated"
    [] OTHER -> "enter"

(* The row is refused: the claimant is told and the call is over.  The      *)
(* reply depends on nothing but the row, so load and reply are one step.    *)
ClaimRefused(d, o) ==
  /\ \/ Verdict(o) # "enter" /\ Send(d, o, Verdict(o))
     \/ "db" \in Faults /\ Send(d, o, "err_internal")
  /\ UNCHANGED <<table, pending, call, joined, rivals>>

(* The row is pending: the call goes on to lock, with what it read. *)
ClaimPending(c, d, o) ==
  /\ call[c].pc = "idle"
  /\ Verdict(o) = "enter"
  /\ call' = [call EXCEPT ![c] = [pc |-> "enter", dev |-> d, otp |-> o,
                                  who |-> <<>>, left |-> 0]]
  /\ Quiet
  /\ UNCHANGED <<table, pending, joined, rivals>>

(* First claimant: open the window and arm the timer. *)
OpenWindow(c) ==
  LET o == call[c].otp  d == call[c].dev IN
  /\ call[c].pc = "enter"
  /\ pending[o] = None
  /\ pending' = [pending EXCEPT ![o] = [claimants |-> <<d>>, timer |-> c]]
  /\ call' = [call EXCEPT ![c].pc = "armed", ![c].left = ClaimWindow]
  /\ joined' = [joined EXCEPT ![o] = @ \cup {d}]
  /\ Quiet
  /\ UNCHANGED <<table, rivals>>

(* A retry by a device already in the window is a no-op. *)
RepeatClaim(c) ==
  LET o == call[c].otp IN
  /\ call[c].pc = "enter"
  /\ pending[o] # None
  /\ Claimant(pending[o].claimants, call[c].dev)
  /\ Return(c)
  /\ Quiet
  /\ UNCHANGED <<table, pending, joined, rivals>>

(* timer.Stop(): an armed timer will never run; one that has started its    *)
(* resolve goroutine is not called back.                                    *)
Stopped(t) == IF call[t].pc = "armed" THEN Idle ELSE call[t]

(* A second device inside the window: the window is closed, the OTP is to   *)
(* be invalidated.                                                          *)
SecondClaim(c) ==
  LET o == call[c].otp  d == call[c].dev  st == pending[o] IN
  /\ call[c].pc = "enter"
  /\ st # None
  /\ ~Claimant(st.claimants, d)
  /\ CloseWindow(o)
  /\ call' = [call EXCEPT ![st.timer] = Stopped(st.timer),
                          ![c].pc = "kill", ![c].who = Append(st.claimants, d)]
  /\ joined' = [joined EXCEPT ![o] = @ \cup {d}]
  /\ rivals' = [rivals EXCEPT ![o] = @ \cup {d} \cup
                   {x \in Device : Claimant(st.claimants, x)}]
  /\ Quiet
  /\ UNCHANGED table
-------------------------------------------------------------------------------
(* time.AfterFunc: the timer expires and resolve starts on a new goroutine. *)
Fire(c) ==
  /\ call[c].pc = "armed"
  /\ call[c].left = 0
  /\ Goto(c, "fired")
  /\ Quiet
  /\ UNCHANGED <<table, pending, joined, rivals>>

(* resolve, under the lock.  It looks the window up by OTP id: nothing says *)
(* that the window it finds is the one whose timer started it.              *)
TakeWindow(c) ==
  LET o == call[c].otp  st == pending[o] IN
  /\ call[c].pc = "fired"
  /\ IF st = None
     THEN Return(c) /\ UNCHANGED pending
     ELSE /\ CloseWindow(o)
          /\ call' = [call EXCEPT
               ![c].pc = IF Len(st.claimants) # 1 THEN "kill" ELSE "reload",
               ![c].who = st.claimants]
  /\ Quiet
  /\ UNCHANGED <<table, joined, rivals>>

(* The re-check of the re-loaded row.  Mutants: half of it is missing. *)
DeliverableByStatus(o) == status[o] = "pending"
DeliverableByClock(o) == ~Lapsed(o)
Deliverable(o) == status[o] = "pending" /\ ~Lapsed(o)

Reload(c) ==
  LET o == call[c].otp  winner == call[c].who[1] IN
  /\ call[c].pc = "reload"
  /\ \/ Deliverable(o) /\ Goto(c, "mark") /\ Quiet
     \/ ~Deliverable(o) /\ Return(c) /\ Send(winner, o, "err_expired")
     \/ "db" \in Faults /\ Return(c) /\ Send(winner, o, "err_internal")
  /\ UNCHANGED <<table, pending, joined, rivals>>

(* Mutant: the payload goes out although the UPDATE failed. *)
MarkUnchecked(c) ==
  /\ call[c].pc = "mark"
  /\ \/ SetOTPStatus(call[c].otp, "claimed", call[c].who[1])
     \/ "db" \in Faults /\ UNCHANGED table
  /\ Goto(c, "deliver")
  /\ Quiet
  /\ UNCHANGED <<pending, joined, rivals>>

Mark(c) ==
  LET o == call[c].otp  winner == call[c].who[1] IN
  /\ call[c].pc = "mark"
  /\ \/ SetOTPStatus(o, "claimed", winner) /\ Goto(c, "deliver") /\ Quiet
     \/ /\ "db" \in Faults
        /\ UNCHANGED table
        /\ Return(c)
        /\ Send(winner, o, "err_internal")
  /\ UNCHANGED <<pending, joined, rivals>>

Deliver(c) ==
  /\ call[c].pc = "deliver"
  /\ Send(call[c].who[1], call[c].otp, "otp_payload")
  /\ Return(c)
  /\ UNCHANGED <<table, pending, joined, rivals>>

(* invalidate: a failed UPDATE is logged and the claimants are told anyway. *)
Kill(c) ==
  /\ call[c].pc = "kill"
  /\ \/ SetOTPStatus(call[c].otp, "invalidated", None)
     \/ "db" \in Faults /\ UNCHANGED table
  /\ Goto(c, "notify")
  /\ Quiet
  /\ UNCHANGED <<pending, joined, rivals>>

(* Mutant: only the first claimant is told. *)
NotifyFirst(c) ==
  /\ call[c].pc = "notify"
  /\ Send(Head(call[c].who), call[c].otp, "otp_invalidated")
  /\ Return(c)
  /\ UNCHANGED <<table, pending, joined, rivals>>

Notify(c) ==
  LET rest == Tail(call[c].who) IN
  /\ call[c].pc = "notify"
  /\ Send(Head(call[c].who), call[c].otp, "otp_invalidated")
  /\ IF rest = <<>> THEN Return(c)
                    ELSE call' = [call EXCEPT ![c].who = rest]
  /\ UNCHANGED <<table, pending, joined, rivals>>

(* The Sender may panic (Hub shows when).  On a timer's goroutine or a read *)
(* pump's that is a Crash; on an HTTP handler's net/http recovers it, and   *)
(* the handler is gone.  Only invalidate has anything left to do then: its  *)
(* second claimant is not told.                                             *)
Unwind(c) ==
  /\ "panic" \in Faults
  /\ call[c].pc = "notify"
  /\ Len(call[c].who) = 1
  /\ Return(c)
  /\ Quiet
  /\ UNCHANGED <<table, pending, joined, rivals>>
-------------------------------------------------------------------------------
(* One sweep of the janitor goroutine.  An UPDATE that fails is logged, and *)
(* left to the next tick of the janitor.                                    *)
Sweep ==
  /\ ExpireStaleOTPs \/ ("db" \in Faults /\ UNCHANGED table)
  /\ Quiet
  /\ UNCHANGED <<pending, call, joined, rivals>>

(* The process dies and is restarted: the table survives, nothing else. *)
Crash ==
  /\ "crash" \in Faults
  /\ pending' = [o \in Otp |-> None]
  /\ call' = [c \in Call |-> Idle]
  /\ Quiet
  /\ UNCHANGED <<table, joined, rivals>>

Runnable(c) == call[c].pc \notin {"idle", "armed"} \/
               (call[c].pc = "armed" /\ call[c].left = 0)

Tick ==
  /\ Prompt => \A c \in Call : ~Runnable(c)
  /\ AgeRows
  /\ call' = [c \in Call |-> IF call[c].left > 0
                             THEN [call[c] EXCEPT !.left = @ - 1] ELSE call[c]]
  /\ Quiet
  /\ UNCHANGED <<pending, joined, rivals>>

(* The steps an activity takes by itself once it has started. *)
Step(c) ==
  \/ OpenWindow(c) \/ RepeatClaim(c) \/ SecondClaim(c)
  \/ Fire(c) \/ TakeWindow(c) \/ Reload(c) \/ Mark(c) \/ Deliver(c)
  \/ Kill(c) \/ Notify(c)

Next ==
  \/ \E o \in Otp : Ingest(o)
  \/ \E d \in Device, o \in Otp : ClaimRefused(d, o)
  \/ \E c \in Call, d \in Device, o \in Otp : ClaimPending(c, d, o)
  \/ \E c \in Call : Step(c) \/ Unwind(c)
  \/ Sweep
  \/ Crash
  \/ Tick

Spec == Init /\ [][Next]_vars

(* A sweep whose UPDATE succeeds. *)
Swept == Sweep /\ ExpireStaleOTPs

(* Goroutines, timers and the janitor's ticker are all served by the Go     *)
(* scheduler; nothing obliges a source to push or a device to claim.  The   *)
(* janitor tries again at every tick, and the database does not fail it     *)
(* every time.                                                              *)
Served(c) == WF_vars(Step(c))
JanitorRuns == WF_vars(Swept)
TimePasses == WF_vars(Tick)

Fairness == (\A c \in Call : Served(c)) /\ JanitorRuns /\ TimePasses

FairSpec == Spec /\ Fairness
-------------------------------------------------------------------------------
(* A device has a claim on an OTP that the relay has taken in and not yet   *)
(* answered: it is about to lock, sits in an open window, or is in the      *)
(* hands of a resolve or an invalidate.                                     *)
Owed(d, o) ==
  \/ \E c \in Call : call[c].pc = "enter" /\ call[c].dev = d /\ call[c].otp = o
  \/ pending[o] # None /\ Claimant(pending[o].claimants, d)
  \/ \E c \in Call : /\ call[c].pc \in {"reload", "mark", "deliver", "kill", "notify"}
                     /\ call[c].otp = o
                     /\ Claimant(call[c].who, d)

Answered(d, o) == out # None /\ out.to = d /\ out.otp = o

(* Claim and resolve never leave a window open without the timer that will  *)
(* close it: its sole claimant's timer is armed or has started resolve.  A  *)
(* window that lost its timer would swallow its claimants for ever.  It     *)
(* also says that the "defensive" branch of resolve is dead code.           *)
WindowHasTimer ==
  \A o \in Otp : pending[o] # None =>
    LET st == pending[o] IN
    /\ st.claimants = <<call[st.timer].dev>>
    /\ call[st.timer].otp = o
    /\ call[st.timer].pc \in {"armed", "fired"}

(* resolve marks the row before it sends: once any device was handed the    *)
(* payload the row is settled, so no crash, failed statement or sweep can   *)
(* put that OTP back up for grabs or report it expired.                     *)
PaidSettled ==
  \A o \in Otp : paid[o] # {} => status[o] \in {"claimed", "invalidated"}

(* Only contention kills an OTP: a row is invalidated only if two distinct  *)
(* devices met in a window of it, so a device that retries its own claim    *)
(* never invalidates it, through any number of windows.                     *)
OnlyRivalsInvalidate ==
  \A o \in Otp : status[o] = "invalidated" =>
    \E d, e \in rivals[o] : d # e

(* Whoever is recorded in claimed_by, or was sent a payload, had its own    *)
(* claim of that OTP recorded in a window: nothing resolve carries over     *)
(* from an earlier window reaches a stranger.                               *)
WinnerClaimed ==
  \A o \in Otp :
    /\ paid[o] \subseteq joined[o]
    /\ status[o] = "claimed" => claimedBy[o] \in joined[o]
    /\ status[o] # "claimed" => claimedBy[o] = None

(* No goroutine has a claim of o in its hands, and no window of it is open. *)
Unattended(o) == pending[o] = None /\ \A c \in Call : call[c].otp # o

(* A settled row is never swept, and no row becomes pending again.  Which   *)
(* way it is settled may change (two windows may follow each other while a  *)
(* resolve is under way), but only at the hands of activities that had read *)
(* the row before: once there are none the decision is final, whatever      *)
(* claims, sweeps, failures and restarts follow.                            *)
SettledStays ==
  [][\A o \in Otp :
       /\ status[o] \in {"claimed", "invalidated"} =>
            /\ status'[o] \in {"claimed", "invalidated"}
            /\ Unattended(o) =>
                 Unattended(o)' /\ status'[o] = status[o] /\ claimedBy'[o] = claimedBy[o]
       /\ status[o] # "absent" /\ status'[o] = "pending" => status[o] = "pending"
    ]_vars

(* While neither the process nor the goroutine that is answering dies, a    *)
(* device ceases to be owed an answer only in the step that sends it one    *)
(* about that very OTP, whatever the database does and however windows      *)
(* overlap.                                                                 *)
NoClaimForgotten ==
  [][\A d \in Device, o \in Otp :
       Owed(d, o) /\ ~Owed(d, o)'
         => Answered(d, o)' \/ Crash \/ \E c \in Call : Unwind(c)]_vars

(* One device at most is ever handed the payload.  It holds when the        *)
(* goroutines keep up with the clock, the window is not zero and no         *)
(* statement fails: then the row is settled before the next window of the   *)
(* OTP can close.                                                           *)
AtMostOneDelivery ==
  \A o \in Otp : \A d, e \in paid[o] : d = e

(* Under the same conditions no payload leaves after the OTP's TTL. *)
NoLateDelivery ==
  [][out' # None /\ out'.type = "otp_payload" => ~Lapsed(out'.otp)]_vars

(* Every claim that is taken in is answered, if the process does not die:   *)
(* no timer is stopped whose window is still open.                          *)
ClaimAnswered ==
  \A d \in Device, o \in Otp : Owed(d, o) ~> Answered(d, o)

(* Every OTP is decided: claimed, invalidated or swept. *)
PendingEnds == \A o \in Otp : status[o] = "pending" ~> status[o] # "pending"

(* The pending map does not leak: every window is closed. *)
WindowCloses == \A o \in Otp : pending[o] # None ~> pending[o] = None
-------------------------------------------------------------------------------
Owing == [o \in Otp |-> {d \in Device : Owed(d, o)}]

(* The contract as the code keeps it under every schedule. *)
AnySchedule == INSTANCE ClaimContract WITH
  owed <- Owing,
  Lossy <- "panic" \in Faults,
  AwardFrom <- {"pending", "claimed", "invalidated", "expired"},
  KillFrom <- {"pending", "claimed", "invalidated", "expired"}

(* Every run of the manager is a run of the contract: payloads go to        *)
(* registered claimants of settled rows, a row is awarded to a registered   *)
(* claimant, invalidated between two of them, and no claim is dropped.      *)
KeepsContract == AnySchedule!Spec

(* The contract as the code keeps it under those conditions, if no sending  *)
(* panics either: an expired row is never overwritten, no award is          *)
(* overwritten by another, no claim is lost with the goroutine.             *)
PromptSchedule == INSTANCE ClaimContract WITH
  owed <- Owing,
  Lossy <- FALSE,
  AwardFrom <- {"pending", "invalidated"},
  KillFrom <- {"pending", "claimed", "invalidated"}

(* Same as KeepsContract, with the tighter statuses. *)
KeepsPromptContract == PromptSchedule!Spec
-------------------------------------------------------------------------------
(* What the documents say of the code and the code does not do.             *)

(* SECURITY.md: two distinct devices that claimed one OTP within a window   *)
(* make it "delivered to neither": once both are in the list that           *)
(* invalidate works from, neither of them is sent the payload any more.     *)
NeitherReceives ==
  [][\A o \in Otp : rivals[o] \cap (paid'[o] \ paid[o]) = {}]_vars

(* The comment on resolve's re-load: the claim is "atomic w.r.t.            *)
(* expiry/state at delivery time", so only a live pending row is marked.    *)
AtomicClaim ==
  [][\A o \in Otp : status'[o] = "claimed" /\ claimedBy'[o] # claimedBy[o]
                      => Deliverable(o)]_vars
===============================================================================
