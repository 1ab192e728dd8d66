----------------------------- MODULE ClaimContract -----------------------------
(***************************************************************************)
(* What internal/claim promises its callers, with the goroutines, the      *)
(* windows and the clock left out: an OTP row, the set of devices whose    *)
(* claim is registered and not yet answered, and the envelope being sent.  *)
(* ClaimManager is shown to implement it.                                  *)
(*                                                                         *)
(* The package comment and ARCHITECTURE.md would have AwardFrom and        *)
(* KillFrom be {"pending"}: a row is decided once.  The code decides with  *)
(* an unconditional UPDATE, so which rows it may overwrite depends on how  *)
(* the goroutines are scheduled; the two constants say what is relied on.  *)
(***************************************************************************)
EXTENDS Naturals

CONSTANTS
  Device, Otp, None,
  Lossy,      \* an answer may be lost with the goroutine that was giving it
  AwardFrom,  \* statuses that an award may overwrite
  KillFrom    \* statuses that a dual-claim invalidation may overwrite

VARIABLES status, claimedBy, owed, out

cvars == <<status, claimedBy, owed, out>>

Init ==
  /\ status = [o \in Otp |-> "absent"]
  /\ claimedBy = [o \in Otp |-> None]
  /\ owed = [o \in Otp |-> {}]
  /\ out = None

Publish(o) ==
  /\ status[o] = "absent"
  /\ status' = [status EXCEPT ![o] = "pending"]
  /\ out' = None
  /\ UNCHANGED <<claimedBy, owed>>

(* A claim is registered only while the OTP is up for grabs. *)
Register(d, o) ==
  /\ status[o] = "pending"
  /\ owed' = [owed EXCEPT ![o] = @ \cup {d}]
  /\ out' = None
  /\ UNCHANGED <<status, claimedBy>>

(* The row goes to a device that has claimed it. *)
Award(d, o) ==
  /\ d \in owed[o]
  /\ status[o] \in AwardFrom
  /\ status' = [status EXCEPT ![o] = "claimed"]
  /\ claimedBy' = [claimedBy EXCEPT ![o] = d]
  /\ out' = None
  /\ UNCHANGED owed

(* Two devices contend: the row goes to nobody. *)
Invalidate(o) ==
  /\ \E d, e \in owed[o] : d # e
  /\ status[o] \in KillFrom
  /\ status' = [status EXCEPT ![o] = "invalidated"]
  /\ claimedBy' = [claimedBy EXCEPT ![o] = None]
  /\ out' = None
  /\ UNCHANGED owed

(* When a reply may be given.  Only a registered claimant of a row that is  *)
(* already settled gets the payload.                                        *)
MayAnswer(d, o, type) ==
  CASE type = "otp_payload" -> d \in owed[o] /\ status[o] \in {"claimed", "invalidated"}
    [] type = "err_not_found" -> status[o] = "absent"
    [] type = "err_claimed" -> status[o] = "claimed"
    [] type = "otp_invalidated" -> d \in owed[o] \/ status[o] = "invalidated"
    [] type = "err_expired" -> status[o] # "absent"
    [] OTHER -> TRUE

(* A device ceases to be owed an answer by being sent one, and only then. *)
Answer(d, o, type) ==
  /\ MayAnswer(d, o, type)
  /\ out' = [to |-> d, otp |-> o, type |-> type]
  /\ owed' \in {owed, [owed EXCEPT ![o] = @ \ {d}]}
  /\ UNCHANGED <<status, claimedBy>>

(* The goroutine that was answering several claimants dies in between. *)
Forget(d, o) ==
  /\ Lossy
  /\ owed' = [owed EXCEPT ![o] = @ \ {d}]
  /\ out' = None
  /\ UNCHANGED <<status, claimedBy>>

Expire(S) ==
  /\ \A o \in S : status[o] = "pending"
  /\ status' = [o \in Otp |-> IF o \in S THEN "expired" ELSE status[o]]
  /\ out' = None
  /\ UNCHANGED <<claimedBy, owed>>

(* A restart forgets every registered claim. *)
Restart ==
  /\ owed' = [o \in Otp |-> {}]
  /\ out' = None
  /\ UNCHANGED <<status, claimedBy>>

Pause == out' = None /\ UNCHANGED <<status, claimedBy, owed>>

Reply == {"otp_payload", "otp_invalidated", "err_not_found", "err_expired",
          "err_claimed", "err_internal"}

Next ==
  \/ \E o \in Otp : Publish(o) \/ Invalidate(o)
  \/ \E d \in Device, o \in Otp : Register(d, o) \/ Award(d, o) \/ Forget(d, o)
  \/ \E d \in Device, o \in Otp, type \in Reply : Answer(d, o, type)
  \/ \E S \in SUBSET Otp : Expire(S)
  \/ Restart
  \/ Pause

Spec == Init /\ [][Next]_cvars
================================================================================
