------------------------------- MODULE OTPTable -------------------------------
(***************************************************************************)
(* The otps table of internal/db: one row per OTP id, and the four SQL     *)
(* statements the relay runs on it.  The pool holds a single connection,   *)
(* so every statement is one atomic step.                                  *)
(*                                                                         *)
(* Ciphertext, IV and source id are written once by the INSERT and never   *)
(* updated: they are left out.  The time stamps are kept as the one        *)
(* quantity the code computes from them: life[o] is expires_at - now, in   *)
(* ticks, floored at 0, so "expires_at <= NowMillis()" reads life[o] = 0   *)
(* and the model needs no bound on the clock.                              *)
(***************************************************************************)
EXTENDS Naturals

CONSTANTS
  Device,   \* ids of the destination devices
  Otp,      \* ids that Ingest may mint
  TTL,      \* OTP_TTL_MS, in ticks
  None      \* the SQL NULL, the nil pointer, the absent map entry

ASSUME TableAssumption ==
  /\ TTL \in Nat \ {0}     \* config refuses to boot with a TTL under 30s
  /\ None \notin Device

VARIABLES
  status,     \* "absent": no such row; otherwise the status column
  claimedBy,  \* the claimed_by column
  life        \* what is left of the row's TTL

table == <<status, claimedBy, life>>

Status == {"absent", "pending", "claimed", "invalidated", "expired"}

TableTypeOK ==
  /\ status \in [Otp -> Status]
  /\ claimedBy \in [Otp -> Device \cup {None}]
  /\ life \in [Otp -> 0..TTL]

TableInit ==
  /\ status = [o \in Otp |-> "absent"]
  /\ claimedBy = [o \in Otp |-> None]
  /\ life = [o \in Otp |-> 0]

(* expires_at <= NowMillis() *)
Lapsed(o) == life[o] = 0

InsertOTP(o) ==
  /\ status[o] = "absent"      \* the id is 64 fresh random bits
  /\ status' = [status EXCEPT ![o] = "pending"]
  /\ claimedBy' = [claimedBy EXCEPT ![o] = None]
  /\ life' = [life EXCEPT ![o] = TTL]

(* UPDATE otps SET status = s, claimed_by = d WHERE id = o.  The statement  *)
(* does not look at the status it overwrites.  Mutant: a NULL claimant      *)
(* leaves the column alone, as in COALESCE(?, claimed_by).                  *)
SetStatusKeepingClaimant(o, s, d) ==
  /\ status[o] # "absent"
  /\ status' = [status EXCEPT ![o] = s]
  /\ claimedBy' = IF d = None THEN claimedBy ELSE [claimedBy EXCEPT ![o] = d]
  /\ UNCHANGED life

SetOTPStatus(o, s, d) ==
  /\ status[o] # "absent"      \* rows are never deleted
  /\ status' = [status EXCEPT ![o] = s]
  /\ claimedBy' = [claimedBy EXCEPT ![o] = d]
  /\ UNCHANGED life

(* The janitor's UPDATE.  Mutants: it does not test the status; it compares *)
(* seconds with milliseconds and so never finds a stale row.                *)
ExpireAllLapsed ==
  /\ status' = [o \in Otp |-> IF status[o] # "absent" /\ Lapsed(o)
                              THEN "expired" ELSE status[o]]
  /\ UNCHANGED <<claimedBy, life>>

ExpireNone == UNCHANGED table

ExpireStaleOTPs ==
  /\ status' = [o \in Otp |-> IF status[o] = "pending" /\ Lapsed(o)
                              THEN "expired" ELSE status[o]]
  /\ UNCHANGED <<claimedBy, life>>

(* The wall clock moves one tick. *)
AgeRows ==
  /\ life' = [o \in Otp |-> IF Lapsed(o) THEN 0 ELSE life[o] - 1]
  /\ UNCHANGED <<status, claimedBy>>
===============================================================================
