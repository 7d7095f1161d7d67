-------------------------- MODULE FirstResultLedger --------------------------
(***************************************************************************)
(* What docs/10-PAPER-EXECUTION-LEDGER.md promises of the PAPER execution  *)
(* ledger: one result per idempotency key becomes durable, it never        *)
(* changes, and whatever a caller is told about a key is that result.      *)
(* Callers may be refused, may forget their answer (a crash) and may ask   *)
(* again.  Nothing is said here of lookups, gates or transactions.         *)
(***************************************************************************)
CONSTANTS Callers, Keys, Results, None, Denied

VARIABLES ledger, told
vars == <<ledger, told>>

Init ==
  /\ ledger = [k \in Keys |-> None]
  /\ told = [c \in Callers |-> None]

(* A key that has no result gets one. *)
Record(k) ==
  /\ ledger[k] = None
  /\ ledger'[k] \in Results
  /\ ledger' = [ledger EXCEPT ![k] = ledger'[k]]
  /\ UNCHANGED told

(* A caller learns the durable result of a key, and only that. *)
Tell(c, k) ==
  /\ ledger[k] # None
  /\ told' = [told EXCEPT ![c] = [key |-> k, result |-> ledger[k]]]
  /\ UNCHANGED ledger

(* A caller is refused, starts a new call, or loses its memory in a crash. *)
Refuse(c) ==
  /\ told' = [told EXCEPT ![c] = Denied]
  /\ UNCHANGED ledger

Forget(c) ==
  /\ told' = [told EXCEPT ![c] = None]
  /\ UNCHANGED ledger

Next ==
  \/ \E k \in Keys : Record(k)
  \/ \E c \in Callers : Refuse(c) \/ Forget(c) \/ \E k \in Keys : Tell(c, k)

Spec == Init /\ [][Next]_vars
=============================================================================
