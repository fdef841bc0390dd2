---------------------------- MODULE BatchLedger ----------------------------
(***************************************************************************)
(* What the multi-process pass promises its caller, without processes,     *)
(* timeouts or restarts: each batch of files is delivered exactly once, by *)
(* some slot, and the pass succeeds only when all of them are.             *)
(***************************************************************************)
EXTENDS Integers

CONSTANTS Slots, NumBatches

VARIABLES
  ledger,   (* ledger[s][b]: how often slot s has delivered batch b        *)
  outcome   (* "running", "ok" or "failed"                                 *)

Batches == 0 .. NumBatches - 1

Init ==
  /\ ledger = [s \in Slots |-> [b \in Batches |-> 0]]
  /\ outcome = "running"

Undelivered(b) == \A s \in Slots : ledger[s][b] = 0

Deliver(s, b) ==
  /\ outcome = "running"
  /\ Undelivered(b)
  /\ ledger' = [ledger EXCEPT ![s][b] = 1]
  /\ UNCHANGED outcome

Succeed ==
  /\ outcome = "running"
  /\ \A b \in Batches : ~Undelivered(b)
  /\ outcome' = "ok"
  /\ UNCHANGED ledger

Fail ==
  /\ outcome = "running"
  /\ outcome' = "failed"
  /\ UNCHANGED ledger

Next ==
  \/ \E s \in Slots : \E b \in Batches : Deliver(s, b)
  \/ Succeed
  \/ Fail

Spec == Init /\ [][Next]_<<ledger, outcome>>

=============================================================================
