----------------------------- MODULE TurnLedger -----------------------------
(* What a durable session promises of each message id: it is executed by    *)
(* one turn at a time, an execution ends done or failed, a failed one may   *)
(* be retried, and done is final.                                           *)
CONSTANT Messages
VARIABLE ledger

TypeOK == ledger \in [Messages -> {"new", "open", "failed", "done"}]

Init == ledger = [m \in Messages |-> "new"]

Open(m) ==
  /\ ledger[m] \in {"new", "failed"}
  /\ ledger' = [ledger EXCEPT ![m] = "open"]

End(m, s) ==
  /\ ledger[m] = "open"
  /\ ledger' = [ledger EXCEPT ![m] = s]

Next == \E m \in Messages : Open(m) \/ End(m, "failed") \/ End(m, "done")

Spec == Init /\ [][Next]_ledger
=============================================================================
