--------------------------- MODULE MCTransactions ---------------------------
(* Small instances of Transactions for TLC.                                *)
EXTENDS Transactions

Unforced == [b \in Bodies |-> b]

(* What a call returned has no influence on what happens next.             *)
View ==
  <<live, heads, history, backend, twins, moved, ref,
    [p \in Clients |-> IF Running(p) THEN wrote[p] ELSE 0],
    [p \in Clients |-> [tx[p] EXCEPT !.result = None]]>>

(* The behaviours that start with another document in the records of the   *)
(* merge alone are those that start with this one, the bodies swapped.     *)
First == CHOOSE d \in Doc : TRUE

MCInit == TxInit /\ \A r \in Records \ Busy : live[r] = First

MCSpec == MCInit /\ [][TxNext]_txVars /\ TxFairness
=============================================================================
