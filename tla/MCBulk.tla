------------------------------- MODULE MCBulk -------------------------------
(* Small instances of Bulk for TLC.                                        *)
EXTENDS Bulk, TLC

CONSTANT Incomplete, Whole \* a body without, and one with, its live_when fields

(* What _runtime_doc makes of them.                                        *)
Completed == [b \in {Incomplete, Whole} |-> Whole]

Symmetry == Permutations(Records) \cup Permutations(Operators)

(* Only a restore to a date looks at times, before it plans: once nobody   *)
(* can any more, the times of the rows, of the plans and of the clock make *)
(* no difference, nor does the date.                                       *)
Timeless(j) ==
  [j EXCEPT !.when = None, !.plan = [i \in DOMAIN @ |-> [@[i] EXCEPT !.from = 0]]]

View ==
  IF \E o \in Operators : job[o].pc \in {"idle", "gather"} THEN bulkVars
  ELSE <<live, heads, [r \in Records |-> [s \in DOMAIN history[r] |-> history[r][s].doc]],
         tags, moves, [o \in Operators |-> Timeless(job[o])]>>
=============================================================================
