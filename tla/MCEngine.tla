------------------------------ MODULE MCEngine ------------------------------
(* Small instances of Engine for TLC.                                      *)
EXTENDS Engine, TLC

CONSTANTS b1, b2

(* b1 lacks a field that b2 has: published, it becomes b2.                 *)
Forced == [b \in Bodies |-> IF b = b1 THEN b2 ELSE b]

(* Clients are not told apart by the specification; bodies are, by Forced. *)
Symmetry == Permutations(Clients)

(* What the last operation of a client was, and returned, has no influence *)
(* on what happens next.                                                   *)
View ==
  <<live, heads, history, clock, [c \in Clients |-> IF Busy(c) THEN req[c] ELSE Idle]>>
=============================================================================
