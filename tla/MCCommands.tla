----------------------------- MODULE MCCommands -----------------------------
(* Small instances of Commands for TLC.                                    *)
EXTENDS Commands, TLC

MCBodies == [Fields -> Values]

(* Every document has its id and its live_when fields.                     *)
Unforced == [b \in Bodies |-> b]

NoMap == [x \in {} |-> None]

(* A table that says nothing of identity or permissions.                   *)
OpenPolicy ==
  [identity |-> None, identity_mode |-> None, sources |-> None, tokens |-> NoMap,
   principals |-> NoMap, permissions |-> None, admins |-> {}, writers |-> {},
   adminActions |-> {}, branching |-> TRUE]

(* The same, of a project without branches.                                *)
NoBranching == [OpenPolicy EXCEPT !.branching = FALSE]

(* Ann has a token and is an admin, bob has a database login and may write, *)
(* as may dan, who is not there; eve has a login and may not.              *)
Verified ==
  [identity |-> None, identity_mode |-> None, sources |-> <<"token", "db_principal">>,
   tokens |-> [t \in {"t_ann"} |-> "ann"], principals |-> [p \in {"db_bob"} |-> "bob"],
   permissions |-> "enforced", admins |-> {"ann"}, writers |-> {"bob", "dan"},
   adminActions |-> {"restore", "branch"}, branching |-> TRUE]

MCPolicies == {NoBranching, Verified}

MCCallers ==
  {[explicit |-> None, user |-> "ann", token |-> "t_ann", principal |-> None],
   [explicit |-> "dan", user |-> "ann", token |-> "t_bad", principal |-> "db_bob"],
   [explicit |-> None, user |-> "ann", token |-> None, principal |-> "db_bob"],
   [explicit |-> None, user |-> "ann", token |-> None, principal |-> "eve"]}

OneCaller == {c \in MCCallers : c.token = "t_ann"}

OnePolicy == {OpenPolicy}

Symmetry == Permutations(Clients) \cup Permutations(Values)
=============================================================================
