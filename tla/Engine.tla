------------------------------- MODULE Engine -------------------------------
(***************************************************************************)
(* The single-record operations of cfgit's engine (src/cfg/core/engine.py) *)
(* run by concurrent clients: import, adopt, commit and restore.  Each is  *)
(* a sequence of unprotected reads (the live document, then HEAD; import   *)
(* the other way round), a verdict, an entry stamped with the clock, and   *)
(* one transaction of Store.  Between any two steps another client, the    *)
(* application, or a clock may move, and the client may die.               *)
(***************************************************************************)
EXTENDS MainLine, FiniteSets

CONSTANTS
  Clients,     \* processes that run cfgit operations
  MaxVersions, \* bound on the history of a record
  MaxAttempts  \* tries of a transaction that fails transiently: range(3)

ASSUME BoundAssumption == MaxVersions \in Nat /\ MaxAttempts \in Nat \ {0}

VARIABLE
  req  \* what each client is doing: the operation, its arguments, the reads
       \* it has made, or the result of the last one

vars == <<live, heads, history, clock, req>>

-----------------------------------------------------------------------------
Phases == {"idle", "resolve", "read_live", "read_head", "entry", "apply", "done"}

(* How a restore names its target: HEAD, the live document, or any of @n,  *)
(* an oid, @{date} and tag:name that finds one row of the record.          *)
RefKinds == {"head", "live", "version"}

Results == {"applied", "not_found", "missing", "exists", "clean", "noop",
            "changed_outside_cfgit", "secret_blocked", "stale_head",
            "stale_live", "failed"}

ASSUME ResultAssumption == None \notin Results

Request == [pc : Phases, op : OpNames \cup {None}, rec : Records \cup {None},
            ref : RefKinds \cup {None}, doc : Doc \cup {None},
            live : Doc \cup {None},
            head : [oid : Bodies \cup {None}, seq : Nat],
            from : Nat \cup {None}, tries : Nat, result : Results \cup {None}]

Idle == [pc |-> "idle", op |-> None, rec |-> None, ref |-> None, doc |-> None,
         live |-> None, head |-> NoHead, from |-> None, tries |-> 0,
         result |-> None]

Busy(c) == req[c].pc \notin {"idle", "done"}

(* commit and restore write the live record; import and adopt only record  *)
(* it.                                                                     *)
Writes(op) == op \in {"commit", "restore"}

TypeOK == StoreTypeOK /\ req \in [Clients -> Request]

Init == StoreInit /\ req = [c \in Clients |-> Idle]

-----------------------------------------------------------------------------
(* The operation returns (or raises): what it was about is forgotten.      *)
Finish(c, result) ==
  req' = [req EXCEPT ![c] = [Idle EXCEPT !.pc = "done", !.op = req[c].op,
                                         !.ref = req[c].ref, !.result = result]]

Goto(c, pc) == req' = [req EXCEPT ![c].pc = pc]

(* A client calls an operation.  The bound on versions counts the calls    *)
(* under way, so that no transaction is ever cut off by it.                *)
Pending(r) == Cardinality({c \in Clients : Busy(c) /\ req[c].rec = r})

Start(c, r, q) ==
  /\ ~Busy(c)
  /\ Cardinality(DOMAIN history[r]) + Pending(r) < MaxVersions
  /\ req' = [req EXCEPT ![c] = [q EXCEPT !.rec = r]]
  /\ UNCHANGED storeVars

StartImport(c, r) == Start(c, r, [Idle EXCEPT !.pc = "read_head", !.op = "import"])

StartAdopt(c, r) == Start(c, r, [Idle EXCEPT !.pc = "read_live", !.op = "adopt"])

StartCommit(c, r, d) ==
  Start(c, r, [Idle EXCEPT !.pc = "read_live", !.op = "commit", !.doc = d])

StartRestore(c, r, k) ==
  Start(c, r, [Idle EXCEPT !.pc = "resolve", !.op = "restore", !.ref = k])

(* resolve_ref: the document a restore will write, read before the rest.   *)
Resolved(c) ==
  LET r == req[c].rec
  IN  CASE req[c].ref = "live" -> {live[r]} \ {None}
        [] req[c].ref = "head" ->
             IF Exists(GetHead(r)) THEN {history[r][GetHead(r).seq].doc} ELSE {}
        [] OTHER -> {history[r][s].doc : s \in DOMAIN history[r]}

ResolveRef(c) ==
  /\ req[c].pc = "resolve"
  /\ \/ \E d \in Resolved(c) :
          req' = [req EXCEPT ![c].pc = "read_live", ![c].doc = d]
     \/ (req[c].ref = "version" \/ Resolved(c) = {}) /\ Finish(c, "not_found")
  /\ UNCHANGED storeVars

(* get_record.  adopt and import will record the document they read here.  *)
ReadLive(c) ==
  LET q == req[c]
      doc == live[q.rec]
  IN  /\ q.pc = "read_live"
      /\ \/ /\ doc = None
            /\ Finish(c, IF q.op = "import" THEN "missing" ELSE "not_found")
         \/ /\ doc # None
            /\ req' = [req EXCEPT ![c] =
                 [q EXCEPT !.pc = IF q.op = "import" THEN "entry" ELSE "read_head",
                           !.live = doc,
                           !.doc = IF Writes(q.op) THEN q.doc ELSE doc]]
      /\ UNCHANGED storeVars

(* The verdict of each operation on the live document and HEAD it read, or *)
(* None if it goes on.                                                     *)
Verdict(q, head) ==
  CASE q.op = "import" /\ Exists(head) -> "exists"
    [] q.op = "adopt" /\ Exists(head) /\ HashDoc(q.live) = head.oid -> "clean"
    [] Writes(q.op) /\ Exists(head) /\ HashDoc(q.live) # head.oid -> "changed_outside_cfgit"
    [] q.op = "commit" /\ Exists(head) /\ HashDoc(q.live) = head.oid
         /\ HashDoc(q.doc) = head.oid -> "noop"
    [] OTHER -> None

ReadHead(c) ==
  LET q == req[c]
      head == GetHead(q.rec)
      verdict == Verdict(q, head)
  IN  /\ q.pc = "read_head"
      /\ \/ verdict # None /\ Finish(c, verdict)
         \/ /\ verdict = None
            /\ req' = [req EXCEPT ![c] =
                 [q EXCEPT !.pc = IF q.op = "import" THEN "read_live" ELSE "entry",
                           !.head = head]]
      /\ UNCHANGED storeVars

(* _secret_meta may refuse the document (a restore does not ask it); then  *)
(* _entry stamps valid_from with the client's clock.                       *)
MakeEntry(c) ==
  /\ req[c].pc = "entry"
  /\ \/ req[c].op # "restore" /\ Finish(c, "secret_blocked")
     \/ req' = [req EXCEPT ![c].pc = "apply", ![c].from = clock]
  /\ UNCHANGED storeVars

Item(q) ==
  [newDoc       |-> IF Writes(q.op) THEN q.doc ELSE None,
   entry        |-> [oid |-> HashDoc(StoredDoc(q.doc)), parent |-> q.head.oid,
                     doc |-> StoredDoc(q.doc), op |-> q.op, from |-> q.from,
                     to |-> None],
   expectedHead |-> q.head.oid,
   expectedLive |-> IF Writes(q.op) THEN HashDoc(q.live) ELSE None,
   seed         |-> FALSE]

ApplyEntry(c) ==
  LET item == Item(req[c])
      r == req[c].rec
  IN  /\ req[c].pc = "apply"
      /\ \/ Apply(r, item) /\ Finish(c, "applied")
         \/ ~CanApply(r, item) /\ Finish(c, Refusal(r, item)) /\ UNCHANGED storeVars

(* Bug: a transient error sends the whole operation back, as often as it   *)
(* likes.                                                                  *)
AbortRestarts(c) ==
  /\ req[c].pc = "apply"
  /\ Goto(c, "read_live")
  /\ UNCHANGED storeVars

(* The database aborts the transaction with a transient error: the adapter *)
(* tries again with the same item, up to MaxAttempts times in all.         *)
Abort(c) ==
  /\ req[c].pc = "apply"
  /\ \/ req[c].tries + 1 < MaxAttempts /\ req' = [req EXCEPT ![c].tries = @ + 1]
     \/ req[c].tries + 1 >= MaxAttempts /\ Finish(c, "failed")
  /\ UNCHANGED storeVars

(* The client dies.  A death between the commit of the transaction and the *)
(* return of its result is the same step taken from phase "done".          *)
Crash(c) ==
  /\ req[c].pc # "idle"
  /\ req' = [req EXCEPT ![c] = Idle]
  /\ UNCHANGED storeVars

-----------------------------------------------------------------------------
Call(c) ==
  \E r \in Records :
    \/ StartImport(c, r)
    \/ StartAdopt(c, r)
    \/ \E d \in Doc : StartCommit(c, r, d)
    \/ \E k \in RefKinds : StartRestore(c, r, k)

Work(c) ==
  ResolveRef(c) \/ ReadLive(c) \/ ReadHead(c) \/ MakeEntry(c) \/ ApplyEntry(c) \/ Abort(c)

ClientStep == \E c \in Clients : Call(c) \/ Work(c) \/ Crash(c)

Environment ==
  \/ \E r \in Records : \E d \in Doc \cup {None} : RawWrite(r, d) /\ UNCHANGED req
  \/ Tick /\ UNCHANGED req

Next == ClientStep \/ Environment

Spec == Init /\ [][Next]_vars

(* A client that runs takes its next step, and a database call returns.    *)
FairSpec == Spec /\ \A c \in Clients : WF_vars(Work(c))

-----------------------------------------------------------------------------
(* What the rows of commit and adopt say really differs from the version   *)
(* before them: the noop and clean verdicts, given on a HEAD read earlier, *)
(* still hold when the transaction commits.                                *)
NoEmptyVersion ==
  \A r \in Records : \A s \in DOMAIN history[r] :
    history[r][s].op \in {"commit", "adopt"} => history[r][s].oid # history[r][s].parent

(* secret_fields never reach the history, whichever operation wrote it.    *)
NoSecretInHistory ==
  \A r \in Records : \A s \in DOMAIN history[r] : history[r][s].doc.sec = None

(* Rows are never removed, renumbered or rewritten; valid_to is set once.  *)
HistoryAppendOnly ==
  [][\A r \in Records : \A s \in DOMAIN history[r] :
       /\ s \in DOMAIN history'[r]
       /\ CloseRow(history[r][s], history'[r][s].to) = history'[r][s]]_vars

(* cfgit "refuses to clobber changes it did not record" (README): of a     *)
(* record with history, it only ever overwrites the content HEAD recorded, *)
(* whatever was written behind its back since the engine looked.           *)
NeverClobbersDrift ==
  [][\A r \in Records : Overwritten(r) /\ Exists(GetHead(r)) => Clean(r)]_vars

(* After a write of cfgit the live record has the content HEAD recorded,   *)
(* with the fields _runtime_doc forces into it, and nothing else: not what *)
(* was read earlier, nor a mixture with what was live.                     *)
WriteIsHead ==
  [][\A r \in Records : Overwritten(r) =>
       HashDoc(live[r])' = RuntimeBody[GetHead(r).oid']]_vars

(* No operation removes a live record or one of its secrets, although what *)
(* it writes (a version, or a document without the secret) has none.       *)
KeepsSecrets ==
  [][\A r \in Records : Versioned(r) /\ live[r] # None =>
       live'[r] # None /\ (live[r].sec # None => live'[r].sec # None)]_vars

(* "The ONLY runtime fields put_config leaves untouched are those in       *)
(* ignore_fields" (docs/SPEC.md): what the application writes there        *)
(* survives every operation, on mongo.                                     *)
LeavesIgnoredAlone ==
  [][\A r \in Records : Versioned(r) /\ live[r] # None =>
       live'[r].ign.fields = live[r].ign.fields]_vars

(* Every operation returns: retries are bounded, no verdict loops.         *)
OperationsReturn == \A c \in Clients : Busy(c) ~> ~Busy(c)

(* The engine implements the abstract promise of VersionedRecords: a live  *)
(* content and a log of contents per record, changed in single steps, the  *)
(* live content to what _runtime_doc makes of the one that is logged.      *)
Promise ==
  INSTANCE VersionedRecords
    WITH Oids <- Bodies, Shown <- RuntimeBody,
         content <- [r \in Records |-> IF live[r] = None THEN None ELSE HashDoc(live[r])],
         log <- [r \in Records |-> [s \in 1 .. heads[r].seq |-> history[r][s].oid]]

KeepsPromise == Promise!Spec

(* ... and, exactly, the main line: whatever the clients read, and when,   *)
(* each operation takes effect as one step decided on the present state.   *)
ActsOnPresent == MainSpec

-----------------------------------------------------------------------------
(* What messages and documents of the repository say, and the code does    *)
(* not do.                                                                 *)

(* The remedy printed for changed_outside_cfgit, "cfg restore {record}     *)
(* =HEAD -m 'discard drift'", is not itself refused for that reason.       *)
DiscardDriftWorks ==
  [][\A c \in Clients :
       Busy(c) /\ req[c].ref = "head" => req'[c].result # "changed_outside_cfgit"]_vars

(* "post-put oid(strip(live)) always equals the entry's oid and the dirty  *)
(* test cannot trip on a difference cfg itself created" (docs/SPEC.md):    *)
(* not of a document that lacks a field _runtime_doc forces into it.       *)
PutIsClean == [][\A r \in Records : Overwritten(r) => Clean(r)']_vars

(* "... or ignore_paths" (the same sentence of docs/SPEC.md).              *)
LeavesPathsAlone ==
  [][\A r \in Records : Versioned(r) /\ live[r] # None =>
       live'[r].ign.paths = live[r].ign.paths]_vars
=============================================================================
