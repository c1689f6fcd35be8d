-------------------------------- MODULE Bulk --------------------------------
(***************************************************************************)
(* The operations of the engine on many records (core/engine.py): bulk     *)
(* commit, system restore to a date or to a tag, tag, and the sweeps of    *)
(* import --all and adopt --all.  None is one transaction: each record is  *)
(* written, or tagged, on its own, after reads made for all of them.       *)
(* Between two steps of an operator other processes run the operations of  *)
(* MainLine, the application writes, records are deleted and inserted.     *)
(***************************************************************************)
EXTENDS MainLine, Sequences, FiniteSets

CONSTANTS
  Operators, \* processes that run these operations
  MaxPast,   \* bound on the versions a record has at the start
  MaxMoves   \* bound on the steps of others while these processes work

ASSUME OperatorBounds == MaxPast \in Nat /\ MaxMoves \in Nat

(* What a report says of the whole is not None.                            *)
ASSUME NoReport == None \notin {"committed", "noop", "restored", "partial", "tagged"}

VARIABLES
  tags, \* the rows that carry the tag: pairs of a record and a seq
  job,  \* what each operator is doing, what it has read, and its report
  moves \* how many steps others have made

bulkVars == <<live, heads, history, clock, tags, job, moves>>

-----------------------------------------------------------------------------
Nothing == [x \in {} |-> None]

(* f with x mapped to y.                                                   *)
With(f, x, y) == [z \in DOMAIN f \cup {x} |-> IF z = x THEN y ELSE f[z]]

Commands == {"commit", "restore", "tag", "import", "adopt"}

NoJob ==
  [pc      |-> "idle",
   cmd     |-> None,
   dry     |-> FALSE,    \* only preview
   when    |-> None,     \* a date, or the tag
   docs    |-> Nothing,  \* the document to write, by record
   todo    |-> {},       \* records still to be looked at
   rec     |-> None,     \* the record being looked at
   live    |-> None,
   head    |-> NoHead,
   plan    |-> <<>>,     \* what is still to be done
   blocked |-> {},       \* records that may not be written
   results |-> Nothing,  \* the report: a state by record,
   failed  |-> {},       \* the records that failed,
   pending |-> {},       \* those not reached,
   report  |-> None,     \* and the state of the whole
   wrote   |-> {},       \* ghost: records this job wrote
   touched |-> {}]       \* ghost: records others wrote since it began

Active(o) == job[o].pc \notin {"idle", "done"}

Set(o, j) == job' = [job EXCEPT ![o] = j]

(* Ghosts: whatever is not idle notices that r was written.                *)
Touch(j, r) == IF j.pc = "idle" THEN j ELSE [j EXCEPT !.touched = @ \cup {r}]

(* o goes on with j, having written r.                                     *)
SetWrote(o, j, r) ==
  job' = [x \in Operators |->
            IF x = o THEN [j EXCEPT !.wrote = @ \cup {r}] ELSE Touch(job[x], r)]

(* The command returns, or raises.                                         *)
Returned(j, state) == [j EXCEPT !.pc = "done", !.rec = None, !.live = None,
                                !.head = NoHead, !.plan = <<>>, !.todo = {},
                                !.report = state]

(* An operator makes one call: what earlier calls did is an initial state. *)
Begin(o, j) == job[o].pc = "idle" /\ Set(o, j) /\ UNCHANGED <<storeVars, tags>>

(* Bug: the records that were deleted are left out.                        *)
KnownLive == {r \in Records : live[r] # None}

(* _all_refs: records that are live or have history (two reads; a record   *)
(* that comes or goes between them is in or out as in one).                *)
Known == {r \in Records : live[r] # None \/ DOMAIN history[r] # {}}

-----------------------------------------------------------------------------
(* commit_many, also of the documents of an export (import --from).        *)
StartCommitMany(o, docs, dry) ==
  Begin(o, [NoJob EXCEPT !.pc = "plan", !.cmd = "commit", !.dry = dry,
                         !.docs = docs, !.todo = DOMAIN docs])

(* restore_system_as_of queries the history of one record after the other; *)
(* of several rows valid at the date it takes the last.                    *)
StartRestoreAsOf(o, t, dry) ==
  Begin(o, [NoJob EXCEPT !.pc = "gather", !.cmd = "restore", !.dry = dry,
                         !.when = t, !.todo = Known])

Largest(S) == CHOOSE s \in S : \A x \in S : x <= s

Gather(o) ==
  LET j == job[o]
  IN  /\ j.pc = "gather"
      /\ \/ \E r \in j.todo :
              LET rows == RowsAt(r, j.when)
                  rest == [j EXCEPT !.todo = @ \ {r}]
              IN  Set(o, IF rows = {}
                           THEN [rest EXCEPT !.results = With(@, r, "did_not_exist")]
                           ELSE [rest EXCEPT !.docs =
                                   With(@, r, history[r][Largest(rows)].doc)])
         \/ /\ j.todo = {}
            /\ Set(o, IF DOMAIN j.docs = {}
                        THEN Returned(j, IF j.dry THEN "dry_run" ELSE "restored")
                        ELSE [j EXCEPT !.pc = "plan", !.todo = DOMAIN j.docs])
      /\ UNCHANGED <<storeVars, tags>>

(* restore_system_tag finds all rows with the tag in one query; a record   *)
(* tagged twice is restored to the later row.                              *)
TaggedRows(r) == {s \in DOMAIN history[r] : <<r, s>> \in tags}

StartRestoreTag(o, dry) ==
  LET tagged == {r \in Records : TaggedRows(r) # {}}
      j == [NoJob EXCEPT !.cmd = "restore", !.dry = dry, !.when = "tag"]
  IN  Begin(o, IF tagged = {} THEN Returned(j, "raised")
               ELSE [j EXCEPT !.pc = "plan", !.todo = tagged,
                              !.docs = [r \in tagged |-> history[r][Largest(TaggedRows(r))].doc],
                              !.results = [r \in Known \ tagged |-> "not_in_tag"]])

-----------------------------------------------------------------------------
(* Phase one of both: every record is read and judged, nothing is written. *)
PlanLive(o) ==
  /\ job[o].pc = "plan"
  /\ \E r \in job[o].todo :
       Set(o, [job[o] EXCEPT !.pc = "plan_head", !.rec = r, !.live = live[r],
                             !.todo = @ \ {r}])
  /\ UNCHANGED <<storeVars, tags>>

Drift(doc, head) == doc # None /\ Exists(head) /\ HashDoc(doc) # head.oid

(* Bug: a record that is at its target already is restored all the same.   *)
JudgeWithoutTarget(j, head) ==
  IF j.cmd = "commit" /\ j.live = None THEN "missing"
  ELSE IF Drift(j.live, head) THEN "changed_outside_cfgit"
  ELSE IF j.cmd = "commit" /\ Exists(head) /\ HashDoc(j.docs[j.rec]) = head.oid THEN "noop"
  ELSE "ready"

(* Bug: HEAD is compared with the target before it is with the live record. *)
JudgeHeadFirst(j, head) ==
  IF j.cmd = "commit" /\ j.live = None THEN "missing"
  ELSE IF j.live # None /\ Exists(head) /\ HashDoc(j.docs[j.rec]) = head.oid
         THEN IF j.cmd = "commit" THEN "noop" ELSE "unchanged"
  ELSE IF Drift(j.live, head) THEN "changed_outside_cfgit"
  ELSE "ready"

(* The state of one record in the plan (_commit_plan, _restore_many).      *)
Judge(j, head) ==
  IF j.cmd = "commit" /\ j.live = None THEN "missing"
  ELSE IF Drift(j.live, head) THEN "changed_outside_cfgit"
  ELSE IF j.live # None /\ Exists(head) /\ HashDoc(j.docs[j.rec]) = head.oid
         THEN IF j.cmd = "commit" THEN "noop" ELSE "unchanged"
  ELSE "ready"

(* An entry of the plan.  A bulk commit stamps its entry now and keeps     *)
(* what it read for the transaction; a restore only notes whether there    *)
(* was nothing live.                                                       *)
Planned(j, head, state) ==
  [rec |-> j.rec, state |-> state, doc |-> j.docs[j.rec], live |-> j.live,
   head |-> head, from |-> clock, seed |-> j.cmd = "restore" /\ j.live = None]

(* Bug: what is not blocked is written although something is.              *)
AfterPlanAnyway(j) ==
  IF j.dry THEN Returned(j, "dry_run") ELSE [j EXCEPT !.pc = "write"]

(* A blocked record keeps all from being written.                          *)
AfterPlan(j) ==
  IF j.dry /\ (j.cmd = "commit" \/ j.blocked = {}) THEN Returned(j, "dry_run")
  ELSE IF j.blocked # {} THEN Returned(j, "blocked")
  ELSE [j EXCEPT !.pc = "write"]

PlanHead(o) ==
  LET j == job[o]
      head == GetHead(j.rec)
      state == Judge(j, head)
      next == [j EXCEPT
                !.pc = "plan", !.rec = None, !.live = None,
                !.blocked = IF state \in {"missing", "changed_outside_cfgit"}
                              THEN @ \cup {j.rec} ELSE @,
                !.results = IF state = "unchanged" THEN With(@, j.rec, state) ELSE @,
                !.plan = IF state \in {"ready", "noop"}
                           THEN Append(@, Planned(j, head, state)) ELSE @]
  IN  /\ j.pc = "plan_head"
      /\ \/ Set(o, IF next.todo = {} THEN AfterPlan(next) ELSE next)
         \/ j.cmd = "commit" /\ state = "ready" /\ Set(o, Returned(j, "raised"))
      /\ UNCHANGED <<storeVars, tags>>

-----------------------------------------------------------------------------
(* Phase two of a bulk commit, in the order of the plan.                   *)
BulkItem(p, op) ==
  [newDoc       |-> p.doc,
   entry        |-> [oid |-> HashDoc(p.doc), parent |-> p.head.oid,
                     doc |-> StoredDoc(p.doc), op |-> op, from |-> p.from, to |-> None],
   expectedHead |-> p.head.oid,
   expectedLive |-> IF p.live = None THEN None ELSE HashDoc(p.live),
   seed         |-> p.seed]

RecordsOf(plan) == {plan[i].rec : i \in DOMAIN plan}

(* Bug: the records after the one that failed are not reported.            *)
PendingLost(j) == Returned([j EXCEPT !.pending = {}], "partial")

(* An exception ends a bulk commit; what was not reached is pending.       *)
Failed(j) ==
  Returned([j EXCEPT !.failed = {Head(j.plan).rec},
                     !.pending = RecordsOf(Tail(j.plan))], "partial")

(* KeyboardInterrupt: also the record at hand is reported as pending.      *)
Cancelled(j) == Returned([j EXCEPT !.pending = RecordsOf(j.plan)], "partial")

Noted(j, state) ==
  [j EXCEPT !.results = With(@, Head(j.plan).rec, state), !.plan = Tail(@)]

Overall(j) ==
  IF \A r \in DOMAIN j.results : j.results[r] = "noop" THEN "noop" ELSE "committed"

(* The transaction commits and its answer may still be lost: the driver    *)
(* raises, or the interrupt arrives before apply returns.                  *)
WriteNext(o) ==
  LET j == job[o]
      p == Head(j.plan)
      item == BulkItem(p, "commit")
  IN  /\ j.pc = "write" /\ j.cmd = "commit"
      /\ \/ /\ j.plan = <<>>
            /\ Set(o, Returned(j, Overall(j))) /\ UNCHANGED storeVars
         \/ /\ j.plan # <<>> /\ p.state = "noop"
            /\ Set(o, Noted(j, "noop")) /\ UNCHANGED storeVars
         \/ /\ j.plan # <<>> /\ p.state = "ready"
            /\ Apply(p.rec, item)
            /\ \E k \in {Noted(j, "committed"), Failed(j), Cancelled(j)} :
                 SetWrote(o, k, p.rec)
         \/ /\ j.plan # <<>> /\ p.state = "ready"
            /\ Set(o, Failed(j)) \/ Set(o, Cancelled(j))
            /\ UNCHANGED storeVars
      /\ UNCHANGED tags

-----------------------------------------------------------------------------
(* Phase two of a system restore: _restore_one reads each record again.    *)
RestoreLive(o) ==
  LET j == job[o]
      p == Head(j.plan)
  IN  /\ j.pc = "write" /\ j.cmd = "restore"
      /\ \/ /\ j.plan = <<>>
            /\ Set(o, Returned(j, IF j.failed = {} THEN "restored" ELSE "partial"))
         \/ /\ j.plan # <<>> /\ live[p.rec] = None /\ ~p.seed
            /\ Set(o, [j EXCEPT !.failed = @ \cup {p.rec}, !.plan = Tail(@)])
         \/ /\ j.plan # <<>> /\ (live[p.rec] # None \/ p.seed)
            /\ Set(o, [j EXCEPT !.pc = "restore_head", !.rec = p.rec, !.live = live[p.rec]])
      /\ UNCHANGED <<storeVars, tags>>

RestoreHead(o) ==
  LET j == job[o]
      p == Head(j.plan)
      head == GetHead(j.rec)
      back == [j EXCEPT !.pc = "write", !.rec = None, !.live = None]
  IN  /\ j.pc = "restore_head"
      /\ Set(o, IF Drift(j.live, head) THEN Noted(back, "changed_outside_cfgit")
                ELSE [j EXCEPT !.pc = "restore_apply", !.head = head,
                               !.plan = <<[p EXCEPT !.live = j.live, !.head = head,
                                                    !.from = clock]>> \o Tail(@)])
      /\ UNCHANGED <<storeVars, tags>>

(* A failure does not end a system restore.                                *)
RestoreApply(o) ==
  LET j == job[o]
      p == Head(j.plan)
      back == [j EXCEPT !.pc = "write", !.rec = None, !.live = None, !.head = NoHead]
      failed == [back EXCEPT !.plan = Tail(@), !.failed = @ \cup {p.rec}]
  IN  /\ j.pc = "restore_apply"
      /\ \/ /\ Apply(p.rec, BulkItem(p, "restore"))
            /\ \E k \in {Noted(back, IF p.seed THEN "restored_deleted" ELSE "restored"), failed} :
                 SetWrote(o, k, p.rec)
         \/ Set(o, failed) /\ UNCHANGED storeVars
      /\ UNCHANGED tags

-----------------------------------------------------------------------------
(* tag: HEAD of every record is read, then its row is tagged.              *)
StartTag(o) ==
  Begin(o, [NoJob EXCEPT !.pc = "tag", !.cmd = "tag", !.todo = Known])

TagHead(o) ==
  LET j == job[o]
  IN  /\ j.pc = "tag"
      /\ \/ j.todo = {} /\ Set(o, Returned(j, "tagged"))
         \/ \E r \in j.todo :
              LET head == GetHead(r)
                  rest == [j EXCEPT !.todo = @ \ {r}]
              IN  Set(o, IF Exists(head)
                           THEN [rest EXCEPT !.pc = "add_tag", !.rec = r, !.head = head]
                           ELSE [rest EXCEPT !.results = With(@, r, "skipped_no_head")])
      /\ UNCHANGED <<storeVars, tags>>

AddTag(o) ==
  LET j == job[o]
  IN  /\ j.pc = "add_tag"
      /\ tags' = tags \cup {<<j.rec, j.head.seq>>}
      /\ Set(o, [j EXCEPT !.pc = "tag", !.rec = None, !.head = NoHead,
                          !.results = With(@, j.rec, "tagged")])
      /\ UNCHANGED storeVars

-----------------------------------------------------------------------------
(* import --all walks all live records; adopt --all those that status      *)
(* found changed, which reads all live documents and all HEADs, in any     *)
(* order.  Each record is an operation of the main line; the first that    *)
(* raises ends the sweep, and the results so far are lost.                 *)
StartImportAll(o) ==
  Begin(o, [NoJob EXCEPT !.pc = "sweep", !.cmd = "import",
                         !.todo = {r \in Records : live[r] # None}])

StartAdoptAll(o) ==
  Begin(o, [NoJob EXCEPT !.pc = "status", !.cmd = "adopt", !.todo = Known])

(* _batch_live_and_heads.  What is read first waits in docs: the document  *)
(* of HEAD's row stands for HEAD.                                          *)
StatusFirst(o) ==
  LET j == job[o]
      liveOnes == {r \in j.todo : live[r] # None}
      recorded == {r \in j.todo : Exists(GetHead(r))}
  IN  /\ j.pc = "status"
      /\ \/ Set(o, [j EXCEPT !.pc = "status_heads", !.docs = [r \in liveOnes |-> live[r]]])
         \/ Set(o, [j EXCEPT !.pc = "status_live",
                             !.docs = [r \in recorded |-> history[r][heads[r].seq].doc]])
      /\ UNCHANGED <<storeVars, tags>>

StatusSecond(o) ==
  LET j == job[o]
      changed ==
        IF j.pc = "status_heads" THEN {r \in DOMAIN j.docs : Drift(j.docs[r], GetHead(r))}
        ELSE {r \in DOMAIN j.docs : live[r] # None /\ HashDoc(live[r]) # HashDoc(j.docs[r])}
  IN  /\ j.pc \in {"status_heads", "status_live"}
      /\ Set(o, [j EXCEPT !.pc = "sweep", !.docs = Nothing, !.todo = changed])
      /\ UNCHANGED <<storeVars, tags>>

SweepOne(o, r) ==
  LET j == job[o]
      rest(state) == [j EXCEPT !.todo = @ \ {r}, !.results = With(@, r, state)]
  IN  \/ /\ j.cmd = "import" /\ \E d \in Doc : Import(r, d, clock)
         /\ SetWrote(o, rest("imported"), r)
      \/ /\ j.cmd = "adopt" /\ \E d \in Doc : Adopt(r, d, clock)
         /\ SetWrote(o, rest("adopted"), r)
      \/ /\ j.cmd = "import" /\ Exists(GetHead(r))
         /\ Set(o, rest("exists")) /\ UNCHANGED storeVars
      \/ /\ j.cmd = "import" /\ live[r] = None
         /\ Set(o, rest("missing")) /\ UNCHANGED storeVars
      \/ /\ j.cmd = "adopt" /\ Clean(r)
         /\ Set(o, rest("clean")) /\ UNCHANGED storeVars
      \/ Set(o, Returned([j EXCEPT !.results = Nothing], "raised")) /\ UNCHANGED storeVars

Sweep(o) ==
  /\ job[o].pc = "sweep"
  /\ \/ job[o].todo = {} /\ Set(o, Returned(job[o], "swept")) /\ UNCHANGED storeVars
     \/ \E r \in job[o].todo : SweepOne(o, r)
  /\ UNCHANGED tags

-----------------------------------------------------------------------------
(* The operator dies: there is no report.                                  *)
Die(o) ==
  /\ Active(o)
  /\ Set(o, [NoJob EXCEPT !.pc = "done", !.report = "died"])
  /\ UNCHANGED <<storeVars, tags>>

Call(o) ==
  \/ \E dry \in BOOLEAN :
       \/ \E S \in SUBSET Records \ {{}} : \E docs \in [S -> Doc] :
            StartCommitMany(o, docs, dry)
       \/ \E t \in 0 .. MaxClock : StartRestoreAsOf(o, t, dry)
       \/ StartRestoreTag(o, dry)
  \/ StartTag(o) \/ StartImportAll(o) \/ StartAdoptAll(o)

(* What an operator does once called.                                      *)
Work(o) ==
  \/ Gather(o) \/ PlanLive(o) \/ PlanHead(o) \/ WriteNext(o)
  \/ RestoreLive(o) \/ RestoreHead(o) \/ RestoreApply(o)
  \/ TagHead(o) \/ AddTag(o) \/ StatusFirst(o) \/ StatusSecond(o)
  \/ Sweep(o)

(* A system restore of somebody else inserts a record that was deleted.    *)
SeedItem(r, d, at) ==
  [newDoc |-> d, entry |-> Entry(r, "restore", d, at), expectedHead |-> GetHead(r).oid,
   expectedLive |-> None, seed |-> TRUE]

Seed(r, d, at) == Exists(GetHead(r)) /\ Apply(r, SeedItem(r, d, at))

(* Others write a record while an operator works, or it looks at the clock *)
(* of its host again.                                                      *)
Others ==
  /\ moves < MaxMoves /\ moves' = moves + 1
  /\ \E o \in Operators : Active(o)
  /\ \/ \E r \in Records :
          /\ \/ Version(r)
             \/ \E s \in DOMAIN history[r], at \in 0 .. MaxClock :
                  Seed(r, history[r][s].doc, at)
             \/ Behind(r)
          /\ job' = [o \in Operators |-> Touch(job[o], r)]
     \/ Tick /\ UNCHANGED job
  /\ UNCHANGED tags

BulkNext ==
  \/ (\E o \in Operators : Call(o) \/ Work(o) \/ Die(o)) /\ UNCHANGED moves
  \/ Others

(* Any history the main line leaves: versions that follow one another,    *)
(* each at what its writer's clock said.                                   *)
Pasts == {p \in UNION {[1 .. n -> Bodies] : n \in 0 .. MaxPast} :
            \A i \in 1 .. Len(p) - 1 : p[i] # p[i + 1]}

PastRows(p, ign, at) ==
  [s \in 1 .. Len(p) |->
     [oid |-> p[s], parent |-> IF s = 1 THEN None ELSE p[s - 1],
      doc |-> [body |-> p[s], ign |-> ign, sec |-> None],
      op |-> IF s = 1 THEN "import" ELSE "commit",
      from |-> at[s], to |-> IF s = Len(p) THEN None ELSE at[s + 1]]]

(* A tag that one call of tag set: at most one row of a record has it.     *)
TagSets ==
  {T \in SUBSET UNION {{<<r, s>> : s \in DOMAIN history[r]} : r \in Records} :
     \A x, y \in T : x[1] = y[1] => x = y}

BulkInit ==
  /\ live \in [Records -> Doc \cup {None}]
  /\ \E past \in [Records -> Pasts], ign \in Ignored, at \in [1 .. MaxPast -> 0 .. MaxClock] :
       /\ history = [r \in Records |-> PastRows(past[r], ign, at)]
       /\ heads = [r \in Records |->
            IF past[r] = <<>> THEN NoHead
            ELSE [oid |-> past[r][Len(past[r])], seq |-> Len(past[r])]]
  /\ clock = 0
  /\ tags \in TagSets
  /\ moves = 0
  /\ job = [o \in Operators |-> NoJob]

BulkSpec == BulkInit /\ [][BulkNext]_bulkVars
-----------------------------------------------------------------------------
(* "If bulk commit returns `blocked`, no record was applied" (SKILL.md):   *)
(* one record that may not be written, found last, keeps all the others    *)
(* from being written; and a preview writes nothing.                       *)
BlockedWritesNothing ==
  \A o \in Operators :
    job[o].cmd \in {"commit", "restore"} /\ (job[o].dry \/ job[o].blocked # {}) =>
      job[o].wrote = {}

(* The records a report claims to have written.                            *)
Claimed(j) ==
  {r \in DOMAIN j.results : j.results[r] \in {"committed", "restored", "restored_deleted"}}

(* A report accounts for every record of the call, once, and is right      *)
(* about those it claims; what was written without being claimed is listed *)
(* as failed or pending, so the caller knows what to look at.              *)
ReportAccounts ==
  \A o \in Operators :
    LET j == job[o]
    IN  j.report \in {"committed", "noop", "restored", "partial"} =>
          /\ DOMAIN j.docs \subseteq DOMAIN j.results \cup j.failed \cup j.pending
          /\ DOMAIN j.results \cap (j.failed \cup j.pending) = {}
          /\ j.failed \cap j.pending = {}
          /\ Claimed(j) \subseteq j.wrote
          /\ j.wrote \subseteq Claimed(j) \cup j.failed \cup j.pending

(* When a bulk commit or a system restore reports success, every record    *)
(* that nobody else wrote meanwhile has the document asked for at HEAD,    *)
(* whether it was written, skipped or inserted, and live as it is, or as   *)
(* _runtime_doc makes it where the call wrote it.                          *)
SuccessIsThere ==
  \A o \in Operators :
    job[o].report \in {"committed", "noop", "restored"} =>
      \A r \in DOMAIN job[o].docs \ job[o].touched :
        LET oid == HashDoc(job[o].docs[r])
        IN  /\ Exists(GetHead(r)) /\ GetHead(r).oid = oid
            /\ live[r] # None
            /\ HashDoc(live[r]) = IF r \in job[o].wrote THEN RuntimeBody[oid] ELSE oid

(* "rerunning the same command resumes (already-applied records are        *)
(* no-ops)" (USAGE.md): of a record nobody else writes, neither a bulk     *)
(* commit nor a system restore makes a version HEAD has already.           *)
RerunSkipsApplied ==
  [][\A o \in Operators :
       LET new == job'[o].wrote \ job[o].wrote
       IN  job[o].cmd \in {"commit", "restore"} =>
             \A r \in new \ job[o].touched : live[r] = None \/ heads'[r].oid # heads[r].oid]_bulkVars

(* A tag names HEAD of every record that nobody wrote while it was being   *)
(* set, although HEAD and the tag are read and written record by record.   *)
TagIsHeads ==
  \A o \in Operators :
    job[o].report = "tagged" =>
      \A r \in Records \ job[o].touched :
        Exists(GetHead(r)) => <<r, heads[r].seq>> \in tags

(* Whatever these operations read, and when, each write of theirs is one   *)
(* step of the main line, or an insert where nothing is live, decided on   *)
(* the present.                                                            *)
BulkActsOnPresent ==
  [][\/ UNCHANGED storeVars
     \/ MainNext
     \/ \E r \in Records, d \in Doc, at \in 0 .. MaxClock : Seed(r, d, at)]_storeVars

-----------------------------------------------------------------------------
(* What documents of the repository say, and the code does not do.         *)

(* A success leaves the records clean (as above): a document without its   *)
(* id or a live_when field is not live as it was recorded, status finds it *)
(* changed, and a re-run is blocked.                                       *)
SuccessIsClean ==
  \A o \in Operators :
    job[o].report \in {"committed", "noop", "restored"} =>
      \A r \in DOMAIN job[o].docs \ job[o].touched : Clean(r)

(* A system restore that reports "restored" restored, or found at its      *)
(* target, all the tagged or dated records (restore_exit_code: ok).        *)
RestoredIsRestored ==
  \A o \in Operators :
    job[o].report = "restored" =>
      \A r \in DOMAIN job[o].docs : job[o].results[r] # "changed_outside_cfgit"

(* "Return a clean partial report (what landed, what did not)": nothing a  *)
(* cancelled bulk commit lists as pending was written.                     *)
PendingNotWritten ==
  \A o \in Operators : job[o].pending \cap job[o].wrote = {}
=============================================================================
