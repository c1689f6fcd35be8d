------------------------------ MODULE Branches ------------------------------
(***************************************************************************)
(* Branches and pull requests (branch_* and pr_* of core/engine.py) on top  *)
(* of the main line.  Drafts live in the refs store, three kinds of        *)
(* documents outside any transaction: a put replaces, a delete removes,    *)
(* whatever is there.  Every command reads some refs, decides, and writes; *)
(* only pr_merge changes the live records, by one transaction that also    *)
(* writes the PR, but compares no ref.                                     *)
(***************************************************************************)
EXTENDS MainLine, Sequences, FiniteSets

CONSTANTS
  Users,       \* processes that run branch and PR commands
  BranchNames, \* names of branches other than the default one
  Main,        \* the default branch, which has no ref
  MaxCommits,  \* bound on the branch commits ever made
  MaxPrs,      \* bound on the PRs ever opened
  MaxVersions  \* the main line makes no more versions once there are so many

ASSUME MainAssumption == Main \notin BranchNames /\ None \notin BranchNames
ASSUME RefBoundAssumption == MaxCommits \in Nat /\ MaxPrs \in Nat /\ MaxVersions \in Nat

VARIABLES
  branches, \* the branch refs: from the name to head_commit_id
  commits,  \* the branch_commit refs, by id
  prs,      \* the pr refs, by id
  task      \* what each user is doing, and what it has read

refVars == <<branches, commits, prs>>

branchVars == <<live, heads, history, clock, branches, commits, prs, task>>

-----------------------------------------------------------------------------
(* Ids are random; all that is ever done with two of them is to break a    *)
(* tie of created_at, so they are numbers drawn in any order.              *)
CommitIds == 1 .. MaxCommits

PrIds == 1 .. MaxPrs

BranchCommit ==
  [branch : BranchNames, rec : Records, doc : Doc, oid : Bodies,
   parentOid : Bodies \cup {None}, parentId : CommitIds \cup {None}, at : Nat,
   baseHead : Bodies \cup {None}, baseLive : Bodies]

(* f is a function from a subset of S to T.                                *)
IsPartial(f, S, T) == DOMAIN f \subseteq S /\ \A x \in DOMAIN f : f[x] \in T

Nothing == [x \in {} |-> None]

(* records: the commit of each record the PR shows; results: the seq its   *)
(* merge reports for each.                                                 *)
IsPr(p) ==
  /\ p.status \in {"open", "closed", "merged"}
  /\ p.branch \in BranchNames
  /\ p.head \in CommitIds \cup {None}
  /\ IsPartial(p.records, Records, CommitIds)
  /\ IsPartial(p.results, Records, Nat)

Tasks == {"idle", "done",
          "create", "create_base", "put_branch",
          "delete", "delete_prs", "delete_branch",
          "require", "plan_live", "plan_head", "plan_latest", "put_commits", "put_head",
          "pr_branch", "pr_log", "pr_latest", "put_pr",
          "close", "put_closed",
          "merge", "merge_branch", "merge_latest", "merge_live", "merge_head",
          "merge_apply"}

NoTask ==
  [pc      |-> "idle",
   branch  |-> None,    \* the branch it works on, and where that one starts
   base    |-> None,
   pr      |-> None,
   head    |-> None,    \* head_commit_id: as read, then as it will be written
   todo    |-> Nothing, \* documents still to be planned, by record
   rec     |-> None,    \* the record being looked at
   live    |-> None,
   main    |-> NoHead,
   plans   |-> <<>>,    \* the branch commits to put, with their ids
   latest  |-> Nothing, \* the latest commit of each record, as read
   items   |-> Nothing, \* the ApplyItems, by record
   results |-> Nothing]

Working(u) == task[u].pc \notin {"idle", "done"}

(* Types of the refs and of the parts of a task that end up in them.       *)
RefsTypeOK ==
  /\ IsPartial(branches, BranchNames, CommitIds \cup {None})
  /\ IsPartial(commits, CommitIds, BranchCommit)
  /\ DOMAIN prs \subseteq PrIds /\ \A p \in DOMAIN prs : IsPr(prs[p])
  /\ \A u \in Users :
       /\ task[u].pc \in Tasks
       /\ \A i \in DOMAIN task[u].plans : task[u].plans[i].commit \in BranchCommit
       /\ IsPartial(task[u].latest, Records, CommitIds)

BranchesInit ==
  /\ StoreInit
  /\ branches = Nothing
  /\ commits = Nothing
  /\ prs = Nothing
  /\ task = [u \in Users |-> NoTask]

-----------------------------------------------------------------------------
(* The refs store.                                                         *)
PutRef(refs, id, doc) ==
  [x \in DOMAIN refs \cup {id} |-> IF x = id THEN doc ELSE refs[x]]

DeleteRef(refs, id) == [x \in DOMAIN refs \ {id} |-> refs[x]]

CommitsOf(b) == {i \in DOMAIN commits : commits[i].branch = b}

CommitsOn(b, r) == {i \in CommitsOf(b) : commits[i].rec = r}

(* The commits of a record that are nobody's parent.  More than one when   *)
(* two users committed at once.                                            *)
Tips(b, r) ==
  {i \in CommitsOn(b, r) : \A j \in CommitsOn(b, r) : commits[j].parentId # i}

(* _branch_latest_by_record: the tip with the largest created_at and id.   *)
LatestOn(b, r) ==
  CHOOSE i \in Tips(b, r) :
    \A j \in Tips(b, r) :
      commits[j].at < commits[i].at \/ (commits[j].at = commits[i].at /\ j <= i)

Latest(b) == [r \in {commits[i].rec : i \in CommitsOf(b)} |-> LatestOn(b, r)]

-----------------------------------------------------------------------------
(* A command returns (or raises), and what it was about is forgotten.      *)
Return(u) == task' = [task EXCEPT ![u] = [NoTask EXCEPT !.pc = "done"]]

Step(u, pc) == task' = [task EXCEPT ![u].pc = pc]

Begin(u, t) ==
  /\ ~Working(u)
  /\ task' = [task EXCEPT ![u] = t]
  /\ UNCHANGED refVars

Reads(u) == UNCHANGED refVars

-----------------------------------------------------------------------------
(* branch create                                                           *)
StartBranchCreate(u, b, base) ==
  Begin(u, [NoTask EXCEPT !.pc = "create", !.branch = b, !.base = base])

CheckNew(u) ==
  LET t == task[u]
  IN  /\ t.pc = "create"
      /\ \/ t.branch \in DOMAIN branches /\ Return(u)
         \/ /\ t.branch \notin DOMAIN branches
            /\ Step(u, IF t.base = Main THEN "put_branch" ELSE "create_base")
      /\ Reads(u)

CheckBase(u) ==
  /\ task[u].pc = "create_base"
  /\ IF task[u].base \in DOMAIN branches THEN Step(u, "put_branch") ELSE Return(u)
  /\ Reads(u)

(* Bug: head_commit_id is given the name of the base branch.               *)
PutBranchAtBase(u) ==
  /\ task[u].pc = "put_branch"
  /\ branches' = PutRef(branches, task[u].branch, task[u].base)
  /\ Return(u)
  /\ UNCHANGED <<commits, prs>>

PutBranch(u) ==
  /\ task[u].pc = "put_branch"
  /\ branches' = PutRef(branches, task[u].branch, None)
  /\ Return(u)
  /\ UNCHANGED <<commits, prs>>

(* branch delete: the commits of the branch stay.                          *)
StartBranchDelete(u, b) == Begin(u, [NoTask EXCEPT !.pc = "delete", !.branch = b])

CheckThere(u) ==
  /\ task[u].pc = "delete"
  /\ IF task[u].branch \in DOMAIN branches THEN Step(u, "delete_prs") ELSE Return(u)
  /\ Reads(u)

OpenPrs(b) == {p \in DOMAIN prs : prs[p].branch = b /\ prs[p].status = "open"}

CheckPrs(u) ==
  /\ task[u].pc = "delete_prs"
  /\ IF OpenPrs(task[u].branch) = {} THEN Step(u, "delete_branch") ELSE Return(u)
  /\ Reads(u)

(* Bug: the commits are deleted with the branch, whoever is adding one.    *)
DeleteWithCommits(u) ==
  /\ task[u].pc = "delete_branch"
  /\ branches' = DeleteRef(branches, task[u].branch)
  /\ commits' = [i \in DOMAIN commits \ CommitsOf(task[u].branch) |-> commits[i]]
  /\ Return(u)
  /\ UNCHANGED prs

DeleteBranch(u) ==
  /\ task[u].pc = "delete_branch"
  /\ branches' = DeleteRef(branches, task[u].branch)
  /\ Return(u)
  /\ UNCHANGED <<commits, prs>>

-----------------------------------------------------------------------------
(* branch commit, of one record or of many: every record is planned before *)
(* anything is written, and nothing is if one of them cannot be committed. *)
(* The bound counts the commits on their way.                              *)
CommitsUnderWay ==
  Cardinality({x \in Users \X Records : x[2] \in DOMAIN task[x[1]].todo})
  + Cardinality({x \in Users \X CommitIds : x[2] \in DOMAIN task[x[1]].plans})

StartBranchCommit(u, b, docs) ==
  /\ Cardinality(DOMAIN commits) + CommitsUnderWay + Cardinality(DOMAIN docs) <= MaxCommits
  /\ Begin(u, [NoTask EXCEPT !.pc = "require", !.branch = b, !.todo = docs])

Require(u) ==
  LET t == task[u]
  IN  /\ t.pc = "require"
      /\ \/ t.branch \notin DOMAIN branches /\ Return(u)
         \/ /\ t.branch \in DOMAIN branches
            /\ task' = [task EXCEPT ![u].pc = "plan_live", ![u].head = branches[t.branch]]
      /\ Reads(u)

(* The caller lists the records in an order of its own.  A record that is  *)
(* missing or has drifted blocks the command.                              *)
PlanLive(u) ==
  /\ task[u].pc = "plan_live"
  /\ \E r \in DOMAIN task[u].todo :
       \/ live[r] = None /\ Return(u)
       \/ /\ live[r] # None
          /\ task' = [task EXCEPT ![u].pc = "plan_head", ![u].rec = r,
                                  ![u].live = live[r]]
  /\ Reads(u)

(* The live document is not what HEAD says, of a record that has a HEAD.   *)
Drifted(doc, head) == Exists(head) /\ HashDoc(doc) # head.oid

PlanHead(u) ==
  LET t == task[u]
      head == GetHead(t.rec)
  IN  /\ t.pc = "plan_head"
      /\ \/ Drifted(t.live, head) /\ Return(u)
         \/ /\ ~Drifted(t.live, head)
            /\ task' = [task EXCEPT ![u].pc = "plan_latest", ![u].main = head]
      /\ Reads(u)

(* A draft follows the latest commit of its record on the branch, or HEAD. *)
ParentId(b, r) == IF CommitsOn(b, r) = {} THEN None ELSE LatestOn(b, r)

(* Bug: drafts are always compared with HEAD.                              *)
ParentIsHead(b, r, head) == head.oid

ParentOid(b, r, head) ==
  IF ParentId(b, r) = None THEN head.oid ELSE commits[ParentId(b, r)].oid

FreshIds ==
  CommitIds \ (DOMAIN commits \cup
    UNION {{task[u].plans[i].id : i \in DOMAIN task[u].plans} : u \in Users})

Draft(t) ==
  LET doc == t.todo[t.rec]
  IN  [branch    |-> t.branch,
       rec       |-> t.rec,
       doc       |-> StoredDoc(doc),
       oid       |-> HashDoc(doc),
       parentOid |-> ParentOid(t.branch, t.rec, t.main),
       parentId  |-> ParentId(t.branch, t.rec),
       at        |-> clock,
       baseHead  |-> t.main.oid,
       baseLive  |-> HashDoc(t.live)]

Noop(draft) == draft.oid = draft.parentOid

(* _secret_meta may refuse the document.                                   *)
PlanLatest(u) ==
  LET t == task[u]
      draft == Draft(t)
      planned == [t EXCEPT !.todo = DeleteRef(t.todo, t.rec), !.rec = None,
                           !.live = None, !.main = NoHead,
                           !.pc = IF DOMAIN t.todo = {t.rec} THEN "put_commits"
                                  ELSE "plan_live"]
  IN  /\ t.pc = "plan_latest"
      /\ \/ Noop(draft) /\ task' = [task EXCEPT ![u] = planned]
         \/ ~Noop(draft) /\ Return(u)
         \/ /\ ~Noop(draft)
            /\ \E id \in FreshIds :
                 task' = [task EXCEPT ![u] =
                   [planned EXCEPT !.plans = Append(@, [id |-> id, commit |-> draft])]]
      /\ Reads(u)

PutCommits(u) ==
  LET t == task[u]
  IN  /\ t.pc = "put_commits"
      /\ \/ t.plans = <<>> /\ Return(u) /\ UNCHANGED refVars
         \/ /\ t.plans # <<>>
            /\ commits' = PutRef(commits, Head(t.plans).id, Head(t.plans).commit)
            /\ task' = [task EXCEPT ![u].plans = Tail(@),
                                    ![u].head = Head(t.plans).id,
                                    ![u].pc = IF Len(t.plans) = 1 THEN "put_head"
                                              ELSE "put_commits"]
            /\ UNCHANGED <<branches, prs>>

(* The branch is written back whole, as it was read but for its head.      *)
PutHead(u) ==
  /\ task[u].pc = "put_head"
  /\ branches' = PutRef(branches, task[u].branch, task[u].head)
  /\ Return(u)
  /\ UNCHANGED <<commits, prs>>

-----------------------------------------------------------------------------
(* pr create: three reads of the branch, none of them at the same time.    *)
PrsUnderWay ==
  Cardinality({u \in Users : task[u].pc \in {"pr_branch", "pr_log", "pr_latest", "put_pr"}})

StartPrCreate(u, b) ==
  /\ Cardinality(DOMAIN prs) + PrsUnderWay < MaxPrs
  /\ Begin(u, [NoTask EXCEPT !.pc = "pr_branch", !.branch = b])

ReadBranch(u) ==
  LET t == task[u]
  IN  /\ t.pc = "pr_branch"
      /\ \/ t.branch \notin DOMAIN branches /\ Return(u)
         \/ /\ t.branch \in DOMAIN branches
            /\ task' = [task EXCEPT ![u].pc = "pr_log", ![u].head = branches[t.branch]]
      /\ Reads(u)

ReadLog(u) ==
  LET b == task[u].branch
  IN  /\ task[u].pc = "pr_log"
      /\ IF b \in DOMAIN branches /\ CommitsOf(b) # {} THEN Step(u, "pr_latest")
         ELSE Return(u)
      /\ Reads(u)

ReadLatest(u) ==
  /\ task[u].pc = "pr_latest"
  /\ task' = [task EXCEPT ![u].pc = "put_pr", ![u].latest = Latest(task[u].branch)]
  /\ Reads(u)

PutPr(u) ==
  LET t == task[u]
      id == Cardinality(DOMAIN prs) + 1
  IN  /\ t.pc = "put_pr"
      /\ prs' = PutRef(prs, id, [status |-> "open", branch |-> t.branch, head |-> t.head,
                                 records |-> t.latest, results |-> Nothing])
      /\ Return(u)
      /\ UNCHANGED <<branches, commits>>

(* pr close: the PR is written back whole, as it was when it was open.     *)
StartPrClose(u, p) == Begin(u, [NoTask EXCEPT !.pc = "close", !.pr = p])

ReadPr(u) ==
  /\ task[u].pc = "close"
  /\ IF prs[task[u].pr].status = "open" THEN Step(u, "put_closed") ELSE Return(u)
  /\ Reads(u)

ClosedPr(pr) == [pr EXCEPT !.status = "closed", !.results = Nothing]

PutClosed(u) ==
  LET p == task[u].pr
  IN  /\ task[u].pc = "put_closed"
      /\ prs' = PutRef(prs, p, ClosedPr(prs[p]))
      /\ Return(u)
      /\ UNCHANGED <<branches, commits>>

-----------------------------------------------------------------------------
(* pr merge: the PR, its branch and the branch's commits are read one      *)
(* after the other, then the live document and HEAD of each record; the    *)
(* transaction compares HEAD and the live hash again, and writes the PR.   *)
StartPrMerge(u, p) == Begin(u, [NoTask EXCEPT !.pc = "merge", !.pr = p])

CheckOpen(u) ==
  /\ task[u].pc = "merge"
  /\ IF prs[task[u].pr].status = "open" THEN Step(u, "merge_branch") ELSE Return(u)
  /\ Reads(u)

(* Bug: a branch that moved since the PR was opened is merged all the same. *)
BranchThere(pr) == pr.branch \in DOMAIN branches

BranchUnmoved(pr) == pr.branch \in DOMAIN branches /\ branches[pr.branch] = pr.head

CheckBranch(u) ==
  /\ task[u].pc = "merge_branch"
  /\ IF BranchUnmoved(prs[task[u].pr]) THEN Step(u, "merge_latest") ELSE Return(u)
  /\ Reads(u)

ReadDrafts(u) ==
  LET latest == Latest(prs[task[u].pr].branch)
  IN  /\ task[u].pc = "merge_latest"
      /\ \/ DOMAIN latest = {} /\ Return(u)
         \/ /\ DOMAIN latest # {}
            /\ task' = [task EXCEPT ![u].pc = "merge_live", ![u].latest = latest]
      /\ Reads(u)

MergeLive(u) ==
  LET t == task[u]
  IN  /\ t.pc = "merge_live"
      /\ \E r \in DOMAIN t.latest \ DOMAIN t.items :
           \/ live[r] = None /\ Return(u)
           \/ /\ live[r] # None
              /\ task' = [task EXCEPT ![u].pc = "merge_head", ![u].rec = r,
                                      ![u].live = live[r]]
      /\ Reads(u)

(* Bug: it does not matter if main moved since the branch commit.          *)
AnyBase(commit, head) == TRUE

OnBase(commit, head) == head.oid = commit.baseHead

MergeItem(commit, doc, head) ==
  [newDoc       |-> commit.doc,
   entry        |-> [oid |-> HashDoc(commit.doc), parent |-> head.oid,
                     doc |-> StoredDoc(commit.doc), op |-> "merge", from |-> clock,
                     to |-> None],
   expectedHead |-> head.oid,
   expectedLive |-> HashDoc(doc),
   seed         |-> FALSE]

NextSeq(head) == head.seq + 1

MergeHead(u) ==
  LET t == task[u]
      head == GetHead(t.rec)
      commit == commits[t.latest[t.rec]]
      ready == OnBase(commit, head) /\ ~Drifted(t.live, head)
      items == PutRef(t.items, t.rec, MergeItem(commit, t.live, head))
  IN  /\ t.pc = "merge_head"
      /\ \/ ~ready /\ Return(u)
         \/ /\ ready
            /\ task' = [task EXCEPT ![u] =
                 [t EXCEPT !.items = items,
                           !.results = PutRef(t.results, t.rec, NextSeq(head)),
                           !.rec = None, !.live = None,
                           !.pc = IF DOMAIN items = DOMAIN t.latest THEN "merge_apply"
                                  ELSE "merge_live"]]
      /\ Reads(u)

MergedPr(pr, results) == [pr EXCEPT !.status = "merged", !.results = results]

(* The transaction commits, or raises and leaves everything as it was:     *)
(* because something it compares has changed, or for the database's own    *)
(* reasons, three times in a row.                                          *)
MergeApply(u) ==
  LET t == task[u]
  IN  /\ t.pc = "merge_apply"
      /\ \/ /\ ApplyMany(t.items)
            /\ prs' = PutRef(prs, t.pr, MergedPr(prs[t.pr], t.results))
            /\ UNCHANGED <<branches, commits>>
         \/ UNCHANGED <<storeVars, refVars>>
      /\ Return(u)

-----------------------------------------------------------------------------
(* The user dies, whatever it was doing.                                   *)
Die(u) ==
  /\ task[u].pc # "idle"
  /\ task' = [task EXCEPT ![u] = NoTask]
  /\ UNCHANGED refVars

Command(u) ==
  \/ \E b \in BranchNames :
       \/ \E base \in BranchNames \cup {Main} : StartBranchCreate(u, b, base)
       \/ StartBranchDelete(u, b)
       \/ \E S \in SUBSET Records \ {{}} : \E docs \in [S -> Doc] :
            StartBranchCommit(u, b, docs)
       \/ StartPrCreate(u, b)
  \/ \E p \in DOMAIN prs : StartPrClose(u, p) \/ StartPrMerge(u, p)

Draws(u) ==
  \/ CheckNew(u) \/ CheckBase(u) \/ PutBranch(u)
  \/ CheckThere(u) \/ CheckPrs(u) \/ DeleteBranch(u)
  \/ Require(u) \/ PlanLive(u) \/ PlanHead(u) \/ PlanLatest(u)
  \/ PutCommits(u) \/ PutHead(u)
  \/ ReadBranch(u) \/ ReadLog(u) \/ ReadLatest(u) \/ PutPr(u)
  \/ ReadPr(u) \/ PutClosed(u)
  \/ CheckOpen(u) \/ CheckBranch(u) \/ ReadDrafts(u) \/ MergeLive(u) \/ MergeHead(u)

UserStep(u) ==
  \/ (Command(u) \/ Draws(u)) /\ UNCHANGED storeVars
  \/ MergeApply(u)

(* The main line moves, the application writes, time passes.               *)
VersionsMade ==
  Cardinality({x \in Records \X (1 .. MaxVersions) : x[2] <= heads[x[1]].seq})

MainStep ==
  /\ \/ VersionsMade < MaxVersions /\ \E r \in Records : Version(r)
     \/ \E r \in Records : Behind(r)
     \/ Tick
  /\ UNCHANGED <<refVars, task>>

BranchesNext ==
  \/ MainStep
  \/ \E u \in Users : UserStep(u) \/ (Die(u) /\ UNCHANGED storeVars)

BranchesSpec == BranchesInit /\ [][BranchesNext]_branchVars

(* Nobody dies half-way through a branch or PR command.                    *)
LastingNext == MainStep \/ \E u \in Users : UserStep(u)

LastingSpec == BranchesInit /\ [][LastingNext]_branchVars

-----------------------------------------------------------------------------
(* Steps of the properties: a merge of user u commits.                     *)
Merging(u) == task'[u] # task[u] /\ history' # history

(* A branch points to a commit made on it, although the two are written    *)
(* one after the other by users who may die in between (branch_commit).    *)
HeadIsOnBranch ==
  \A b \in DOMAIN branches :
    branches[b] # None => branches[b] \in CommitsOf(b)

(* Drafts of a record form chains: each changes the oid of the one it says *)
(* it follows, and the first changes the HEAD it was drafted against,      *)
(* whatever was committed meanwhile (_branch_commit_plan).                 *)
DraftsChain ==
  \A i \in DOMAIN commits :
    LET c == commits[i]
    IN  /\ c.oid # c.parentOid
        /\ IF c.parentId = None THEN c.parentOid = c.baseHead
           ELSE /\ c.parentId \in CommitsOn(c.branch, c.rec)
                /\ c.parentOid = commits[c.parentId].oid

(* The seq a merged PR reports for a record (merge_results, computed from  *)
(* a HEAD read before the transaction) is a row some merge wrote, and no   *)
(* other PR reports it: as long as no content of the record recurs.        *)
ReportsItsRow ==
  \A p \in DOMAIN prs : \A r \in DOMAIN prs[p].results :
    FreshOids(r) =>
      /\ prs[p].results[r] \in DOMAIN history[r]
      /\ history[r][prs[p].results[r]].op = "merge"
      /\ \A q \in DOMAIN prs \ {p} :
           r \in DOMAIN prs[q].results => prs[q].results[r] # prs[p].results[r]

(* "it refuses stale main heads" (README): when a merge commits, HEAD of   *)
(* every record has the content its draft was based on, whoever moved it   *)
(* since the merge looked.                                                 *)
MergesOnBase ==
  [][\A u \in Users : Merging(u) =>
       \A r \in DOMAIN task[u].latest :
         heads[r].oid = commits[task[u].latest[r]].baseHead]_branchVars

(* The records of a merge are read one by one, but when it commits each of *)
(* them is as it was read: a merge of many is decided on one state of all  *)
(* ("If any check fails, runtime remains unchanged", BRANCHING_PLAN.md).   *)
MergesASnapshot ==
  [][\A u \in Users : Merging(u) =>
       \A r \in DOMAIN task[u].latest :
         /\ HashDoc(live[r]) = task[u].items[r].expectedLive
         /\ heads[r].oid = task[u].items[r].expectedHead]_branchVars

(* "Confirm the head branch still points at the PR's frozen                *)
(* head_commit_id" (docs/BRANCHING_PLAN.md): what a merge writes is what   *)
(* the PR shows, record by record.                                         *)
MergesWhatPrShows ==
  [][\A u \in Users : Merging(u) =>
       task[u].latest = prs[task[u].pr].records]_branchVars

(* "refuses to clobber changes it did not record" (README), now of every   *)
(* command: Engine's NeverClobbersDrift, with the merges.                  *)
MergeNeverClobbersDrift ==
  [][\A r \in Records : Overwritten(r) /\ Exists(GetHead(r)) => Clean(r)]_branchVars

-----------------------------------------------------------------------------
(* What documents of the repository say, and the code does not do.         *)

(* "For each touched record, confirm live runtime hash still equals        *)
(* base_oid" (docs/BRANCHING_PLAN.md), of records without history.         *)
MergesOverBaseOnly ==
  [][\A u \in Users : Merging(u) =>
       \A r \in DOMAIN task[u].latest :
         HashDoc(live[r]) = commits[task[u].latest[r]].baseLive]_branchVars

(* "mark the PR merged in one transaction" (docs/BRANCHING_PLAN.md), and   *)
(* only open PRs are merged or closed: it is closed or merged for good.    *)
(* While one user closes it another may merge it.                          *)
PrSettlesOnce ==
  [][\A p \in DOMAIN prs : prs[p].status # "open" => prs'[p] = prs[p]]_branchVars

(* branch_delete refuses while the branch has an open PR: an open PR has a *)
(* branch.  One may be opened between its look and its delete.             *)
OpenPrHasBranch ==
  \A p \in DOMAIN prs : prs[p].status = "open" => prs[p].branch \in DOMAIN branches
=============================================================================
