--------------------------- MODULE BranchesProofs ---------------------------
(***************************************************************************)
(* Proofs about Branches, for any records, users, branches, contents and   *)
(* bounds.                                                                 *)
(***************************************************************************)
EXTENDS Branches, StoreProofs, FiniteSetTheorems, SequenceTheorems, TLAPS

(***************************************************************************)
(* The types of what the invariant speaks of.                              *)
(***************************************************************************)
Partial(S, T) == UNION {[D -> T] : D \in SUBSET S}

Plan == [id : CommitIds, commit : BranchCommit]

MergeItemType ==
  [newDoc : Doc, entry : Row, expectedHead : Bodies \cup {None}, expectedLive : Bodies,
   seed : {FALSE}]

PrType ==
  [status : {"open", "closed", "merged"}, branch : BranchNames, head : CommitIds \cup {None},
   records : Partial(Records, CommitIds), results : Partial(Records, Nat)]

Task ==
  [pc : Tasks, branch : BranchNames \cup {None}, base : BranchNames \cup {Main, None},
   pr : Nat \cup {None}, head : CommitIds \cup {None}, todo : Partial(Records, Doc),
   rec : Records \cup {None}, live : Doc \cup {None}, main : HeadType, plans : Seq(Plan),
   latest : Partial(Records, CommitIds), items : Partial(Records, MergeItemType),
   results : Partial(Records, Nat)]

RefsType ==
  /\ branches \in Partial(BranchNames, CommitIds \cup {None})
  /\ commits \in Partial(CommitIds, BranchCommit)
  /\ prs \in Partial(Nat, PrType)
  /\ task \in [Users -> Task]

(***************************************************************************)
(* The inductive invariant: StoreOK, of the store, and beside it this.     *)
(***************************************************************************)

(* Of a draft, once it is planned: what it follows is there, and it        *)
(* changes it.  cs is the commits.                                         *)
OnLine(c, d) == c.branch = d.branch /\ c.rec = d.rec

DraftOK(c, cs) ==
  /\ c.at <= MaxClock
  /\ c.oid # c.parentOid
  /\ IF c.parentId = None THEN c.parentOid = c.baseHead
     ELSE /\ c.parentId \in DOMAIN cs
          /\ OnLine(cs[c.parentId], c)
          /\ c.parentOid = cs[c.parentId].oid

(* Every record with drafts on a branch has a tip there.                   *)
IsTip(j, cs) == \A k \in DOMAIN cs : OnLine(cs[k], cs[j]) => cs[k].parentId # j

CommitsOK(cs) ==
  /\ \A i \in DOMAIN cs : DraftOK(cs[i], cs)
  /\ \A i \in DOMAIN cs : \E j \in DOMAIN cs : OnLine(cs[j], cs[i]) /\ IsTip(j, cs)

(* Of what a merge is going to write: it is based on the HEAD its draft    *)
(* was, and where there is a HEAD, on a live record that was clean.        *)
ItemOK(item, c) ==
  /\ item.expectedHead = c.baseHead
  /\ item.entry.parent = item.expectedHead
  /\ item.entry.to = None
  /\ item.expectedHead # None => item.expectedLive = item.expectedHead

(* Of a user: what it remembers is still there, whatever others did since. *)
AtBranch ==
  {"create", "create_base", "put_branch", "delete", "delete_prs", "delete_branch",
   "require", "plan_live", "plan_head", "plan_latest", "put_commits", "put_head",
   "pr_branch", "pr_log", "pr_latest", "put_pr"}

AtPr ==
  {"close", "put_closed", "merge", "merge_branch", "merge_latest", "merge_live",
   "merge_head", "merge_apply"}

TaskOK(t, cs, ps) ==
  /\ t.pc \in AtBranch => t.branch \in BranchNames
  /\ t.pc \in AtPr => t.pr \in DOMAIN ps
  /\ t.pc = "put_head" => t.head \in DOMAIN cs /\ cs[t.head].branch = t.branch
  /\ t.pc \in {"plan_head", "plan_latest"} => t.rec \in DOMAIN t.todo /\ t.live \in Doc
  /\ \A i \in 1 .. Len(t.plans) :
       t.plans[i].commit.branch = t.branch /\ DraftOK(t.plans[i].commit, cs)
  /\ \A r \in DOMAIN t.latest : t.latest[r] \in DOMAIN cs
  /\ t.pc = "merge_head" => t.rec \in DOMAIN t.latest /\ t.live \in Doc
  /\ t.pc \notin {"merge_live", "merge_head", "merge_apply"} => DOMAIN t.items = {}
  /\ t.pc = "merge_apply" => DOMAIN t.items = DOMAIN t.latest
  /\ \A r \in DOMAIN t.items : r \in DOMAIN t.latest /\ ItemOK(t.items[r], cs[t.latest[r]])

(* An id that is drawn is nobody else's.                                   *)
FreshPlans(tasks, cs) ==
  \A u \in Users : \A i \in 1 .. Len(tasks[u].plans) :
    /\ tasks[u].plans[i].id \notin DOMAIN cs
    /\ \A v \in Users : \A j \in 1 .. Len(tasks[v].plans) :
         tasks[u].plans[i].id = tasks[v].plans[j].id => u = v /\ i = j

(* PRs are numbered, and their bound allows for those being opened.        *)
Opens == {"pr_branch", "pr_log", "pr_latest", "put_pr"}

Opening(tasks) == {u \in Users : tasks[u].pc \in Opens}

PrsOK(tasks, ps) ==
  /\ IsFiniteSet(Opening(tasks))
  /\ \E n \in Nat : DOMAIN ps = 1 .. n /\ n + Cardinality(Opening(tasks)) <= MaxPrs

RefsOK ==
  /\ RefsType
  /\ PrsOK(task, prs)
  /\ HeadIsOnBranch
  /\ CommitsOK(commits)
  /\ FreshPlans(task, commits)
  /\ \A u \in Users : TaskOK(task[u], commits, prs)

IInv == StoreOK /\ RefsOK

-----------------------------------------------------------------------------
(***************************************************************************)
(* Lemmas about data.                                                      *)
(***************************************************************************)

(* A put adds one ref, or replaces one, and a delete removes one.          *)
IsPut(new, f, x, y) ==
  /\ DOMAIN new = DOMAIN f \cup {x}
  /\ new[x] = y
  /\ \A z \in DOMAIN f \ {x} : new[z] = f[z]

IsDelete(new, f, x) ==
  DOMAIN new = DOMAIN f \ {x} /\ \A z \in DOMAIN new : new[z] = f[z]

(* Putting an entry into a map gives a map of the same type, which differs *)
(* there only.                                                             *)
LEMMA PutIsPartial ==
  ASSUME NEW S, NEW T, NEW f \in Partial(S, T), NEW x \in S, NEW y \in T
  PROVE  PutRef(f, x, y) \in Partial(S, T) /\ IsPut(PutRef(f, x, y), f, x, y)
<1>1. PICK D \in SUBSET S : f \in [D -> T]
  BY DEF Partial
<1>2. PutRef(f, x, y) \in [D \cup {x} -> T]
  BY <1>1 DEF PutRef
<1>3. D \cup {x} \in SUBSET S
  OBVIOUS
<1>. QED
  BY <1>1, <1>2, <1>3 DEF Partial, PutRef, IsPut

(* So does deleting one.                                                   *)
LEMMA DeleteIsPartial ==
  ASSUME NEW S, NEW T, NEW f \in Partial(S, T), NEW x
  PROVE  DeleteRef(f, x) \in Partial(S, T) /\ IsDelete(DeleteRef(f, x), f, x)
<1>1. PICK D \in SUBSET S : f \in [D -> T]
  BY DEF Partial
<1>2. DeleteRef(f, x) \in [D \ {x} -> T]
  BY <1>1 DEF DeleteRef
<1>3. D \ {x} \in SUBSET S
  OBVIOUS
<1>. QED
  BY <1>1, <1>2, <1>3 DEF Partial, DeleteRef, IsDelete

(* The empty map, the values of a map, and functions on a part of the      *)
(* keys.                                                                   *)
LEMMA PartialFacts ==
  ASSUME NEW S, NEW T
  PROVE  /\ Nothing \in Partial(S, T) /\ DOMAIN Nothing = {}
         /\ \A f \in Partial(S, T) : DOMAIN f \subseteq S /\ \A x \in DOMAIN f : f[x] \in T
         /\ \A D \in SUBSET S : \A f \in [D -> T] : f \in Partial(S, T)
<1>1. Nothing \in [{} -> T]
  BY DEF Nothing
<1>2. {} \in SUBSET S
  OBVIOUS
<1>. QED
  BY <1>1, <1>2 DEF Partial, Nothing

-----------------------------------------------------------------------------
(* The engine on the main line, of which Branches knows the store only,    *)
(* keeps the store right.                                                  *)
LEMMA MainStoreStep ==
  ASSUME StoreOK, MainStep
  PROVE  StoreOK'
<1>1. CASE \E r \in Records : Version(r)
  BY <1>1, VersionStep
<1>2. CASE \E r \in Records : Behind(r)
  BY <1>2 DEF Behind, RawWrite, StoreOK
<1>3. CASE Tick
  BY <1>3, ClockAssumption DEF Tick, StoreOK
<1>. QED
  BY <1>1, <1>2, <1>3 DEF MainStep

-----------------------------------------------------------------------------
(***************************************************************************)
(* Commits.                                                                *)
(***************************************************************************)

(* The latest commit of a record on a branch is one of them: there is a    *)
(* tip, and of the tips one with the largest created_at and id.            *)
LEMMA LatestIsCommit ==
  ASSUME RefsType, CommitsOK(commits), NEW b, NEW r, CommitsOn(b, r) # {}
  PROVE  /\ LatestOn(b, r) \in CommitsOn(b, r) /\ LatestOn(b, r) \in Tips(b, r)
         /\ \A j \in Tips(b, r) :
              \/ commits[j].at < commits[LatestOn(b, r)].at
              \/ commits[j].at = commits[LatestOn(b, r)].at /\ j <= LatestOn(b, r)
<1>1. /\ DOMAIN commits \subseteq CommitIds
      /\ \A i \in DOMAIN commits : commits[i] \in BranchCommit /\ DraftOK(commits[i], commits)
  BY PartialFacts DEF RefsType, CommitsOK
<1>2. \A i \in DOMAIN commits : commits[i].at \in Nat /\ commits[i].at <= MaxClock
  BY <1>1 DEF BranchCommit, DraftOK
<1>3. \A i \in DOMAIN commits : i \in Nat /\ i <= MaxCommits
  BY <1>1, RefBoundAssumption DEF CommitIds
<1>. DEFINE T == Tips(b, r)
<1>4. T \subseteq DOMAIN commits /\ T \subseteq CommitsOn(b, r)
  BY DEF Tips, CommitsOn, CommitsOf
<1>5. T # {}
  <2>1. PICK i \in DOMAIN commits : commits[i].branch = b /\ commits[i].rec = r
    BY DEF CommitsOn, CommitsOf
  <2>2. PICK j \in DOMAIN commits : OnLine(commits[j], commits[i]) /\ IsTip(j, commits)
    BY DEF CommitsOK
  <2>3. j \in CommitsOn(b, r)
    BY <2>1, <2>2 DEF OnLine, CommitsOn, CommitsOf
  <2>4. \A k \in CommitsOn(b, r) : commits[k].parentId # j
    BY <2>1, <2>2 DEF OnLine, IsTip, CommitsOn, CommitsOf
  <2>. QED
    BY <2>3, <2>4 DEF Tips
<1>6. PICK m \in T : \A j \in T : commits[j].at <= commits[m].at
  <2>. DEFINE S == {commits[j].at : j \in T}
  <2>1. S \in SUBSET Nat /\ S # {} /\ \A x \in S : x <= MaxClock
    BY <1>2, <1>4, <1>5
  <2>2. PICK x \in S : \A y \in S : y <= x
    BY <2>1, ClockAssumption, LargestExists
  <2>. QED
    BY <2>2
<1>7. PICK i \in T : commits[i].at = commits[m].at
                     /\ \A j \in T : commits[j].at = commits[m].at => j <= i
  <2>. DEFINE S == {j \in T : commits[j].at = commits[m].at}
  <2>1. S \in SUBSET Nat /\ S # {} /\ \A x \in S : x <= MaxCommits
    BY <1>3, <1>4
  <2>2. PICK x \in S : \A y \in S : y <= x
    BY <2>1, RefBoundAssumption, LargestExists
  <2>. QED
    BY <2>2
<1>8. \A j \in T : commits[j].at < commits[i].at \/ (commits[j].at = commits[i].at /\ j <= i)
  BY <1>2, <1>4, <1>6, <1>7
<1>9. /\ LatestOn(b, r) \in T
      /\ \A j \in T : \/ commits[j].at < commits[LatestOn(b, r)].at
                      \/ commits[j].at = commits[LatestOn(b, r)].at /\ j <= LatestOn(b, r)
  BY <1>8 DEF LatestOn
<1>. QED
  BY <1>4, <1>9

(* latest_branch_commits: a commit that exists, for some of the records.   *)
LEMMA LatestIsPartial ==
  ASSUME RefsType, CommitsOK(commits), NEW b
  PROVE  /\ Latest(b) \in Partial(Records, CommitIds)
         /\ \A r \in DOMAIN Latest(b) : Latest(b)[r] \in DOMAIN commits
<1>. DEFINE D == {commits[i].rec : i \in CommitsOf(b)}
<1>1. D \in SUBSET Records
  <2>1. \A i \in DOMAIN commits : commits[i] \in BranchCommit
    BY PartialFacts DEF RefsType
  <2>2. \A i \in CommitsOf(b) : commits[i].rec \in Records
    BY <2>1 DEF BranchCommit, CommitsOf
  <2>. QED
    BY <2>2
<1>2. ASSUME NEW r \in D
      PROVE  LatestOn(b, r) \in DOMAIN commits
  <2>1. CommitsOn(b, r) # {}
    BY DEF CommitsOn
  <2>. QED
    BY <2>1, LatestIsCommit DEF CommitsOn, CommitsOf
<1>3. DOMAIN commits \subseteq CommitIds
  BY PartialFacts DEF RefsType
<1>4. Latest(b) \in [D -> CommitIds]
  BY <1>2, <1>3 DEF Latest
<1>. QED
  BY <1>1, <1>2, <1>4, PartialFacts DEF Latest

(* Commits are only ever added.                                            *)
Grows(cs, new) ==
  DOMAIN cs \subseteq DOMAIN new /\ \A i \in DOMAIN cs : new[i] = cs[i]

(* A draft stays right when commits are added.                             *)
LEMMA DraftStable ==
  ASSUME NEW cs, NEW new, Grows(cs, new), NEW c, DraftOK(c, cs)
  PROVE  DraftOK(c, new)
BY DEF DraftOK, Grows, OnLine

(* So does what a user is at, when pull requests are added too.            *)
LEMMA TaskStable ==
  ASSUME NEW cs, NEW new, Grows(cs, new), NEW ps, NEW newPs, DOMAIN ps \subseteq DOMAIN newPs,
         NEW t, TaskOK(t, cs, ps)
  PROVE  TaskOK(t, new, newPs)
<1>1. \A i \in 1 .. Len(t.plans) : DraftOK(t.plans[i].commit, new)
  BY DraftStable DEF TaskOK
<1>2. \A r \in DOMAIN t.latest : t.latest[r] \in DOMAIN new /\ new[t.latest[r]] = cs[t.latest[r]]
  BY DEF TaskOK, Grows
<1>3. t.pc = "put_head" => t.head \in DOMAIN new /\ new[t.head].branch = t.branch
  BY DEF TaskOK, Grows
<1>. QED
  BY <1>1, <1>2, <1>3 DEF TaskOK

-----------------------------------------------------------------------------
(***************************************************************************)
(* Steps of a user that change nothing but what it remembers.              *)
(***************************************************************************)
NoNewPlans(t, new) ==
  Len(new.plans) = 0 \/ new.plans = t.plans

Moves(u, new) ==
  /\ task' = [task EXCEPT ![u] = new]
  /\ new \in Task
  /\ new.pc \in Opens => task[u].pc \in Opens

(* A step by which no pull request begins to be opened keeps the numbers   *)
(* of pull requests in their bound.                                        *)
LEMMA MovesOpensNone ==
  ASSUME RefsOK, NEW u \in Users, NEW new, Moves(u, new)
  PROVE  PrsOK(task', prs)
<1>1. Opening(task') \in SUBSET Opening(task)
  BY DEF RefsOK, RefsType, Moves, Opening
<1>2. /\ IsFiniteSet(Opening(task')) /\ Cardinality(Opening(task')) \in Nat
      /\ Cardinality(Opening(task)) \in Nat
      /\ Cardinality(Opening(task')) <= Cardinality(Opening(task))
  BY <1>1, FS_Subset, FS_CardinalityType DEF RefsOK, PrsOK
<1>3. PICK n \in Nat : DOMAIN prs = 1 .. n /\ n + Cardinality(Opening(task)) <= MaxPrs
  BY DEF RefsOK, PrsOK
<1>4. n + Cardinality(Opening(task')) <= MaxPrs
  BY <1>2, <1>3, RefBoundAssumption
<1>. QED
  BY <1>2, <1>3, <1>4 DEF PrsOK

(* A user that plans nothing new disturbs nobody, if it only adds to the   *)
(* PRs and these are still in order.                                       *)
LEMMA TaskKeeps ==
  ASSUME RefsOK, NEW u \in Users, NEW new \in Task, task' = [task EXCEPT ![u] = new],
         NoNewPlans(task[u], new), UNCHANGED <<branches, commits>>,
         prs' \in Partial(Nat, PrType), DOMAIN prs \subseteq DOMAIN prs',
         PrsOK(task', prs'), TaskOK(new, commits, prs')
  PROVE  RefsOK'
<1>1. task' \in [Users -> Task] /\ task'[u] = new /\ \A v \in Users \ {u} : task'[v] = task[v]
  BY DEF RefsOK, RefsType
<1>2. RefsType'
  BY <1>1 DEF RefsOK, RefsType
<1>3. FreshPlans(task', commits')
  <2>1. \A v \in Users : Len(task'[v].plans) = 0 \/ task'[v].plans = task[v].plans
    BY <1>1 DEF NoNewPlans
  <2>2. \A v \in Users : \A i \in 1 .. Len(task'[v].plans) :
          i \in 1 .. Len(task[v].plans) /\ task'[v].plans = task[v].plans
    BY <2>1
  <2>. QED
    BY <2>2 DEF RefsOK, FreshPlans
<1>4. ASSUME NEW v \in Users
      PROVE  TaskOK(task'[v], commits', prs')
  <2>1. CASE v = u
    BY <1>1, <2>1
  <2>2. CASE v # u
    <3>1. TaskOK(task[v], commits, prs) /\ Grows(commits, commits)
      BY DEF RefsOK, Grows
    <3>2. TaskOK(task[v], commits, prs')
      BY <3>1, TaskStable
    <3>. QED
      BY <1>1, <2>2, <3>2
  <2>. QED
    BY <2>1, <2>2
<1>5. HeadIsOnBranch' /\ CommitsOK(commits')
  BY DEF RefsOK, HeadIsOnBranch, CommitsOf
<1>. QED
  BY <1>2, <1>3, <1>4, <1>5 DEF RefsOK

(* A step that leaves the refs alone, and plans nothing new, keeps the     *)
(* invariant of the refs.                                                  *)
LEMMA MovesKeeps ==
  ASSUME RefsOK, NEW u \in Users, NEW new, Moves(u, new), NoNewPlans(task[u], new),
         TaskOK(new, commits, prs), UNCHANGED refVars
  PROVE  RefsOK'
<1>1. prs' \in Partial(Nat, PrType) /\ UNCHANGED <<branches, commits, prs>>
  BY DEF RefsOK, RefsType, refVars
<1>2. PrsOK(task', prs')
  BY <1>1, MovesOpensNone
<1>. QED
  BY <1>1, <1>2, TaskKeeps DEF Moves

(* The tasks that remember nothing.                                        *)
LEMMA NoTaskOK ==
  ASSUME NEW pc \in {"idle", "done"}, NEW cs, NEW ps
  PROVE  /\ [NoTask EXCEPT !.pc = pc] \in Task /\ NoTask \in Task
         /\ TaskOK([NoTask EXCEPT !.pc = pc], cs, ps)
         /\ Len([NoTask EXCEPT !.pc = pc].plans) = 0
         /\ [NoTask EXCEPT !.pc = pc].pc = pc /\ NoTask.pc = "idle"
<1>1. NoTask \in Task
  BY PartialFacts, EmptySeq DEF NoTask, Task, Tasks, HeadType, NoHead
<1>2. [NoTask EXCEPT !.pc = pc] \in Task
  BY <1>1 DEF Task, Tasks
<1>. DEFINE t == [NoTask EXCEPT !.pc = pc]
<1>3. /\ t.pc = pc /\ t.plans = <<>> /\ Len(t.plans) = 0
      /\ DOMAIN t.latest = {} /\ DOMAIN t.items = {}
  BY EmptySeq, PartialFacts DEF NoTask
<1>4. TaskOK(t, cs, ps)
  BY <1>3 DEF TaskOK, AtBranch, AtPr
<1>. QED
  BY <1>1, <1>2, <1>3, <1>4 DEF NoTask

(* A command that returns leaves the user idle.                            *)
LEMMA ReturnStep ==
  ASSUME RefsOK, NEW u \in Users, Return(u), UNCHANGED refVars
  PROVE  RefsOK'
<1>. DEFINE new == [NoTask EXCEPT !.pc = "done"]
<1>1. Moves(u, new)
  BY NoTaskOK DEF Return, Moves, Opens
<1>. QED
  BY <1>1, NoTaskOK, MovesKeeps DEF NoNewPlans

(* So does a process that dies, at whichever of its writes.                *)
LEMMA DieStep ==
  ASSUME RefsOK, NEW u \in Users, Die(u)
  PROVE  RefsOK'
<1>1. NoTask = [NoTask EXCEPT !.pc = "idle"]
  BY DEF NoTask
<1>2. Moves(u, NoTask) /\ UNCHANGED refVars
  BY <1>1, NoTaskOK DEF Die, Moves, refVars, Opens
<1>. QED
  BY <1>1, <1>2, NoTaskOK, MovesKeeps DEF NoNewPlans

(* A guard that passed: the command goes on to its next call.              *)
LEMMA StepStep ==
  ASSUME RefsOK, NEW u \in Users,
         NEW pc \in {"create_base", "put_branch", "delete_prs", "delete_branch", "pr_latest",
                     "put_closed", "merge_branch", "merge_latest"},
         Step(u, pc), UNCHANGED refVars,
         pc \in AtBranch => task[u].pc \in AtBranch, pc \in AtPr => task[u].pc \in AtPr,
         pc \in Opens => task[u].pc \in Opens,
         task[u].pc \notin {"merge_live", "merge_head", "merge_apply"}
  PROVE  RefsOK'
<1>. DEFINE t == task[u]  new == [t EXCEPT !.pc = pc]
<1>1. t \in Task /\ TaskOK(t, commits, prs)
  BY DEF RefsOK, RefsType
<1>2. new \in Task
  BY <1>1 DEF Task, Tasks
<1>3. /\ new.pc = pc /\ new.branch = t.branch /\ new.pr = t.pr /\ new.plans = t.plans
      /\ new.latest = t.latest /\ new.items = t.items
  BY <1>1 DEF Task
<1>4. Moves(u, new)
  BY <1>2, <1>3 DEF Step, Moves
<1>5. TaskOK(new, commits, prs)
  BY <1>1, <1>3 DEF TaskOK
<1>. QED
  BY <1>3, <1>4, <1>5, MovesKeeps DEF NoNewPlans

(* A command begins, with what its caller gives it.                        *)
LEMMA BeginStep ==
  ASSUME RefsOK, NEW u \in Users, NEW new \in Task, Begin(u, new), new.pc \notin Opens,
         new.plans = <<>>, DOMAIN new.latest = {}, DOMAIN new.items = {},
         new.pc \in {"create", "delete", "require", "close", "merge"},
         new.pc \in AtBranch => new.branch \in BranchNames,
         new.pc \in AtPr => new.pr \in DOMAIN prs
  PROVE  RefsOK'
<1>1. Moves(u, new) /\ UNCHANGED refVars
  BY DEF Begin, Moves
<1>2. Len(new.plans) = 0
  BY EmptySeq
<1>3. TaskOK(new, commits, prs)
  BY <1>2 DEF TaskOK
<1>. QED
  BY <1>1, <1>2, <1>3, MovesKeeps DEF NoNewPlans

(* Any command but pr create.                                              *)
LEMMA StartStep ==
  ASSUME RefsOK, NEW u \in Users,
         \/ \E b \in BranchNames :
              \/ \E base \in BranchNames \cup {Main} : StartBranchCreate(u, b, base)
              \/ StartBranchDelete(u, b)
              \/ \E S \in SUBSET Records \ {{}} : \E docs \in [S -> Doc] :
                   StartBranchCommit(u, b, docs)
         \/ \E p \in DOMAIN prs : StartPrClose(u, p) \/ StartPrMerge(u, p)
  PROVE  RefsOK'
<1>1. /\ NoTask \in Task /\ NoTask.plans = <<>> /\ DOMAIN NoTask.latest = {}
      /\ DOMAIN NoTask.items = {} /\ NoTask = [NoTask EXCEPT !.pc = "idle"]
  BY NoTaskOK, PartialFacts DEF NoTask
<1>2. ASSUME NEW b \in BranchNames, NEW base \in BranchNames \cup {Main},
             StartBranchCreate(u, b, base)
      PROVE  RefsOK'
  <2>. DEFINE new == [NoTask EXCEPT !.pc = "create", !.branch = b, !.base = base]
  <2>1. new \in Task
    BY <1>1 DEF Task, Tasks
  <2>2. /\ new.pc = "create" /\ new.branch = b /\ new.plans = <<>>
        /\ DOMAIN new.latest = {} /\ DOMAIN new.items = {}
    BY <1>1 DEF NoTask
  <2>3. Begin(u, new)
    BY <1>2 DEF StartBranchCreate
  <2>. QED
    BY <2>1, <2>2, <2>3, BeginStep DEF AtPr, Opens
<1>3. ASSUME NEW b \in BranchNames, StartBranchDelete(u, b)
      PROVE  RefsOK'
  <2>. DEFINE new == [NoTask EXCEPT !.pc = "delete", !.branch = b]
  <2>1. new \in Task
    BY <1>1 DEF Task, Tasks
  <2>2. /\ new.pc = "delete" /\ new.branch = b /\ new.plans = <<>>
        /\ DOMAIN new.latest = {} /\ DOMAIN new.items = {}
    BY <1>1 DEF NoTask
  <2>3. Begin(u, new)
    BY <1>3 DEF StartBranchDelete
  <2>. QED
    BY <2>1, <2>2, <2>3, BeginStep DEF AtPr, Opens
<1>4. ASSUME NEW b \in BranchNames, NEW S \in SUBSET Records, NEW docs \in [S -> Doc],
             StartBranchCommit(u, b, docs)
      PROVE  RefsOK'
  <2>. DEFINE new == [NoTask EXCEPT !.pc = "require", !.branch = b, !.todo = docs]
  <2>1. new \in Task
    <3>1. docs \in Partial(Records, Doc)
      BY PartialFacts
    <3>2. NoTask \in Task
      BY <1>1
    <3>. HIDE DEF NoTask
    <3>. QED
      BY <3>1, <3>2 DEF Task, Tasks
  <2>2. /\ new.pc = "require" /\ new.branch = b /\ new.plans = <<>>
        /\ DOMAIN new.latest = {} /\ DOMAIN new.items = {}
    BY <1>1 DEF NoTask
  <2>3. Begin(u, new)
    BY <1>4 DEF StartBranchCommit
  <2>. QED
    BY <2>1, <2>2, <2>3, BeginStep DEF AtPr, Opens
<1>5. ASSUME NEW p \in DOMAIN prs, NEW pc \in {"close", "merge"},
             Begin(u, [NoTask EXCEPT !.pc = pc, !.pr = p])
      PROVE  RefsOK'
  <2>. DEFINE new == [NoTask EXCEPT !.pc = pc, !.pr = p]
  <2>1. p \in Nat
    BY PartialFacts DEF RefsOK, RefsType
  <2>2. new \in Task
    BY <1>1, <2>1 DEF Task, Tasks
  <2>3. /\ new.pc = pc /\ new.pr = p /\ new.plans = <<>>
        /\ DOMAIN new.latest = {} /\ DOMAIN new.items = {}
    BY <1>1 DEF NoTask
  <2>. QED
    BY <1>5, <2>2, <2>3, BeginStep DEF AtBranch, Opens
<1>. QED
  BY <1>2, <1>3, <1>4, <1>5 DEF StartPrClose, StartPrMerge

(* The reads of the refs that are only tested.                             *)
LEMMA TestStep ==
  ASSUME RefsOK, NEW u \in Users,
         \/ CheckNew(u) \/ CheckBase(u) \/ CheckThere(u) \/ CheckPrs(u)
         \/ ReadLog(u) \/ ReadPr(u) \/ CheckOpen(u) \/ CheckBranch(u)
  PROVE  RefsOK'
<1>1. UNCHANGED refVars
  BY DEF CheckNew, CheckBase, CheckThere, CheckPrs, ReadLog, ReadPr, CheckOpen, CheckBranch, Reads
<1>2. CASE Return(u)
  BY <1>1, <1>2, ReturnStep
<1>3. CASE ~Return(u)
  <2>1. PICK pc \in {"create_base", "put_branch", "delete_prs", "delete_branch", "pr_latest",
                     "put_closed", "merge_branch", "merge_latest"} :
          /\ Step(u, pc)
          /\ pc \in AtBranch => task[u].pc \in AtBranch
          /\ pc \in AtPr => task[u].pc \in AtPr
          /\ pc \in Opens => task[u].pc \in Opens
          /\ task[u].pc \notin {"merge_live", "merge_head", "merge_apply"}
    BY <1>3 DEF CheckNew, CheckBase, CheckThere, CheckPrs, ReadLog, ReadPr, CheckOpen,
                CheckBranch, AtBranch, AtPr, Opens
  <2>. QED
    BY <1>1, <2>1, StepStep
<1>. QED
  BY <1>2, <1>3

(* What is known of a task of a user.                                      *)
LEMMA TaskFacts ==
  ASSUME RefsOK, NEW u \in Users, NEW t, t = task[u]
  PROVE  /\ t \in Task /\ TaskOK(t, commits, prs)
         /\ t.todo \in Partial(Records, Doc)
         /\ DOMAIN t.todo \subseteq Records /\ \A r \in DOMAIN t.todo : t.todo[r] \in Doc
         /\ t.latest \in Partial(Records, CommitIds)
         /\ DOMAIN t.latest \subseteq Records
         /\ t.items \in Partial(Records, MergeItemType)
         /\ t.results \in Partial(Records, Nat)
         /\ t.plans \in Seq(Plan) /\ Len(t.plans) \in Nat
<1>1. t \in Task /\ TaskOK(t, commits, prs)
  BY DEF RefsOK, RefsType
<1>2. /\ t.todo \in Partial(Records, Doc) /\ t.latest \in Partial(Records, CommitIds)
      /\ t.items \in Partial(Records, MergeItemType) /\ t.results \in Partial(Records, Nat)
      /\ t.plans \in Seq(Plan)
  BY <1>1 DEF Task
<1>. QED
  BY <1>1, <1>2, PartialFacts

(* branch commit reads its branch, and a PR its.                           *)
LEMMA RequireStep ==
  ASSUME RefsOK, NEW u \in Users, Require(u) \/ ReadBranch(u)
  PROVE  RefsOK'
<1>. DEFINE t == task[u]
<1>1. UNCHANGED refVars
  BY DEF Require, ReadBranch, Reads
<1>2. CASE Return(u)
  BY <1>1, <1>2, ReturnStep
<1>3. ASSUME NEW pc \in {"plan_live", "pr_log"}, t.branch \in DOMAIN branches,
             pc = "plan_live" => t.pc = "require", pc = "pr_log" => t.pc = "pr_branch",
             task' = [task EXCEPT ![u].pc = pc, ![u].head = branches[t.branch]]
      PROVE  RefsOK'
  <2>. DEFINE new == [t EXCEPT !.pc = pc, !.head = branches[t.branch]]
  <2>1. t \in Task /\ TaskOK(t, commits, prs)
    BY TaskFacts
  <2>2. branches[t.branch] \in CommitIds \cup {None}
    BY <1>3, PartialFacts DEF RefsOK, RefsType
  <2>3. new \in Task
    BY <2>1, <2>2 DEF Task, Tasks
  <2>4. /\ new.pc = pc /\ new.branch = t.branch /\ new.plans = t.plans
        /\ new.latest = t.latest /\ new.items = t.items
    BY <2>1 DEF Task
  <2>5. TaskOK(new, commits, prs)
    BY <1>3, <2>1, <2>4 DEF TaskOK, AtBranch, AtPr
  <2>6. Moves(u, new)
    BY <1>3, <2>3, <2>4 DEF Moves, Opens
  <2>. QED
    BY <1>1, <2>4, <2>5, <2>6, MovesKeeps DEF NoNewPlans
<1>. QED
  BY <1>2, <1>3 DEF Require, ReadBranch

(* _plan_branch_commit reads the live record.                              *)
LEMMA PlanLiveStep ==
  ASSUME StoreOK, RefsOK, NEW u \in Users, PlanLive(u)
  PROVE  RefsOK'
<1>. DEFINE t == task[u]
<1>1. UNCHANGED refVars
  BY DEF PlanLive, Reads
<1>2. CASE Return(u)
  BY <1>1, <1>2, ReturnStep
<1>3. CASE ~Return(u)
  <2>1. PICK r \in DOMAIN t.todo :
          /\ live[r] # None
          /\ task' = [task EXCEPT ![u].pc = "plan_head", ![u].rec = r, ![u].live = live[r]]
    BY <1>3 DEF PlanLive
  <2>. DEFINE new == [t EXCEPT !.pc = "plan_head", !.rec = r, !.live = live[r]]
  <2>2. t \in Task /\ TaskOK(t, commits, prs) /\ r \in Records /\ t.pc = "plan_live"
    BY TaskFacts DEF PlanLive
  <2>3. live[r] \in Doc
    BY <2>1, <2>2 DEF StoreOK
  <2>4. new \in Task
    BY <2>2, <2>3 DEF Task, Tasks
  <2>5. /\ new.pc = "plan_head" /\ new.branch = t.branch /\ new.plans = t.plans
        /\ new.latest = t.latest /\ new.items = t.items /\ new.todo = t.todo
        /\ new.rec = r /\ new.live = live[r]
    BY <2>2 DEF Task
  <2>6. TaskOK(new, commits, prs)
    BY <2>2, <2>3, <2>5 DEF TaskOK, AtBranch, AtPr
  <2>7. Moves(u, new)
    BY <2>1, <2>4, <2>5 DEF Moves, Opens
  <2>. QED
    BY <1>1, <2>5, <2>6, <2>7, MovesKeeps DEF NoNewPlans
<1>. QED
  BY <1>2, <1>3

(* _plan_branch_commit reads HEAD, and the draft of the record is          *)
(* complete.                                                               *)
LEMMA PlanHeadStep ==
  ASSUME StoreOK, RefsOK, NEW u \in Users, PlanHead(u)
  PROVE  RefsOK'
<1>. DEFINE t == task[u]  head == GetHead(t.rec)
<1>1. UNCHANGED refVars
  BY DEF PlanHead, Reads
<1>2. CASE Return(u)
  BY <1>1, <1>2, ReturnStep
<1>3. CASE ~Return(u)
  <2>1. /\ t.pc = "plan_head"
        /\ task' = [task EXCEPT ![u].pc = "plan_latest", ![u].main = head]
    BY <1>3 DEF PlanHead
  <2>. DEFINE new == [t EXCEPT !.pc = "plan_latest", !.main = head]
  <2>2. t \in Task /\ TaskOK(t, commits, prs) /\ t.rec \in Records
    BY <2>1, TaskFacts DEF TaskOK
  <2>3. head \in HeadType
    BY <2>2, GetHeadIsPointer
  <2>4. new \in Task
    BY <2>2, <2>3 DEF Task, Tasks
  <2>5. /\ new.pc = "plan_latest" /\ new.branch = t.branch /\ new.plans = t.plans
        /\ new.latest = t.latest /\ new.items = t.items /\ new.todo = t.todo
        /\ new.rec = t.rec /\ new.live = t.live
    BY <2>2 DEF Task
  <2>6. TaskOK(new, commits, prs)
    BY <2>1, <2>2, <2>5 DEF TaskOK, AtBranch, AtPr
  <2>7. Moves(u, new)
    BY <2>1, <2>4, <2>5 DEF Moves, Opens
  <2>. QED
    BY <1>1, <2>5, <2>6, <2>7, MovesKeeps DEF NoNewPlans
<1>. QED
  BY <1>2, <1>3

(* The draft that is made of what was read.                                *)
LEMMA DraftIsOK ==
  ASSUME StoreOK, RefsOK, NEW u \in Users, NEW t, t = task[u], t.pc = "plan_latest",
         ~Noop(Draft(t))
  PROVE  /\ Draft(t) \in BranchCommit
         /\ Draft(t).branch = t.branch
         /\ DraftOK(Draft(t), commits)
<1>. DEFINE d == t.todo[t.rec]  b == t.branch  r == t.rec
<1>1. /\ t \in Task /\ TaskOK(t, commits, prs) /\ r \in DOMAIN t.todo /\ r \in Records
      /\ d \in Doc /\ b \in BranchNames /\ t.live \in Doc
  <2>1. /\ t \in Task /\ TaskOK(t, commits, prs)
        /\ DOMAIN t.todo \subseteq Records /\ \A x \in DOMAIN t.todo : t.todo[x] \in Doc
    BY TaskFacts
  <2>2. r \in DOMAIN t.todo /\ b \in BranchNames /\ t.live \in Doc
    BY <2>1 DEF TaskOK, AtBranch
  <2>. QED
    BY <2>1, <2>2
<1>2. /\ t.main.oid \in Bodies \cup {None}
      /\ StoredDoc(d) \in Doc /\ HashDoc(d) \in Bodies /\ HashDoc(t.live) \in Bodies
      /\ clock \in Nat /\ clock <= MaxClock
  BY <1>1, StoredIsDoc, ClockAssumption DEF Task, HeadType, StoreOK
<1>3. CASE CommitsOn(b, r) = {}
  <2>1. ParentId(b, r) = None /\ ParentOid(b, r, t.main) = t.main.oid
    BY <1>3 DEF ParentId, ParentOid
  <2>. QED
    BY <1>1, <1>2, <2>1 DEF Draft, Noop, BranchCommit, DraftOK
<1>4. CASE CommitsOn(b, r) # {}
  <2>. DEFINE i == LatestOn(b, r)
  <2>1. i \in CommitsOn(b, r)
    BY <1>4, LatestIsCommit DEF RefsOK
  <2>2. i \in DOMAIN commits /\ commits[i].branch = b /\ commits[i].rec = r
    BY <2>1 DEF CommitsOn, CommitsOf
  <2>3. i \in CommitIds /\ commits[i] \in BranchCommit
    BY <2>2, PartialFacts DEF RefsOK, RefsType
  <2>4. i # None /\ commits[i].oid \in Bodies
    BY <2>3, RefBoundAssumption, NoneAssumption DEF CommitIds, BranchCommit
  <2>5. ParentId(b, r) = i /\ ParentOid(b, r, t.main) = commits[i].oid
    BY <1>4, <2>4 DEF ParentId, ParentOid
  <2>. QED
    BY <1>1, <1>2, <2>2, <2>3, <2>4, <2>5 DEF Draft, Noop, BranchCommit, DraftOK, OnLine
<1>. QED
  BY <1>3, <1>4

(* The last of the plans of a record.                                      *)
LEMMA PlanLatestStep ==
  ASSUME StoreOK, RefsOK, NEW u \in Users, PlanLatest(u)
  PROVE  RefsOK'
<1>. DEFINE t == task[u]  draft == Draft(t)
            pc == IF DOMAIN t.todo = {t.rec} THEN "put_commits" ELSE "plan_live"
            planned == [t EXCEPT !.todo = DeleteRef(t.todo, t.rec), !.rec = None,
                                 !.live = None, !.main = NoHead, !.pc = pc]
<1>1. UNCHANGED refVars /\ t.pc = "plan_latest"
  BY DEF PlanLatest, Reads
<1>2. t \in Task /\ TaskOK(t, commits, prs) /\ t.branch \in BranchNames
  BY <1>1, TaskFacts DEF TaskOK, AtBranch
<1>3. DeleteRef(t.todo, t.rec) \in Partial(Records, Doc)
  BY TaskFacts, DeleteIsPartial
<1>6. pc \in {"put_commits", "plan_live"} /\ pc \notin Opens
  BY DEF Opens
<1>. DEFINE todo == DeleteRef(t.todo, t.rec)
<1>10. planned = [t EXCEPT !.todo = todo, !.rec = None, !.live = None, !.main = NoHead,
                           !.pc = pc]
  OBVIOUS
<1>. HIDE DEF pc, todo, draft
<1>11. pc \in Tasks /\ NoHead \in HeadType
  BY <1>6 DEF Tasks, HeadType, NoHead
<1>4. planned \in Task
  BY <1>2, <1>3, <1>10, <1>11 DEF Task, todo
<1>5. /\ planned.pc = pc /\ planned.branch = t.branch /\ planned.plans = t.plans
      /\ planned.latest = t.latest /\ planned.items = t.items
  BY <1>2, <1>10 DEF Task
<1>12. DOMAIN t.items = {}
  BY <1>1, <1>2 DEF TaskOK
<1>. HIDE DEF planned
<1>7. CASE Return(u)
  BY <1>1, <1>7, ReturnStep
<1>8. CASE task' = [task EXCEPT ![u] = planned]
  <2>1. TaskOK(planned, commits, prs)
    BY <1>2, <1>5, <1>6, <1>12 DEF TaskOK, AtBranch, AtPr
  <2>2. Moves(u, planned)
    BY <1>4, <1>5, <1>6, <1>8 DEF Moves
  <2>. QED
    BY <1>1, <1>5, <2>1, <2>2, MovesKeeps DEF NoNewPlans
<1>9. ASSUME ~Noop(draft), NEW id \in FreshIds,
             task' = [task EXCEPT ![u] =
               [planned EXCEPT !.plans = Append(@, [id |-> id, commit |-> draft])]]
      PROVE  RefsOK'
  <2>. DEFINE p == [id |-> id, commit |-> draft]  plans == Append(t.plans, p)
              n == Len(t.plans)
              new == [planned EXCEPT !.plans = Append(@, p)]
  <2>1. draft \in BranchCommit /\ draft.branch = t.branch /\ DraftOK(draft, commits)
    BY <1>1, <1>9, DraftIsOK DEF draft
  <2>2. id \in CommitIds /\ id \notin DOMAIN commits
        /\ \A v \in Users : \A i \in DOMAIN task[v].plans : task[v].plans[i].id # id
    BY <1>9 DEF FreshIds
  <2>3. p \in Plan /\ t.plans \in Seq(Plan) /\ n \in Nat
    BY <2>1, <2>2, TaskFacts DEF Plan
  <2>4. /\ plans \in Seq(Plan) /\ Len(plans) = n + 1 /\ plans[n + 1] = p
        /\ \A i \in 1 .. n : plans[i] = t.plans[i]
    BY <2>3, AppendProperties
  <2>. HIDE DEF p
  <2>5. new = [planned EXCEPT !.plans = plans]
    BY <1>5
  <2>6. /\ new.pc = pc /\ new.branch = t.branch /\ new.plans = plans
        /\ new.latest = t.latest /\ new.items = t.items /\ new \in Task
    <3>. HIDE DEF plans
    <3>. QED
      BY <1>4, <1>5, <2>4, <2>5 DEF Task
  <2>7. ASSUME NEW i \in 1 .. Len(plans)
        PROVE  plans[i].commit.branch = t.branch /\ DraftOK(plans[i].commit, commits)
    <3>1. CASE i = n + 1
      BY <2>1, <2>4, <3>1 DEF p
    <3>2. CASE i \in 1 .. n
      BY <1>2, <2>4, <3>2 DEF TaskOK
    <3>. QED
      BY <2>3, <2>4, <3>1, <3>2
  <2>8. TaskOK(new, commits, prs)
    <3>. HIDE DEF new, plans
    <3>. QED
      BY <1>2, <1>6, <1>12, <2>6, <2>7 DEF TaskOK, AtBranch, AtPr
  <2>9. Moves(u, new)
    BY <1>6, <1>9, <2>6 DEF Moves, p
  <2>10. /\ task' \in [Users -> Task] /\ task'[u].plans = plans
         /\ \A v \in Users \ {u} : task'[v] = task[v]
    BY <2>6, <2>9 DEF Moves, RefsOK, RefsType
  <2>11. ASSUME NEW v \in Users, NEW i \in 1 .. Len(task'[v].plans)
         PROVE  \/ v = u /\ i = n + 1 /\ task'[v].plans[i].id = id
                \/ i \in 1 .. Len(task[v].plans) /\ task'[v].plans[i] = task[v].plans[i]
    <3>1. CASE v = u
      <4>1. task'[v].plans = plans /\ Len(plans) = n + 1
        BY <2>4, <2>10, <3>1
      <4>2. i = n + 1 \/ i \in 1 .. n
        BY <2>3, <4>1
      <4>. QED
        BY <2>4, <3>1, <4>1, <4>2 DEF p
    <3>2. CASE v # u
      BY <2>10, <3>2
    <3>. QED
      BY <3>1, <3>2
  <2>12. \A v \in Users : \A i \in 1 .. Len(task[v].plans) : task[v].plans[i].id # id
    <3>1. \A v \in Users : task[v].plans \in Seq(Plan)
      BY TaskFacts
    <3>2. \A v \in Users : DOMAIN task[v].plans = 1 .. Len(task[v].plans)
      BY <3>1
    <3>. QED
      BY <2>2, <3>2
  <2>13. FreshPlans(task', commits)
    <3>1. ASSUME NEW v \in Users, NEW i \in 1 .. Len(task'[v].plans)
          PROVE  task'[v].plans[i].id \notin DOMAIN commits
      BY <2>2, <2>11 DEF FreshPlans, RefsOK
    <3>2. ASSUME NEW v \in Users, NEW i \in 1 .. Len(task'[v].plans),
                 NEW w \in Users, NEW j \in 1 .. Len(task'[w].plans),
                 task'[v].plans[i].id = task'[w].plans[j].id
          PROVE  v = w /\ i = j
      <4>1. \/ v = u /\ i = n + 1 /\ task'[v].plans[i].id = id
            \/ i \in 1 .. Len(task[v].plans) /\ task'[v].plans[i] = task[v].plans[i]
        BY <2>11
      <4>2. \/ w = u /\ j = n + 1 /\ task'[w].plans[j].id = id
            \/ j \in 1 .. Len(task[w].plans) /\ task'[w].plans[j] = task[w].plans[j]
        BY <2>11
      <4>3. CASE i \in 1 .. Len(task[v].plans) /\ task'[v].plans[i] = task[v].plans[i]
        <5>1. task'[v].plans[i].id # id
          BY <2>12, <4>3
        <5>2. j \in 1 .. Len(task[w].plans) /\ task'[w].plans[j] = task[w].plans[j]
          BY <3>2, <4>2, <5>1
        <5>3. task[v].plans[i].id = task[w].plans[j].id
          BY <3>2, <4>3, <5>2
        <5>. QED
          BY <4>3, <5>2, <5>3 DEF FreshPlans, RefsOK
      <4>4. CASE v = u /\ i = n + 1 /\ task'[v].plans[i].id = id
        <5>1. task'[w].plans[j].id = id
          BY <3>2, <4>4
        <5>2. w = u /\ j = n + 1
          BY <2>12, <4>2, <5>1
        <5>. QED
          BY <4>4, <5>2
      <4>. QED
        BY <4>1, <4>3, <4>4
    <3>. QED
      BY <3>1, <3>2 DEF FreshPlans
  <2>14. \A v \in Users : TaskOK(task'[v], commits, prs)
    BY <2>6, <2>8, <2>9, <2>10 DEF RefsOK, Moves, RefsType
  <2>15. PrsOK(task', prs)
    BY <2>9, MovesOpensNone
  <2>. QED
    BY <1>1, <2>10, <2>13, <2>14, <2>15
    DEF RefsOK, RefsType, refVars, HeadIsOnBranch, CommitsOf
<1>. QED
  BY <1>7, <1>8, <1>9 DEF PlanLatest, planned, pc, todo, draft

(* A new commit is a tip, as nobody could know its id; and the tip of its  *)
(* record it may follow is one no more, but it is.                         *)
LEMMA NewCommitOK ==
  ASSUME RefsType, CommitsOK(commits), NEW id \in CommitIds, id \notin DOMAIN commits,
         NEW c \in BranchCommit, DraftOK(c, commits)
  PROVE  /\ CommitsOK(PutRef(commits, id, c)) /\ Grows(commits, PutRef(commits, id, c))
<1>. DEFINE new == PutRef(commits, id, c)
<1>1. /\ new \in Partial(CommitIds, BranchCommit)
      /\ DOMAIN new = DOMAIN commits \cup {id} /\ new[id] = c
      /\ \A i \in DOMAIN commits : new[i] = commits[i]
  <2>1. commits \in Partial(CommitIds, BranchCommit)
    BY DEF RefsType
  <2>2. new \in Partial(CommitIds, BranchCommit) /\ IsPut(new, commits, id, c)
    BY <2>1, PutIsPartial
  <2>. QED
    BY <2>2 DEF IsPut
<1>2. Grows(commits, new)
  BY <1>1 DEF Grows
<1>3. \A i \in DOMAIN new : DraftOK(new[i], new)
  BY <1>1, <1>2, DraftStable DEF CommitsOK
<1>4. id # None
  BY RefBoundAssumption, NoneAssumption DEF CommitIds
<1>5. IsTip(id, new)
  <2>1. \A k \in DOMAIN commits : commits[k].parentId # id
    BY <1>4 DEF CommitsOK, DraftOK
  <2>2. c.parentId # id
    BY <1>4 DEF DraftOK
  <2>. QED
    BY <1>1, <2>1, <2>2 DEF IsTip
<1>6. ASSUME NEW i \in DOMAIN new
      PROVE  \E j \in DOMAIN new : OnLine(new[j], new[i]) /\ IsTip(j, new)
  <2>1. CASE OnLine(c, new[i])
    BY <1>1, <1>5, <2>1
  <2>2. CASE ~OnLine(c, new[i])
    <3>1. i # id /\ i \in DOMAIN commits
      BY <1>1, <2>2 DEF OnLine
    <3>2. PICK j \in DOMAIN commits : OnLine(commits[j], commits[i]) /\ IsTip(j, commits)
      BY <3>1 DEF CommitsOK
    <3>3. ~OnLine(c, commits[j])
      BY <1>1, <2>2, <3>1, <3>2 DEF OnLine
    <3>4. IsTip(j, new)
      BY <1>1, <3>2, <3>3 DEF IsTip
    <3>. QED
      BY <1>1, <3>1, <3>2, <3>4
  <2>. QED
    BY <2>1, <2>2
<1>. QED
  BY <1>2, <1>3, <1>6 DEF CommitsOK

(* branch_commit writes its commits, under ids that are new.               *)
LEMMA PutCommitsStep ==
  ASSUME RefsOK, NEW u \in Users, PutCommits(u)
  PROVE  RefsOK'
<1>. DEFINE t == task[u]
<1>1. CASE t.plans = <<>>
  BY <1>1, ReturnStep DEF PutCommits
<1>2. CASE t.plans # <<>>
  <2>. DEFINE p == Head(t.plans)  pc == IF Len(t.plans) = 1 THEN "put_head" ELSE "put_commits"
              new == [t EXCEPT !.plans = Tail(@), !.head = p.id, !.pc = pc]
  <2>1. /\ t.pc = "put_commits" /\ commits' = PutRef(commits, p.id, p.commit)
        /\ task' = [task EXCEPT ![u].plans = Tail(@), ![u].head = p.id, ![u].pc = pc]
        /\ UNCHANGED <<branches, prs>>
    BY <1>2 DEF PutCommits
  <2>2. t \in Task /\ TaskOK(t, commits, prs) /\ t.plans \in Seq(Plan)
    BY TaskFacts
  <2>3. /\ Tail(t.plans) \in Seq(Plan) /\ Len(t.plans) \in Nat \ {0}
        /\ Len(Tail(t.plans)) = Len(t.plans) - 1
        /\ \A i \in 1 .. Len(Tail(t.plans)) : Tail(t.plans)[i] = t.plans[i + 1]
        /\ p = t.plans[1] /\ p \in Plan
    BY <1>2, <2>2, HeadTailProperties
  <2>4. 1 \in 1 .. Len(t.plans)
    BY <2>3
  <2>5. /\ p.id \in CommitIds /\ p.id \notin DOMAIN commits /\ p.commit \in BranchCommit
        /\ DraftOK(p.commit, commits) /\ p.commit.branch = t.branch
    BY <2>2, <2>3, <2>4 DEF Plan, TaskOK, RefsOK, FreshPlans
  <2>6. CommitsOK(commits') /\ Grows(commits, commits')
    BY <2>1, <2>5, NewCommitOK DEF RefsOK
  <2>7. /\ commits' \in Partial(CommitIds, BranchCommit)
        /\ DOMAIN commits' = DOMAIN commits \cup {p.id} /\ commits'[p.id] = p.commit
    <3>1. commits \in Partial(CommitIds, BranchCommit)
      BY DEF RefsOK, RefsType
    <3>2. commits' \in Partial(CommitIds, BranchCommit) /\ IsPut(commits', commits, p.id, p.commit)
      BY <2>1, <2>5, <3>1, PutIsPartial
    <3>. QED
      BY <3>2 DEF IsPut
  <2>8. pc \in {"put_head", "put_commits"}
    OBVIOUS
  <2>9. /\ new.pc = pc /\ new.branch = t.branch /\ new.plans = Tail(t.plans)
        /\ new.latest = t.latest /\ new.items = t.items /\ new.head = p.id
        /\ new \in Task
    <3>. DEFINE plans == Tail(t.plans)  id == p.id
    <3>1. new = [t EXCEPT !.plans = plans, !.head = id, !.pc = pc]
      BY <2>2
    <3>2. plans \in Seq(Plan) /\ id \in CommitIds \cup {None} /\ pc \in Tasks
      BY <2>3, <2>5, <2>8 DEF Tasks
    <3>. HIDE DEF plans, id, pc, new
    <3>3. /\ new.pc = pc /\ new.branch = t.branch /\ new.plans = plans
          /\ new.latest = t.latest /\ new.items = t.items /\ new.head = id
          /\ new \in Task
      BY <2>2, <3>1, <3>2 DEF Task
    <3>. QED
      BY <3>3 DEF plans, id
  <2>10. Moves(u, new)
    <3>. HIDE DEF pc
    <3>. QED
      BY <2>1, <2>8, <2>9 DEF Moves, Opens
  <2>11. TaskOK(t, commits', prs')
    BY <2>1, <2>2, <2>6, TaskStable
  <2>12. ASSUME NEW i \in 1 .. Len(new.plans)
         PROVE  i + 1 \in 1 .. Len(t.plans) /\ new.plans[i] = t.plans[i + 1]
    BY <2>3, <2>9
  <2>13. TaskOK(new, commits', prs')
    <3>. HIDE DEF new, pc
    <3>1. /\ new.pc \in AtBranch /\ new.pc \notin AtPr /\ new.branch \in BranchNames
          /\ new.pc \notin {"plan_head", "plan_latest", "merge_head", "merge_apply"}
      BY <2>1, <2>8, <2>9, <2>11 DEF TaskOK, AtBranch, AtPr
    <3>2. new.head \in DOMAIN commits' /\ commits'[new.head].branch = new.branch
      BY <2>5, <2>7, <2>9
    <3>3. \A i \in 1 .. Len(new.plans) :
            new.plans[i].commit.branch = new.branch /\ DraftOK(new.plans[i].commit, commits')
      BY <2>9, <2>11, <2>12 DEF TaskOK
    <3>4. /\ DOMAIN new.items = {}
          /\ \A r \in DOMAIN new.latest : new.latest[r] \in DOMAIN commits'
          /\ \A r \in DOMAIN new.items :
               r \in DOMAIN new.latest /\ ItemOK(new.items[r], commits'[new.latest[r]])
      BY <2>1, <2>9, <2>11 DEF TaskOK
    <3>. QED
      BY <3>1, <3>2, <3>3, <3>4 DEF TaskOK
  <2>14. /\ task' \in [Users -> Task] /\ task'[u] = new
         /\ \A v \in Users \ {u} : task'[v] = task[v]
    BY <2>10 DEF Moves, RefsOK, RefsType
  <2>15. ASSUME NEW v \in Users
         PROVE  TaskOK(task'[v], commits', prs')
    <3>. HIDE DEF new
    <3>1. CASE v = u
      BY <2>13, <2>14, <3>1
    <3>2. CASE v # u
      <4>1. TaskOK(task[v], commits, prs)
        BY DEF RefsOK
      <4>2. task'[v] = task[v]
        BY <2>14, <3>2
      <4>3. DOMAIN prs \subseteq DOMAIN prs'
        BY <2>1
      <4>4. TaskOK(task[v], commits', prs')
        BY <2>6, <4>1, <4>3, TaskStable
      <4>. QED
        BY <4>2, <4>4
    <3>. QED
      BY <3>1, <3>2
  <2>16. FreshPlans(task', commits')
    <3>1. ASSUME NEW v \in Users, NEW i \in 1 .. Len(task'[v].plans)
          PROVE  \E k \in 1 .. Len(task[v].plans) :
                   /\ task'[v].plans[i] = task[v].plans[k]
                   /\ IF v = u THEN k = i + 1 ELSE k = i
      BY <2>9, <2>12, <2>14
    <3>2. ASSUME NEW v \in Users, NEW i \in 1 .. Len(task'[v].plans)
          PROVE  task'[v].plans[i].id \notin DOMAIN commits'
      <4>1. PICK k \in 1 .. Len(task[v].plans) :
              task'[v].plans[i] = task[v].plans[k] /\ IF v = u THEN k = i + 1 ELSE k = i
        BY <3>1
      <4>2. ~(v = u /\ k = 1)
        BY <4>1
      <4>3. task[v].plans[k].id # p.id
        BY <2>3, <2>4, <4>2 DEF RefsOK, FreshPlans
      <4>. QED
        BY <2>7, <4>1, <4>3 DEF RefsOK, FreshPlans
    <3>3. ASSUME NEW v \in Users, NEW i \in 1 .. Len(task'[v].plans),
                 NEW w \in Users, NEW j \in 1 .. Len(task'[w].plans),
                 task'[v].plans[i].id = task'[w].plans[j].id
          PROVE  v = w /\ i = j
      <4>1. PICK k \in 1 .. Len(task[v].plans) :
              task'[v].plans[i] = task[v].plans[k] /\ IF v = u THEN k = i + 1 ELSE k = i
        BY <3>1
      <4>2. PICK l \in 1 .. Len(task[w].plans) :
              task'[w].plans[j] = task[w].plans[l] /\ IF w = u THEN l = j + 1 ELSE l = j
        BY <3>1
      <4>3. task[v].plans[k].id = task[w].plans[l].id
        BY <3>3, <4>1, <4>2
      <4>4. v = w /\ k = l
        BY <4>3 DEF RefsOK, FreshPlans
      <4>. QED
        BY <4>1, <4>2, <4>4
    <3>. QED
      BY <3>2, <3>3 DEF FreshPlans
  <2>17. PrsOK(task', prs')
    BY <2>1, <2>10, MovesOpensNone
  <2>18. HeadIsOnBranch'
    BY <2>1, <2>6 DEF HeadIsOnBranch, CommitsOf, Grows, RefsOK
  <2>. QED
    BY <2>1, <2>6, <2>7, <2>14, <2>15, <2>16, <2>17, <2>18 DEF RefsOK, RefsType
<1>. QED
  BY <1>1, <1>2

(* The branch refs are only ever written as a command returns.             *)
LEMMA BranchStep ==
  ASSUME RefsOK, NEW u \in Users, PutHead(u) \/ PutBranch(u) \/ DeleteBranch(u)
  PROVE  RefsOK'
<1>. DEFINE t == task[u]  new == [NoTask EXCEPT !.pc = "done"]
<1>1. /\ task' = [task EXCEPT ![u] = new] /\ commits' = commits /\ prs' = prs
      /\ t.pc \in AtBranch /\ t \in Task /\ TaskOK(t, commits, prs) /\ t.branch \in BranchNames
  BY TaskFacts DEF PutHead, PutBranch, DeleteBranch, Return, AtBranch, TaskOK
<1>2. Moves(u, new)
  BY <1>1, NoTaskOK DEF Moves, Opens
<1>3. /\ branches' \in Partial(BranchNames, CommitIds \cup {None})
      /\ \A b \in DOMAIN branches' : branches'[b] # None => branches'[b] \in CommitsOf(b)
  <2>1. branches \in Partial(BranchNames, CommitIds \cup {None}) /\ HeadIsOnBranch
        /\ t.head \in CommitIds \cup {None}
    BY <1>1 DEF RefsOK, RefsType, Task
  <2>2. CASE DeleteBranch(u)
    <3>1. branches' = DeleteRef(branches, t.branch)
      BY <2>2 DEF DeleteBranch
    <3>2. /\ branches' \in Partial(BranchNames, CommitIds \cup {None})
          /\ IsDelete(branches', branches, t.branch)
      BY <2>1, <3>1, DeleteIsPartial
    <3>. QED
      BY <2>1, <3>2 DEF IsDelete, HeadIsOnBranch
  <2>3. CASE PutBranch(u)
    <3>1. branches' = PutRef(branches, t.branch, None)
      BY <2>3 DEF PutBranch
    <3>2. /\ branches' \in Partial(BranchNames, CommitIds \cup {None})
          /\ IsPut(branches', branches, t.branch, None)
      BY <1>1, <2>1, <3>1, PutIsPartial
    <3>. QED
      BY <2>1, <3>2 DEF IsPut, HeadIsOnBranch
  <2>4. CASE PutHead(u)
    <3>1. branches' = PutRef(branches, t.branch, t.head) /\ t.head \in CommitsOf(t.branch)
      BY <1>1, <2>4 DEF PutHead, TaskOK, CommitsOf
    <3>2. /\ branches' \in Partial(BranchNames, CommitIds \cup {None})
          /\ IsPut(branches', branches, t.branch, t.head)
      BY <1>1, <2>1, <3>1, PutIsPartial
    <3>. QED
      BY <2>1, <3>1, <3>2 DEF IsPut, HeadIsOnBranch
  <2>. QED
    BY <2>2, <2>3, <2>4
<1>4. HeadIsOnBranch'
  BY <1>1, <1>3 DEF HeadIsOnBranch, CommitsOf
<1>5. /\ task' \in [Users -> Task] /\ task'[u] = new
      /\ \A v \in Users \ {u} : task'[v] = task[v]
  BY <1>2 DEF Moves, RefsOK, RefsType
<1>6. FreshPlans(task', commits) /\ \A v \in Users : TaskOK(task'[v], commits, prs)
  <2>1. TaskOK(new, commits, prs) /\ Len(new.plans) = 0
    BY NoTaskOK
  <2>2. \A v \in Users : TaskOK(task'[v], commits, prs)
    BY <1>5, <2>1 DEF RefsOK
  <2>3. \A v \in Users : \A i \in 1 .. Len(task'[v].plans) :
          i \in 1 .. Len(task[v].plans) /\ task'[v].plans = task[v].plans
    <3>. HIDE DEF new
    <3>1. \A i \in 1 .. Len(new.plans) : FALSE
      BY <2>1
    <3>. QED
      BY <1>5, <3>1
  <2>. QED
    BY <2>2, <2>3 DEF RefsOK, FreshPlans
<1>7. PrsOK(task', prs)
  BY <1>2, MovesOpensNone
<1>. QED
  BY <1>1, <1>3, <1>4, <1>5, <1>6, <1>7 DEF RefsOK, RefsType

(* Reading the drafts of a branch, for a new PR or for a merge.            *)
LEMMA ReadCommitsStep ==
  ASSUME RefsOK, NEW u \in Users, ReadLatest(u) \/ ReadDrafts(u)
  PROVE  RefsOK'
<1>. DEFINE t == task[u]
<1>1. UNCHANGED refVars
  BY DEF ReadLatest, ReadDrafts, Reads
<1>2. CASE Return(u)
  BY <1>1, <1>2, ReturnStep
<1>3. ASSUME NEW b, NEW pc \in {"put_pr", "merge_live"},
             pc = "put_pr" => t.pc = "pr_latest", pc = "merge_live" => t.pc = "merge_latest",
             task' = [task EXCEPT ![u].pc = pc, ![u].latest = Latest(b)]
      PROVE  RefsOK'
  <2>. DEFINE latest == Latest(b)  new == [t EXCEPT !.pc = pc, !.latest = latest]
  <2>1. t \in Task /\ TaskOK(t, commits, prs)
    BY TaskFacts
  <2>2. /\ latest \in Partial(Records, CommitIds)
        /\ \A r \in DOMAIN latest : latest[r] \in DOMAIN commits
    BY LatestIsPartial DEF RefsOK
  <2>. HIDE DEF latest
  <2>3. /\ new.pc = pc /\ new.branch = t.branch /\ new.plans = t.plans /\ new.pr = t.pr
        /\ new.latest = latest /\ new.items = t.items /\ new \in Task
    <3>1. t \in Task
      BY <2>1
    <3>2. latest \in Partial(Records, CommitIds)
      BY <2>2
    <3>. HIDE DEF t
    <3>3. /\ new.pc = pc /\ new.branch = t.branch /\ new.plans = t.plans
          /\ new.pr = t.pr /\ new.latest = latest /\ new.items = t.items
      BY <3>1 DEF Task, Tasks
    <3>4. new \in Task
      BY <3>1, <3>2 DEF Task, Tasks
    <3>. QED
      BY <3>3, <3>4
  <2>4. DOMAIN t.items = {}
    BY <1>3, <2>1 DEF TaskOK
  <2>5. TaskOK(new, commits, prs)
    BY <1>3, <2>1, <2>2, <2>3, <2>4 DEF TaskOK, AtBranch, AtPr
  <2>6. Moves(u, new)
    BY <1>3, <2>3 DEF Moves, Opens, latest
  <2>. QED
    BY <1>1, <2>3, <2>5, <2>6, MovesKeeps DEF NoNewPlans
<1>. QED
  BY <1>2, <1>3 DEF ReadLatest, ReadDrafts

(* A merge looks at the live record.                                       *)
LEMMA MergeLiveStep ==
  ASSUME StoreOK, RefsOK, NEW u \in Users, MergeLive(u)
  PROVE  RefsOK'
<1>. DEFINE t == task[u]
<1>1. UNCHANGED refVars
  BY DEF MergeLive, Reads
<1>2. CASE Return(u)
  BY <1>1, <1>2, ReturnStep
<1>3. CASE ~Return(u)
  <2>1. PICK r \in DOMAIN t.latest \ DOMAIN t.items :
          /\ live[r] # None
          /\ task' = [task EXCEPT ![u].pc = "merge_head", ![u].rec = r, ![u].live = live[r]]
    BY <1>3 DEF MergeLive
  <2>. DEFINE new == [t EXCEPT !.pc = "merge_head", !.rec = r, !.live = live[r]]
  <2>2. t \in Task /\ TaskOK(t, commits, prs) /\ r \in Records /\ t.pc = "merge_live"
    BY TaskFacts DEF MergeLive
  <2>3. live[r] \in Doc
    BY <2>1, <2>2 DEF StoreOK
  <2>4. new \in Task
    BY <2>2, <2>3 DEF Task, Tasks
  <2>5. /\ new.pc = "merge_head" /\ new.pr = t.pr /\ new.branch = t.branch
        /\ new.plans = t.plans
        /\ new.latest = t.latest /\ new.items = t.items /\ new.todo = t.todo
        /\ new.rec = r /\ new.live = live[r]
    BY <2>2 DEF Task
  <2>6. TaskOK(new, commits, prs)
    BY <2>2, <2>3, <2>5 DEF TaskOK, AtBranch, AtPr
  <2>7. Moves(u, new)
    BY <2>1, <2>4, <2>5 DEF Moves, Opens
  <2>. QED
    BY <1>1, <2>5, <2>6, <2>7, MovesKeeps DEF NoNewPlans
<1>. QED
  BY <1>2, <1>3

(* What a merge is going to write, if it is ready: HEAD is the draft's     *)
(* base, and the live record is what HEAD says, if there is one.           *)
LEMMA ItemIsOK ==
  ASSUME StoreOK, NEW r \in Records, NEW c \in BranchCommit, NEW d \in Doc,
         OnBase(c, GetHead(r)), ~Drifted(d, GetHead(r))
  PROVE  /\ MergeItem(c, d, GetHead(r)) \in MergeItemType
         /\ ItemOK(MergeItem(c, d, GetHead(r)), c)
         /\ NextSeq(GetHead(r)) \in Nat
<1>. DEFINE head == GetHead(r)
<1>1. head = heads[r] /\ head.oid \in Bodies \cup {None} /\ head.seq \in Nat
  BY GetHeadIsPointer DEF HeadType
<1>2. /\ c.doc \in Doc /\ StoredDoc(c.doc) \in Doc /\ HashDoc(c.doc) \in Bodies
      /\ HashDoc(d) \in Bodies /\ clock \in Nat
  BY StoredIsDoc, ClockAssumption DEF BranchCommit, StoreOK
<1>3. head.oid # None => HashDoc(d) = head.oid
  BY <1>1, HeadHasOid DEF Drifted
<1>. HIDE DEF head
<1>4. MergeItem(c, d, head) \in MergeItemType
  BY <1>1, <1>2 DEF MergeItem, MergeItemType, Row, OpNames
<1>5. ItemOK(MergeItem(c, d, head), c)
  BY <1>3 DEF ItemOK, MergeItem, OnBase, head
<1>. QED
  BY <1>1, <1>4, <1>5 DEF head, NextSeq

(* merge_pull_request reads HEAD and makes the item of the record.         *)
LEMMA MergeHeadStep ==
  ASSUME StoreOK, RefsOK, NEW u \in Users, MergeHead(u)
  PROVE  RefsOK'
<1>. DEFINE t == task[u]  r == t.rec  head == GetHead(r)  c == commits[t.latest[r]]
            item == MergeItem(c, t.live, head)
            items == PutRef(t.items, r, item)
            results == PutRef(t.results, r, NextSeq(head))
            pc == IF DOMAIN items = DOMAIN t.latest THEN "merge_apply" ELSE "merge_live"
            new == [t EXCEPT !.items = items, !.results = results, !.rec = None,
                             !.live = None, !.pc = pc]
<1>1. UNCHANGED refVars /\ t.pc = "merge_head"
  BY DEF MergeHead, Reads
<1>2. CASE Return(u)
  BY <1>1, <1>2, ReturnStep
<1>3. CASE ~Return(u)
  <2>1. /\ OnBase(c, head) /\ ~Drifted(t.live, head)
        /\ task' = [task EXCEPT ![u] = new]
    BY <1>3 DEF MergeHead
  <2>2. /\ t \in Task /\ TaskOK(t, commits, prs) /\ r \in Records /\ r \in DOMAIN t.latest
        /\ t.live \in Doc
    BY <1>1, TaskFacts DEF TaskOK
  <2>3. c \in BranchCommit
    <3>1. t.latest[r] \in DOMAIN commits
      BY <2>2 DEF TaskOK
    <3>. QED
      BY <3>1, PartialFacts DEF RefsOK, RefsType
  <2>4. item \in MergeItemType /\ ItemOK(item, c) /\ NextSeq(head) \in Nat
    BY <2>1, <2>2, <2>3, ItemIsOK
  <2>. HIDE DEF item
  <2>5. items \in Partial(Records, MergeItemType) /\ IsPut(items, t.items, r, item)
    BY <2>2, <2>4, TaskFacts, PutIsPartial
  <2>6. results \in Partial(Records, Nat)
    BY <2>2, <2>4, TaskFacts, PutIsPartial
  <2>7. pc \in {"merge_apply", "merge_live"} /\ (pc = "merge_apply" => DOMAIN items = DOMAIN t.latest)
    OBVIOUS
  <2>. HIDE DEF items, results, pc
  <2>8. /\ new.pc = pc /\ new.pr = t.pr /\ new.branch = t.branch /\ new.plans = t.plans
        /\ new.latest = t.latest /\ new.items = items /\ new \in Task
    <3>1. t \in Task /\ pc \in Tasks
      BY <2>2, <2>7 DEF Tasks
    <3>. HIDE DEF t
    <3>2. /\ new.pc = pc /\ new.pr = t.pr /\ new.branch = t.branch /\ new.plans = t.plans
          /\ new.latest = t.latest /\ new.items = items
      BY <3>1 DEF Task
    <3>3. new \in Task
      BY <2>5, <2>6, <3>1 DEF Task
    <3>. QED
      BY <3>2, <3>3
  <2>9. ASSUME NEW x \in DOMAIN items
        PROVE  x \in DOMAIN t.latest /\ ItemOK(items[x], commits[t.latest[x]])
    BY <2>2, <2>4, <2>5 DEF IsPut, TaskOK
  <2>10. TaskOK(new, commits, prs)
    <3>. HIDE DEF new
    <3>. QED
      BY <1>1, <2>2, <2>7, <2>8, <2>9 DEF TaskOK, AtBranch, AtPr
  <2>11. Moves(u, new)
    BY <2>1, <2>7, <2>8 DEF Moves, Opens
  <2>. QED
    BY <1>1, <2>8, <2>10, <2>11, MovesKeeps DEF NoNewPlans
<1>. QED
  BY <1>2, <1>3

(* PRs are numbered as they are opened.                                    *)
LEMMA StartPrCreateStep ==
  ASSUME RefsOK, NEW u \in Users, NEW b \in BranchNames, StartPrCreate(u, b)
  PROVE  RefsOK'
<1>. DEFINE new == [NoTask EXCEPT !.pc = "pr_branch", !.branch = b]
<1>1. /\ task' = [task EXCEPT ![u] = new] /\ UNCHANGED <<branches, commits, prs>>
      /\ ~Working(u) /\ Cardinality(DOMAIN prs) + PrsUnderWay < MaxPrs
  BY DEF StartPrCreate, Begin, refVars
<1>2. new \in Task
  <2>1. NoTask \in Task
    BY NoTaskOK
  <2>. HIDE DEF NoTask
  <2>. QED
    BY <2>1 DEF Task, Tasks
<1>3. /\ new.pc = "pr_branch" /\ new.branch = b /\ Len(new.plans) = 0
      /\ DOMAIN new.latest = {} /\ DOMAIN new.items = {}
  BY NoTaskOK, PartialFacts, EmptySeq DEF NoTask
<1>4. TaskOK(new, commits, prs')
  BY <1>3 DEF TaskOK, AtBranch, AtPr
<1>5. PrsOK(task', prs')
  <2>1. PICK n \in Nat : DOMAIN prs = 1 .. n
    BY DEF RefsOK, PrsOK
  <2>2. Cardinality(DOMAIN prs) = n
    BY <2>1, FS_Interval
  <2>3. PrsUnderWay = Cardinality(Opening(task))
    BY DEF PrsUnderWay, Opening, Opens
  <2>4. u \notin Opening(task)
    BY <1>1 DEF Working, Opening, Opens
  <2>5. Opening(task') = Opening(task) \cup {u}
    BY <1>1, <1>2, <1>3 DEF RefsOK, RefsType, Opening, Opens
  <2>6. /\ IsFiniteSet(Opening(task))
        /\ Cardinality(Opening(task)) \in Nat
        /\ IsFiniteSet(Opening(task'))
        /\ Cardinality(Opening(task')) = Cardinality(Opening(task)) + 1
    BY <2>4, <2>5, FS_AddElement, FS_CardinalityType DEF RefsOK, PrsOK
  <2>7. n + Cardinality(Opening(task')) <= MaxPrs
    BY <1>1, <2>2, <2>3, <2>6, RefBoundAssumption
  <2>. QED
    BY <1>1, <2>1, <2>6, <2>7 DEF PrsOK
<1>6. prs' \in Partial(Nat, PrType)
  BY <1>1 DEF RefsOK, RefsType
<1>. HIDE DEF new
<1>. QED
  BY <1>1, <1>2, <1>3, <1>4, <1>5, <1>6, TaskKeeps DEF NoNewPlans

(* open_pull_request writes the pull request it made.                      *)
LEMMA PutPrStep ==
  ASSUME RefsOK, NEW u \in Users, PutPr(u)
  PROVE  RefsOK'
<1>. DEFINE t == task[u]  new == [NoTask EXCEPT !.pc = "done"]
            id == Cardinality(DOMAIN prs) + 1
            pr == [status |-> "open", branch |-> t.branch, head |-> t.head,
                   records |-> t.latest, results |-> Nothing]
<1>1. /\ t.pc = "put_pr" /\ prs' = PutRef(prs, id, pr) /\ task' = [task EXCEPT ![u] = new]
      /\ UNCHANGED <<branches, commits>>
  BY DEF PutPr, Return
<1>2. /\ t \in Task /\ t.branch \in BranchNames /\ t.head \in CommitIds \cup {None}
      /\ t.latest \in Partial(Records, CommitIds)
  BY <1>1, TaskFacts DEF TaskOK, AtBranch, Task
<1>3. pr \in PrType
  BY <1>2, PartialFacts DEF PrType
<1>4. PICK n \in Nat : DOMAIN prs = 1 .. n /\ n + Cardinality(Opening(task)) <= MaxPrs
  BY DEF RefsOK, PrsOK
<1>5. id = n + 1
  <2>1. Cardinality(DOMAIN prs) = n
    BY <1>4, FS_Interval
  <2>. QED
    BY <2>1
<1>. HIDE DEF id, pr
<1>6. prs' \in Partial(Nat, PrType) /\ IsPut(prs', prs, id, pr)
  <2>1. prs \in Partial(Nat, PrType) /\ id \in Nat
    BY <1>4, <1>5 DEF RefsOK, RefsType
  <2>. QED
    BY <1>1, <1>3, <2>1, PutIsPartial
<1>7. DOMAIN prs' = 1 .. (n + 1)
  BY <1>4, <1>5, <1>6 DEF IsPut
<1>8. PrsOK(task', prs')
  <2>1. u \in Opening(task)
    BY <1>1 DEF Opening, Opens
  <2>2. Opening(task') = Opening(task) \ {u}
    BY <1>1, NoTaskOK DEF RefsOK, RefsType, Opening, Opens
  <2>3. /\ IsFiniteSet(Opening(task))
        /\ Cardinality(Opening(task)) \in Nat
        /\ IsFiniteSet(Opening(task'))
        /\ Cardinality(Opening(task')) = Cardinality(Opening(task)) - 1
    BY <2>1, <2>2, FS_RemoveElement, FS_CardinalityType DEF RefsOK, PrsOK
  <2>4. n + 1 + Cardinality(Opening(task')) <= MaxPrs
    BY <1>4, <2>3, RefBoundAssumption
  <2>. QED
    BY <1>7, <2>3, <2>4 DEF PrsOK
<1>9. DOMAIN prs \subseteq DOMAIN prs'
  BY <1>4, <1>7
<1>10. new \in Task /\ TaskOK(new, commits, prs') /\ Len(new.plans) = 0
  BY NoTaskOK
<1>. HIDE DEF new
<1>. QED
  BY <1>1, <1>6, <1>8, <1>9, <1>10, TaskKeeps DEF NoNewPlans

(* A PR is written back, closed or merged.                                 *)
LEMMA PrWrittenStep ==
  ASSUME RefsOK, NEW u \in Users, Return(u), UNCHANGED <<branches, commits>>,
         NEW p \in DOMAIN prs, NEW status \in {"closed", "merged"},
         NEW results \in Partial(Records, Nat),
         prs' = PutRef(prs, p, [prs[p] EXCEPT !.status = status, !.results = results])
  PROVE  RefsOK'
<1>. DEFINE new == [NoTask EXCEPT !.pc = "done"]
            pr == [prs[p] EXCEPT !.status = status, !.results = results]
<1>1. task' = [task EXCEPT ![u] = new]
  BY DEF Return
<1>2. prs \in Partial(Nat, PrType) /\ p \in Nat /\ prs[p] \in PrType
  BY PartialFacts DEF RefsOK, RefsType
<1>3. pr \in PrType
  BY <1>2 DEF PrType
<1>. HIDE DEF pr
<1>4. prs' = PutRef(prs, p, pr)
  BY DEF pr
<1>5. prs' \in Partial(Nat, PrType) /\ IsPut(prs', prs, p, pr)
  <2>1. PutRef(prs, p, pr) \in Partial(Nat, PrType) /\ IsPut(PutRef(prs, p, pr), prs, p, pr)
    BY <1>2, <1>3, PutIsPartial
  <2>. QED
    BY <1>4, <2>1
<1>6. DOMAIN prs' = DOMAIN prs
  BY <1>5 DEF IsPut
<1>7. Moves(u, new)
  BY <1>1, NoTaskOK DEF Moves, Opens
<1>8. PrsOK(task', prs')
  BY <1>6, <1>7, MovesOpensNone DEF PrsOK
<1>9. new \in Task /\ TaskOK(new, commits, prs') /\ Len(new.plans) = 0
  BY NoTaskOK
<1>. HIDE DEF new
<1>. QED
  BY <1>1, <1>5, <1>6, <1>8, <1>9, TaskKeeps DEF NoNewPlans

(* close_pull_request writes back the pull request it read.                *)
LEMMA PutClosedStep ==
  ASSUME RefsOK, NEW u \in Users, PutClosed(u)
  PROVE  RefsOK'
<1>. DEFINE p == task[u].pr
<1>1. /\ task[u].pc = "put_closed" /\ Return(u) /\ UNCHANGED <<branches, commits>>
      /\ prs' = PutRef(prs, p, [prs[p] EXCEPT !.status = "closed", !.results = Nothing])
  BY DEF PutClosed, ClosedPr
<1>2. p \in DOMAIN prs
  BY <1>1, TaskFacts DEF TaskOK, AtPr
<1>3. Nothing \in Partial(Records, Nat)
  BY PartialFacts
<1>. QED
  BY <1>1, <1>2, <1>3, PrWrittenStep

(* The transaction of a merge, when it commits.                            *)
LEMMA MergeItems ==
  ASSUME RefsOK, NEW u \in Users, task[u].pc = "merge_apply"
  PROVE  /\ task[u].pr \in DOMAIN prs
         /\ DOMAIN task[u].items = DOMAIN task[u].latest
         /\ DOMAIN task[u].items \subseteq Records
         /\ \A r \in DOMAIN task[u].items :
              /\ task[u].items[r] \in MergeItemType
              /\ ItemOK(task[u].items[r], commits[task[u].latest[r]])
              /\ GoodItem(task[u].items[r])
<1>. DEFINE t == task[u]
<1>1. /\ TaskOK(t, commits, prs) /\ DOMAIN t.items \subseteq Records
      /\ \A r \in DOMAIN t.items : t.items[r] \in MergeItemType
  BY TaskFacts, PartialFacts
<1>2. ASSUME NEW r \in DOMAIN t.items
      PROVE  ItemOK(t.items[r], commits[t.latest[r]]) /\ GoodItem(t.items[r])
  <2>1. t.items[r] \in MergeItemType /\ ItemOK(t.items[r], commits[t.latest[r]])
    BY <1>1 DEF TaskOK
  <2>. QED
    BY <2>1 DEF MergeItemType, ItemOK, GoodItem
<1>. QED
  BY <1>1, <1>2 DEF TaskOK, AtPr

(* merge_pull_request writes all its items in one transaction, or none.    *)
LEMMA MergeApplyStep ==
  ASSUME StoreOK, RefsOK, NEW u \in Users, MergeApply(u)
  PROVE  StoreOK' /\ RefsOK'
<1>. DEFINE t == task[u]
<1>1. t.pc = "merge_apply" /\ Return(u)
  BY DEF MergeApply
<1>2. CASE UNCHANGED <<storeVars, refVars>>
  <2>1. StoreOK'
    BY <1>2 DEF StoreOK, storeVars
  <2>2. RefsOK'
    BY <1>1, <1>2, ReturnStep
  <2>. QED
    BY <2>1, <2>2
<1>3. CASE /\ ApplyMany(t.items)
           /\ prs' = PutRef(prs, t.pr, MergedPr(prs[t.pr], t.results))
           /\ UNCHANGED <<branches, commits>>
  <2>1. StoreOK'
    BY <1>1, <1>3, MergeItems, ApplyManyStep
  <2>2. /\ prs' = PutRef(prs, t.pr, [prs[t.pr] EXCEPT !.status = "merged", !.results = t.results])
        /\ t.results \in Partial(Records, Nat) /\ t.pr \in DOMAIN prs
    BY <1>1, <1>3, TaskFacts, MergeItems DEF MergedPr
  <2>3. RefsOK'
    BY <1>1, <1>3, <2>2, PrWrittenStep
  <2>. QED
    BY <2>1, <2>3
<1>. QED
  BY <1>2, <1>3 DEF MergeApply

(* Steps that leave the refs and the users alone.                          *)
LEMMA RefsKept ==
  ASSUME RefsOK, UNCHANGED <<branches, commits, prs, task>>
  PROVE  RefsOK'
BY DEF RefsOK, RefsType, HeadIsOnBranch, CommitsOf

(* A step of the refs leaves the store right.                              *)
LEMMA StoreKept ==
  ASSUME StoreOK, UNCHANGED storeVars
  PROVE  StoreOK'
BY DEF StoreOK, storeVars

-----------------------------------------------------------------------------
(***************************************************************************)
(* The invariant.                                                          *)
(***************************************************************************)
LEMMA InitIInv == BranchesInit => IInv
<1>. SUFFICES ASSUME BranchesInit
              PROVE  StoreOK /\ RefsOK
  BY DEF IInv
<1>1. StoreOK
  <2>1. ASSUME NEW r \in Records
        PROVE  RowsOK(heads[r], history[r]) /\ heads[r] \in HeadType
    <3>1. heads[r] = NoHead /\ history[r] = [s \in {} |-> None]
      BY DEF BranchesInit, StoreInit
    <3>. QED
      BY <3>1 DEF RowsOK, HeadType, NoHead
  <2>. QED
    BY <2>1, ClockAssumption DEF BranchesInit, StoreInit, StoreOK
<1>2. /\ branches = Nothing /\ commits = Nothing /\ prs = Nothing
      /\ task = [u \in Users |-> NoTask]
  BY DEF BranchesInit
<1>3. NoTask = [NoTask EXCEPT !.pc = "idle"]
  BY DEF NoTask
<1>4. NoTask \in Task /\ Len(NoTask.plans) = 0 /\ NoTask.pc = "idle"
      /\ TaskOK(NoTask, commits, prs)
  BY <1>3, NoTaskOK
<1>5. RefsType
  BY <1>2, <1>4, PartialFacts DEF RefsType
<1>6. PrsOK(task, prs)
  <2>1. Opening(task) = {}
    BY <1>2, <1>4 DEF Opening, Opens
  <2>2. IsFiniteSet(Opening(task)) /\ Cardinality(Opening(task)) = 0
    BY <2>1, FS_EmptySet
  <2>3. DOMAIN prs = 1 .. 0 /\ 0 + Cardinality(Opening(task)) <= MaxPrs
    BY <1>2, <2>2, PartialFacts, RefBoundAssumption
  <2>. QED
    BY <2>2, <2>3 DEF PrsOK
<1>7. HeadIsOnBranch /\ CommitsOK(commits)
  BY <1>2, PartialFacts DEF HeadIsOnBranch, CommitsOK
<1>8. FreshPlans(task, commits) /\ \A u \in Users : TaskOK(task[u], commits, prs)
  BY <1>2, <1>4 DEF FreshPlans
<1>. QED
  BY <1>1, <1>5, <1>6, <1>7, <1>8 DEF RefsOK

(* Every step of a user keeps the invariant.                               *)
LEMMA UserStepKeeps ==
  ASSUME StoreOK, RefsOK, NEW u \in Users, UserStep(u)
  PROVE  StoreOK' /\ RefsOK'
<1>1. CASE MergeApply(u)
  BY <1>1, MergeApplyStep
<1>2. CASE Command(u) /\ UNCHANGED storeVars
  <2>1. CASE \E b \in BranchNames : StartPrCreate(u, b)
    BY <1>2, <2>1, StartPrCreateStep, StoreKept
  <2>2. CASE ~ \E b \in BranchNames : StartPrCreate(u, b)
    BY <1>2, <2>2, StartStep, StoreKept DEF Command
  <2>. QED
    BY <2>1, <2>2
<1>3. CASE Draws(u) /\ UNCHANGED storeVars
  <2>1. ASSUME \/ CheckNew(u) \/ CheckBase(u) \/ CheckThere(u) \/ CheckPrs(u)
                \/ ReadLog(u) \/ ReadPr(u) \/ CheckOpen(u) \/ CheckBranch(u)
        PROVE  RefsOK'
    BY <2>1, TestStep
  <2>2. ASSUME Require(u) \/ ReadBranch(u)
        PROVE  RefsOK'
    BY <2>2, RequireStep
  <2>3. ASSUME PlanLive(u) \/ PlanHead(u) \/ PlanLatest(u)
        PROVE  RefsOK'
    BY <2>3, PlanLiveStep, PlanHeadStep, PlanLatestStep
  <2>4. ASSUME PutCommits(u)
        PROVE  RefsOK'
    BY <2>4, PutCommitsStep
  <2>5. ASSUME PutHead(u) \/ PutBranch(u) \/ DeleteBranch(u)
        PROVE  RefsOK'
    BY <2>5, BranchStep
  <2>6. ASSUME ReadLatest(u) \/ ReadDrafts(u)
        PROVE  RefsOK'
    BY <2>6, ReadCommitsStep
  <2>7. ASSUME PutPr(u) \/ PutClosed(u)
        PROVE  RefsOK'
    BY <2>7, PutPrStep, PutClosedStep
  <2>8. ASSUME MergeLive(u) \/ MergeHead(u)
        PROVE  RefsOK'
    BY <2>8, MergeLiveStep, MergeHeadStep
  <2>9. RefsOK'
    BY <1>3, <2>1, <2>2, <2>3, <2>4, <2>5, <2>6, <2>7, <2>8 DEF Draws
  <2>. QED
    BY <1>3, <2>9, StoreKept
<1>. QED
  BY <1>1, <1>2, <1>3 DEF UserStep

(* Every step keeps it.                                                    *)
LEMMA NextIInv == IInv /\ [BranchesNext]_branchVars => IInv'
<1>. SUFFICES ASSUME StoreOK, RefsOK, [BranchesNext]_branchVars
              PROVE  StoreOK' /\ RefsOK'
  BY DEF IInv
<1>1. CASE MainStep
  <2>1. StoreOK'
    BY <1>1, MainStoreStep
  <2>2. RefsOK'
    BY <1>1, RefsKept DEF MainStep, refVars
  <2>. QED
    BY <2>1, <2>2
<1>2. ASSUME NEW u \in Users, UserStep(u)
      PROVE  StoreOK' /\ RefsOK'
  BY <1>2, UserStepKeeps
<1>3. ASSUME NEW u \in Users, Die(u), UNCHANGED storeVars
      PROVE  StoreOK' /\ RefsOK'
  BY <1>3, DieStep, StoreKept
<1>4. CASE UNCHANGED branchVars
  BY <1>4, StoreKept, RefsKept DEF branchVars, storeVars
<1>. QED
  BY <1>1, <1>2, <1>3, <1>4 DEF BranchesNext

(* The inductive invariant holds of every reachable state.                 *)
LEMMA BranchesIInv == BranchesSpec => []IInv
BY InitIInv, NextIInv, PTL DEF BranchesSpec

-----------------------------------------------------------------------------
(***************************************************************************)
(* Theorems.                                                               *)
(***************************************************************************)

(* The refs, and what each user has read of them or is about to write, are *)
(* what their types say, and no more PRs are opened than there may be.     *)
THEOREM RefsTypeCorrect == BranchesSpec => []RefsTypeOK
<1>1. ASSUME RefsOK
      PROVE  RefsTypeOK
  <2>1. /\ DOMAIN branches \subseteq BranchNames
        /\ \A b \in DOMAIN branches : branches[b] \in CommitIds \cup {None}
    BY <1>1, PartialFacts DEF RefsOK, RefsType
  <2>2. /\ DOMAIN commits \subseteq CommitIds
        /\ \A i \in DOMAIN commits : commits[i] \in BranchCommit
    BY <1>1, PartialFacts DEF RefsOK, RefsType
  <2>3. DOMAIN prs \subseteq PrIds
    <3>1. PICK n \in Nat : DOMAIN prs = 1 .. n /\ n + Cardinality(Opening(task)) <= MaxPrs
      BY <1>1 DEF RefsOK, PrsOK
    <3>2. Cardinality(Opening(task)) \in Nat
      BY <1>1, FS_CardinalityType DEF RefsOK, PrsOK
    <3>. QED
      BY <3>1, <3>2, RefBoundAssumption DEF PrIds
  <2>4. ASSUME NEW p \in DOMAIN prs
        PROVE  IsPr(prs[p])
    <3>1. prs[p] \in PrType
      BY <1>1, PartialFacts DEF RefsOK, RefsType
    <3>2. prs[p].records \in Partial(Records, CommitIds) /\ prs[p].results \in Partial(Records, Nat)
      BY <3>1 DEF PrType
    <3>3. IsPartial(prs[p].records, Records, CommitIds) /\ IsPartial(prs[p].results, Records, Nat)
      BY <3>2, PartialFacts DEF IsPartial
    <3>. QED
      BY <3>1, <3>3 DEF PrType, IsPr
  <2>5. ASSUME NEW u \in Users
        PROVE  /\ task[u].pc \in Tasks
               /\ \A i \in DOMAIN task[u].plans : task[u].plans[i].commit \in BranchCommit
               /\ IsPartial(task[u].latest, Records, CommitIds)
    <3>1. task[u] \in Task /\ task[u].plans \in Seq(Plan)
          /\ task[u].latest \in Partial(Records, CommitIds)
      BY <1>1, TaskFacts
    <3>2. \A i \in DOMAIN task[u].plans : task[u].plans[i] \in Plan
      BY <3>1
    <3>3. IsPartial(task[u].latest, Records, CommitIds)
      BY <3>1, PartialFacts DEF IsPartial
    <3>. QED
      BY <3>1, <3>2, <3>3 DEF Task, Plan
  <2>. QED
    BY <2>1, <2>2, <2>3, <2>4, <2>5 DEF RefsTypeOK, IsPartial
<1>2. IInv => RefsTypeOK
  BY <1>1 DEF IInv
<1>. QED
  BY <1>2, BranchesIInv, PTL

(* Main-line versions and merges together keep the rows of every record    *)
(* numbered, HEAD on the last of them.                                     *)
THEOREM MergedHeadIsLastRow == BranchesSpec => []HeadIsLastRow
<1>1. IInv => HeadIsLastRow
  BY DEF IInv, StoreOK, RowsOK, HeadIsLastRow
<1>. QED
  BY <1>1, BranchesIInv, PTL

(* ... each row on its parent, though a merge read HEAD long before.       *)
THEOREM MergedParentChain == BranchesSpec => []ParentChain
<1>1. ASSUME IInv, NEW r \in Records, NEW s \in DOMAIN history[r]
      PROVE  history[r][s].parent = IF s = 1 THEN None ELSE history[r][s - 1].oid
  <2>1. RowsOK(heads[r], history[r])
    BY <1>1 DEF IInv, StoreOK
  <2>. QED
    BY <2>1 DEF RowsOK
<1>2. IInv => ParentChain
  BY <1>1 DEF ParentChain
<1>. QED
  BY <1>2, BranchesIInv, PTL

(* ... and valid time without a gap.                                       *)
THEOREM MergedIntervalsAbut == BranchesSpec => []IntervalsAbut
<1>1. ASSUME IInv, NEW r \in Records, NEW s \in DOMAIN history[r]
      PROVE  history[r][s].to = IF s = heads[r].seq THEN None ELSE history[r][s + 1].from
  <2>1. RowsOK(heads[r], history[r])
    BY <1>1 DEF IInv, StoreOK
  <2>. QED
    BY <2>1 DEF RowsOK
<1>2. IInv => IntervalsAbut
  BY <1>1 DEF IntervalsAbut
<1>. QED
  BY <1>2, BranchesIInv, PTL

(* A branch points to a commit made on it, whatever its users do at once   *)
(* and wherever they die (branch_commit, branch_delete, branch_create).    *)
THEOREM BranchHeads == BranchesSpec => []HeadIsOnBranch
<1>1. IInv => HeadIsOnBranch
  BY DEF IInv, RefsOK
<1>. QED
  BY <1>1, BranchesIInv, PTL

(* Drafts form chains, by any number of users on one branch: the commit a  *)
(* draft follows is there when the draft is put, and for good.             *)
THEOREM DraftChains == BranchesSpec => []DraftsChain
<1>1. ASSUME IInv
      PROVE  DraftsChain
  <2>1. \A i \in DOMAIN commits : DraftOK(commits[i], commits)
    BY <1>1 DEF IInv, RefsOK, CommitsOK
  <2>. QED
    BY <2>1 DEF DraftsChain, DraftOK, OnLine, CommitsOn, CommitsOf
<1>. QED
  BY <1>1, BranchesIInv, PTL

(* Of the steps of a branch user, only the transaction of its own merge    *)
(* versions anything as it forgets what it was about.                      *)
LEMMA MergingIsApplying ==
  ASSUME IInv, [BranchesNext]_branchVars, NEW u \in Users, Merging(u)
  PROVE  task[u].pc = "merge_apply" /\ ApplyMany(task[u].items)
<1>1. ~MainStep /\ ~UNCHANGED storeVars
  BY DEF Merging, MainStep, storeVars
<1>2. PICK v \in Users : MergeApply(v) /\ ApplyMany(task[v].items)
  BY <1>1 DEF BranchesNext, UserStep, MergeApply, branchVars, storeVars
<1>3. v = u
  BY <1>2 DEF MergeApply, Return, Merging, IInv, RefsOK, RefsType
<1>. QED
  BY <1>2, <1>3 DEF MergeApply

(* Where the transaction of a merge goes through, the record is the one    *)
(* the commit was drafted from, and what the merge saw of it.              *)
LEMMA MergedRecord ==
  ASSUME IInv, NEW u \in Users, task[u].pc = "merge_apply", ApplyMany(task[u].items),
         NEW r \in DOMAIN task[u].latest
  PROVE  /\ heads[r].oid = task[u].items[r].expectedHead
         /\ heads[r].oid = commits[task[u].latest[r]].baseHead
         /\ live[r] # None /\ HashDoc(live[r]) = task[u].items[r].expectedLive
         /\ heads[r].oid # None => HashDoc(live[r]) = heads[r].oid
<1>. DEFINE item == task[u].items[r]
<1>1. /\ r \in DOMAIN task[u].items /\ item \in MergeItemType
      /\ ItemOK(item, commits[task[u].latest[r]])
  BY MergeItems DEF IInv
<1>2. HeadFresh(r, item) /\ LiveFresh(r, item)
  BY <1>1 DEF ApplyMany, AllCanApply, CanApply
<1>3. item.expectedLive # None
  BY <1>1, NoneAssumption DEF MergeItemType
<1>. QED
  BY <1>1, <1>2, <1>3 DEF HeadFresh, LiveFresh, ItemOK

(* The README's "it refuses stale main heads", of every record of a merge  *)
(* and of whatever happened between its reads and its transaction.         *)
THEOREM MergeOnBase == BranchesSpec => MergesOnBase
<1>1. IInv /\ [BranchesNext]_branchVars =>
        \A u \in Users : Merging(u) =>
          \A r \in DOMAIN task[u].latest :
            heads[r].oid = commits[task[u].latest[r]].baseHead
  BY MergingIsApplying, MergedRecord
<1>. QED
  BY <1>1, BranchesIInv, PTL DEF BranchesSpec, MergesOnBase

(* A merge of many records is decided on one state of all of them.         *)
THEOREM MergeOfSnapshot == BranchesSpec => MergesASnapshot
<1>1. IInv /\ [BranchesNext]_branchVars =>
        \A u \in Users : Merging(u) =>
          \A r \in DOMAIN task[u].latest :
            /\ HashDoc(live[r]) = task[u].items[r].expectedLive
            /\ heads[r].oid = task[u].items[r].expectedHead
  BY MergingIsApplying, MergedRecord
<1>. QED
  BY <1>1, BranchesIInv, PTL DEF BranchesSpec, MergesASnapshot

(* A write of the main line is of a clean record.                          *)
LEMMA VersionIsClean ==
  ASSUME IInv, NEW r \in Records, NEW x \in Records, Version(x), Overwritten(r),
         Exists(GetHead(r))
  PROVE  Clean(r)
<1>1. PICK d \in Doc, at \in 0 .. MaxClock :
        Import(x, d, at) \/ Adopt(x, d, at) \/ Commit(x, d, at) \/ Restore(x, d, at)
  BY DEF Version
<1>2. DOMAIN history = Records /\ live \in [Records -> Doc \cup {None}]
  BY DEF IInv, StoreOK
<1>3. ASSUME NEW item, Apply(x, item)
      PROVE  x = r /\ live'[r] = LiveAfter(r, item)
  BY <1>2, <1>3 DEF Apply, Overwritten, Versioned
<1>4. CASE Commit(x, d, at) \/ Restore(x, d, at)
  BY <1>3, <1>4 DEF Commit, Restore, Open
<1>5. ASSUME NEW op, Apply(x, RecordOnly(x, op, d, at))
      PROVE  FALSE
  BY <1>3, <1>5 DEF RecordOnly, LiveAfter, Overwritten
<1>. QED
  BY <1>1, <1>4, <1>5 DEF Import, Adopt

(* The README's "refuses to clobber changes it did not record", of the     *)
(* main line and of merges: a record with history is overwritten only if   *)
(* its live document is the one HEAD says.                                 *)
THEOREM MergeKeepsDrift == BranchesSpec => MergeNeverClobbersDrift
<1>1. ASSUME IInv, [BranchesNext]_branchVars, NEW r \in Records, Overwritten(r),
             Exists(GetHead(r))
      PROVE  Clean(r)
  <2>1. ~UNCHANGED storeVars
    BY <1>1 DEF Overwritten, storeVars
  <2>2. CASE MainStep
    <3>1. PICK x \in Records : Version(x)
      BY <1>1, <2>2 DEF MainStep, Behind, RawWrite, Tick, Overwritten, Versioned
    <3>. QED
      BY <1>1, <3>1, VersionIsClean
  <2>3. CASE ~MainStep
    <3>1. PICK u \in Users : MergeApply(u) /\ ApplyMany(task[u].items)
      BY <1>1, <2>1, <2>3 DEF BranchesNext, UserStep, MergeApply, branchVars, storeVars
    <3>2. task[u].pc = "merge_apply"
      BY <3>1 DEF MergeApply
    <3>3. r \in DOMAIN task[u].items
      <4>1. CASE r \notin DOMAIN task[u].items
        BY <1>1, <3>1, <4>1 DEF ApplyMany, Overwritten
      <4>. QED
        BY <4>1
    <3>4. r \in DOMAIN task[u].latest
      BY <1>1, <3>2, <3>3, MergeItems DEF IInv
    <3>5. GetHead(r) = heads[r] /\ heads[r].oid # None
      BY <1>1, GetHeadIsPointer, HeadHasOid DEF IInv
    <3>. QED
      BY <1>1, <3>1, <3>2, <3>4, <3>5, MergedRecord DEF Clean
  <2>. QED
    BY <2>2, <2>3
<1>2. IInv /\ [BranchesNext]_branchVars =>
        \A r \in Records : Overwritten(r) /\ Exists(GetHead(r)) => Clean(r)
  BY <1>1
<1>. QED
  BY <1>2, BranchesIInv, PTL DEF BranchesSpec, MergeNeverClobbersDrift

-----------------------------------------------------------------------------
(***************************************************************************)
(* What a merged PR reports.  Beside IInv, of every merge under way: the   *)
(* seq it is going to report for a record follows a row, still there, of   *)
(* the oid its transaction expects HEAD to have.                           *)
(***************************************************************************)
SeenSeq(head, rows, oid, n) ==
  \E k \in 0 .. head.seq : n = k + 1 /\ oid = IF k = 0 THEN None ELSE rows[k].oid

TaskReports(t, hs, rows) ==
  /\ DOMAIN t.results = DOMAIN t.items
  /\ \A r \in DOMAIN t.items :
       /\ t.items[r].entry.op = "merge"
       /\ SeenSeq(hs[r], rows[r], t.items[r].expectedHead, t.results[r])

ReportsOK == ReportsItsRow /\ \A u \in Users : TaskReports(task[u], heads, history)

(* Rows stay, with their contents and what wrote them.                     *)
RowsStay(r) ==
  /\ heads[r].seq \in Nat /\ heads'[r].seq \in Nat /\ heads[r].seq <= heads'[r].seq
  /\ DOMAIN history[r] = 1 .. heads[r].seq /\ DOMAIN history'[r] = 1 .. heads'[r].seq
  /\ \A s \in 1 .. heads[r].seq :
       history'[r][s].oid = history[r][s].oid /\ history'[r][s].op = history[r][s].op

(* A transaction leaves the rows there are, closing one.                   *)
LEMMA AppliedRowsStay ==
  ASSUME StoreOK, NEW r \in Records, NEW item,
         heads'[r] = HeadAfter(r, item), history'[r] = HistoryAfter(r, item)
  PROVE  RowsStay(r) /\ heads'[r].seq = heads[r].seq + 1
         /\ history'[r][heads'[r].seq] = item.entry
<1>. DEFINE n == heads[r].seq
<1>1. n \in Nat /\ DOMAIN history[r] = 1 .. n /\ \A s \in 1 .. n : history[r][s] \in Row
  BY DEF StoreOK, RowsOK, HeadType
<1>2. heads'[r].seq = n + 1
  BY DEF HeadAfter
<1>3. DOMAIN history'[r] = 1 .. (n + 1) /\ history'[r][n + 1] = item.entry
  BY <1>1 DEF HistoryAfter
<1>4. ASSUME NEW s \in 1 .. n
      PROVE  history'[r][s].oid = history[r][s].oid /\ history'[r][s].op = history[r][s].op
  <2>1. history[r][s] \in Row
    BY <1>1
  <2>2. history'[r][s] = IF s = n THEN CloseRow(history[r][s], item.entry.from)
                         ELSE history[r][s]
    BY <1>1 DEF HistoryAfter
  <2>. QED
    BY <2>1, <2>2 DEF CloseRow, Row
<1>. QED
  BY <1>1, <1>2, <1>3, <1>4 DEF RowsStay

(* A record whose rows and HEAD do not change keeps its rows.              *)
LEMMA SameRowsStay ==
  ASSUME StoreOK, NEW r \in Records, heads'[r] = heads[r], history'[r] = history[r]
  PROVE  RowsStay(r)
BY DEF StoreOK, RowsOK, HeadType, RowsStay

(* So every step leaves the rows of every record.                          *)
LEMMA ManyRowsStay ==
  ASSUME StoreOK, NEW items, ApplyMany(items), NEW r \in Records
  PROVE  /\ RowsStay(r)
         /\ r \in DOMAIN items => /\ heads'[r].seq = heads[r].seq + 1
                                  /\ history'[r][heads'[r].seq] = items[r].entry
<1>1. CASE r \in DOMAIN items
  BY <1>1, AppliedRowsStay DEF ApplyMany
<1>2. CASE r \notin DOMAIN items
  BY <1>2, SameRowsStay DEF ApplyMany
<1>. QED
  BY <1>1, <1>2

(* The main line adds a row to a record, and keeps what rows there are.    *)
LEMMA MainRowsStay ==
  ASSUME StoreOK, MainStep, NEW r \in Records
  PROVE  RowsStay(r)
<1>1. ASSUME NEW x \in Records, Version(x)
      PROVE  RowsStay(r)
  <2>1. PICK item : Apply(x, item)
    BY <1>1 DEF Version, Import, Adopt, Commit, Restore
  <2>2. x \in DOMAIN heads /\ x \in DOMAIN history
    BY DEF StoreOK
  <2>3. CASE x = r
    BY <2>1, <2>2, <2>3, AppliedRowsStay DEF Apply
  <2>4. CASE x # r
    BY <2>1, <2>2, <2>4, SameRowsStay DEF Apply
  <2>. QED
    BY <2>3, <2>4
<1>2. CASE UNCHANGED <<heads, history>>
  BY <1>2, SameRowsStay
<1>. QED
  BY <1>1, <1>2 DEF MainStep, Behind, RawWrite, Tick

(* What a merge has seen stays in the history.                             *)
LEMMA ReportsStable ==
  ASSUME NEW t, DOMAIN t.items \subseteq Records, TaskReports(t, heads, history),
         \A r \in Records : RowsStay(r)
  PROVE  TaskReports(t, heads', history')
<1>1. ASSUME NEW r \in DOMAIN t.items
      PROVE  SeenSeq(heads'[r], history'[r], t.items[r].expectedHead, t.results[r])
  <2>1. RowsStay(r) /\ SeenSeq(heads[r], history[r], t.items[r].expectedHead, t.results[r])
    BY DEF TaskReports
  <2>2. PICK k \in 0 .. heads[r].seq :
          /\ t.results[r] = k + 1
          /\ t.items[r].expectedHead = IF k = 0 THEN None ELSE history[r][k].oid
    BY <2>1 DEF SeenSeq
  <2>3. k \in 0 .. heads'[r].seq /\ (k # 0 => k \in 1 .. heads[r].seq)
    BY <2>1 DEF RowsStay
  <2>4. t.items[r].expectedHead = IF k = 0 THEN None ELSE history'[r][k].oid
    BY <2>1, <2>2, <2>3 DEF RowsStay
  <2>. QED
    BY <2>2, <2>3, <2>4 DEF SeenSeq
<1>. QED
  BY <1>1 DEF TaskReports

(* If no content recurs after a step, none did before it.                  *)
LEMMA FreshBefore ==
  ASSUME NEW r \in Records, RowsStay(r), FreshOids(r)'
  PROVE  FreshOids(r)
<1>1. \A s \in 1 .. heads[r].seq : s \in 1 .. heads'[r].seq
  BY DEF RowsStay
<1>. QED
  BY <1>1 DEF FreshOids, RowsStay

(* What a PR reported still is as it reported it, while its report stands  *)
(* or is dropped and no other is made.                                     *)
KeptReports ==
  \A p \in DOMAIN prs' :
    DOMAIN prs'[p].results = {} \/ (p \in DOMAIN prs /\ prs'[p].results = prs[p].results)

(* If all reports are kept, and the rows they speak of, they stay true.    *)
LEMMA ReportsKept ==
  ASSUME RefsOK, ReportsItsRow, KeptReports, \A r \in Records : RowsStay(r)
  PROVE  ReportsItsRow'
<1>1. ASSUME NEW p \in DOMAIN prs', NEW r \in DOMAIN prs'[p].results, FreshOids(r)'
      PROVE  /\ prs'[p].results[r] \in DOMAIN history'[r]
             /\ history'[r][prs'[p].results[r]].op = "merge"
             /\ \A q \in DOMAIN prs' \ {p} :
                  r \in DOMAIN prs'[q].results => prs'[q].results[r] # prs'[p].results[r]
  <2>1. p \in DOMAIN prs /\ prs'[p].results = prs[p].results
    BY DEF KeptReports
  <2>2. r \in Records
    <3>1. prs[p] \in PrType
      BY <2>1, PartialFacts DEF RefsOK, RefsType
    <3>2. prs[p].results \in Partial(Records, Nat)
      BY <3>1 DEF PrType
    <3>. QED
      BY <2>1, <3>2, PartialFacts
  <2>3. RowsStay(r) /\ FreshOids(r)
    BY <1>1, <2>2, FreshBefore
  <2>4. /\ prs[p].results[r] \in DOMAIN history[r]
        /\ history[r][prs[p].results[r]].op = "merge"
        /\ \A q \in DOMAIN prs \ {p} :
             r \in DOMAIN prs[q].results => prs[q].results[r] # prs[p].results[r]
    BY <2>1, <2>3 DEF ReportsItsRow
  <2>5. prs[p].results[r] \in 1 .. heads[r].seq /\ prs[p].results[r] \in DOMAIN history'[r]
    BY <2>3, <2>4 DEF RowsStay
  <2>6. \A q \in DOMAIN prs' \ {p} :
          r \in DOMAIN prs'[q].results =>
            q \in DOMAIN prs \ {p} /\ prs'[q].results = prs[q].results
    BY DEF KeptReports
  <2>. QED
    BY <2>1, <2>3, <2>4, <2>5, <2>6 DEF RowsStay
<1>. QED
  BY <1>1 DEF ReportsItsRow

-----------------------------------------------------------------------------
(* A task that neither begins nor ends a report, or has none to make.      *)
SameReport(t, new) ==
  \/ new.items = t.items /\ new.results = t.results
  \/ new.items = Nothing /\ new.results = Nothing

(* A task whose report is the same is as right about it as it was.         *)
LEMMA SameReportKeeps ==
  ASSUME NEW t, NEW new, TaskReports(t, heads, history), SameReport(t, new)
  PROVE  TaskReports(new, heads, history)
BY PartialFacts DEF SameReport, TaskReports

(* Every read of a user but the one that makes an item of a merge.         *)
LEMMA TaskSameReport ==
  ASSUME RefsOK, NEW u \in Users, Command(u) \/ Draws(u) \/ MergeApply(u) \/ Die(u),
         ~MergeHead(u)
  PROVE  /\ SameReport(task[u], task'[u])
         /\ \A v \in Users \ {u} : task'[v] = task[v]
<1>1. /\ task \in [Users -> Task] /\ task[u] \in Task
  BY DEF RefsOK, RefsType
<1>2. ASSUME Return(u)
      PROVE  /\ SameReport(task[u], task'[u])
             /\ \A v \in Users \ {u} : task'[v] = task[v]
  BY <1>1, <1>2 DEF Return, NoTask, SameReport
<1>3. ASSUME NEW pc, Step(u, pc)
      PROVE  /\ SameReport(task[u], task'[u])
             /\ \A v \in Users \ {u} : task'[v] = task[v]
  BY <1>1, <1>3 DEF Step, SameReport, Task
<1>4. CASE Command(u)
  BY <1>1, <1>4 DEF Command, StartBranchCreate, StartBranchDelete, StartBranchCommit,
     StartPrCreate, StartPrClose, StartPrMerge, Begin, NoTask, SameReport
<1>5. CASE Die(u)
  BY <1>1, <1>5 DEF Die, NoTask, SameReport
<1>6. CASE MergeApply(u)
  BY <1>2, <1>6 DEF MergeApply
<1>7. CASE \/ CheckNew(u) \/ CheckBase(u) \/ PutBranch(u)
           \/ CheckThere(u) \/ CheckPrs(u) \/ DeleteBranch(u) \/ PutHead(u)
           \/ ReadLog(u) \/ PutPr(u) \/ ReadPr(u) \/ PutClosed(u)
           \/ CheckOpen(u) \/ CheckBranch(u)
  BY <1>2, <1>3, <1>7 DEF CheckNew, CheckBase, PutBranch, CheckThere, CheckPrs, DeleteBranch,
     PutHead, ReadLog, PutPr, ReadPr, PutClosed, CheckOpen, CheckBranch
<1>. DEFINE Fine == SameReport(task[u], task'[u])
                   /\ \A v \in Users \ {u} : task'[v] = task[v]
<1>8. ASSUME NEW pc, NEW x, task' = [task EXCEPT ![u].pc = pc, ![u].head = x]
      PROVE  Fine
  BY <1>1, <1>8 DEF SameReport, Task
<1>9. ASSUME NEW pc, NEW x, task' = [task EXCEPT ![u].pc = pc, ![u].main = x]
      PROVE  Fine
  BY <1>1, <1>9 DEF SameReport, Task
<1>10. ASSUME NEW pc, NEW x, task' = [task EXCEPT ![u].pc = pc, ![u].latest = x]
       PROVE  Fine
  BY <1>1, <1>10 DEF SameReport, Task
<1>11. ASSUME NEW pc, NEW x, NEW y,
              task' = [task EXCEPT ![u].pc = pc, ![u].rec = x, ![u].live = y]
       PROVE  Fine
  BY <1>1, <1>11 DEF SameReport, Task
<1>12. ASSUME NEW pc, NEW x, NEW y,
              task' = [task EXCEPT ![u].plans = x, ![u].head = y, ![u].pc = pc]
       PROVE  Fine
  BY <1>1, <1>12 DEF SameReport, Task
<1>13. CASE Require(u) \/ ReadBranch(u)
  BY <1>2, <1>8, <1>13 DEF Require, ReadBranch
<1>14. CASE PlanHead(u)
  BY <1>2, <1>9, <1>14 DEF PlanHead
<1>15. CASE ReadLatest(u) \/ ReadDrafts(u)
  BY <1>2, <1>10, <1>15 DEF ReadLatest, ReadDrafts
<1>16. CASE PlanLive(u) \/ MergeLive(u)
  <2>1. CASE Return(u)
    BY <1>2, <2>1
  <2>2. CASE ~Return(u)
    <3>1. PICK r : \E pc : task' = [task EXCEPT ![u].pc = pc, ![u].rec = r, ![u].live = live[r]]
      <4>1. CASE PlanLive(u)
        BY <2>2, <4>1 DEF PlanLive
      <4>2. CASE MergeLive(u)
        BY <2>2, <4>2 DEF MergeLive
      <4>. QED
        BY <1>16, <4>1, <4>2
    <3>. QED
      BY <1>11, <3>1
  <2>. QED
    BY <2>1, <2>2
<1>17. CASE PutCommits(u)
  <2>1. CASE Return(u)
    BY <1>2, <2>1
  <2>2. CASE ~Return(u)
    <3>1. PICK pc : task' = [task EXCEPT ![u].plans = Tail(task[u].plans),
                               ![u].head = Head(task[u].plans).id, ![u].pc = pc]
      BY <1>1, <1>17, <2>2 DEF PutCommits
    <3>. QED
      BY <1>12, <3>1
  <2>. QED
    BY <2>1, <2>2
<1>18. CASE PlanLatest(u)
  <2>1. CASE Return(u)
    BY <1>2, <2>1
  <2>2. CASE ~Return(u)
    <3>. DEFINE t == task[u]
                planned == [t EXCEPT !.todo = DeleteRef(t.todo, t.rec), !.rec = None,
                              !.live = None, !.main = NoHead,
                              !.pc = IF DOMAIN t.todo = {t.rec} THEN "put_commits"
                                     ELSE "plan_live"]
    <3>1. planned.items = t.items /\ planned.results = t.results
          /\ "plans" \in DOMAIN planned
      BY <1>1 DEF Task
    <3>. HIDE DEF planned
    <3>2. \/ task' = [task EXCEPT ![u] = planned]
          \/ \E x : task' = [task EXCEPT ![u] = [planned EXCEPT !.plans = x]]
      BY <1>18, <2>2 DEF PlanLatest, planned
    <3>3. CASE task' = [task EXCEPT ![u] = planned]
      BY <1>1, <3>1, <3>3 DEF SameReport
    <3>4. CASE \E x : task' = [task EXCEPT ![u] = [planned EXCEPT !.plans = x]]
      <4>1. PICK x : task' = [task EXCEPT ![u] = [planned EXCEPT !.plans = x]]
        BY <3>4
      <4>2. [planned EXCEPT !.plans = x].items = t.items
            /\ [planned EXCEPT !.plans = x].results = t.results
        BY <3>1
      <4>. QED
        BY <1>1, <4>1, <4>2 DEF SameReport
    <3>. QED
      BY <3>2, <3>3, <3>4
  <2>. QED
    BY <2>1, <2>2
<1>. QED
  BY <1>4, <1>5, <1>6, <1>7, <1>13, <1>14, <1>15, <1>16, <1>17, <1>18 DEF Draws

(* Whatever a user does, but commit a merge, makes no report.              *)
LEMMA PrsKeepReports ==
  ASSUME RefsOK, NEW u \in Users, Command(u) \/ Draws(u) \/ Die(u)
  PROVE  KeptReports
<1>1. CASE UNCHANGED prs
  BY <1>1 DEF KeptReports
<1>2. CASE PutPr(u)
  <2>. DEFINE id == Cardinality(DOMAIN prs) + 1
              pr == [status |-> "open", branch |-> task[u].branch, head |-> task[u].head,
                     records |-> task[u].latest, results |-> Nothing]
  <2>1. prs' = PutRef(prs, id, pr) /\ DOMAIN pr.results = {}
    BY <1>2, PartialFacts DEF PutPr
  <2>. HIDE DEF id, pr
  <2>. QED
    BY <2>1 DEF PutRef, KeptReports
<1>3. CASE PutClosed(u)
  <2>. DEFINE p == task[u].pr  pr == ClosedPr(prs[p])
  <2>1. prs' = PutRef(prs, p, pr) /\ p \in DOMAIN prs
    BY <1>3, TaskFacts DEF PutClosed, TaskOK, AtPr
  <2>2. DOMAIN pr.results = {}
    <3>1. prs[p] \in PrType
      BY <2>1, PartialFacts DEF RefsOK, RefsType
    <3>. QED
      BY <3>1, PartialFacts DEF ClosedPr, PrType
  <2>. HIDE DEF p, pr
  <2>. QED
    BY <2>1, <2>2 DEF PutRef, KeptReports
<1>4. Command(u) \/ Die(u) => UNCHANGED prs
  BY DEF Command, Die, StartBranchCreate, StartBranchDelete, StartBranchCommit,
     StartPrCreate, StartPrClose, StartPrMerge, Begin, refVars
<1>5. Draws(u) => UNCHANGED prs \/ PutPr(u) \/ PutClosed(u)
  BY DEF Draws, CheckNew, CheckBase, PutBranch, CheckThere, CheckPrs, DeleteBranch,
     PutHead, ReadLog, ReadPr, CheckOpen, CheckBranch, Require, PlanLive, PlanHead,
     PlanLatest, PutCommits, ReadBranch, ReadLatest, ReadDrafts, MergeLive, MergeHead,
     Reads, refVars
<1>. QED
  BY <1>1, <1>2, <1>3, <1>4, <1>5

(* merge_pull_request reads HEAD, and notes the seq after it.              *)
LEMMA MergeHeadReports ==
  ASSUME StoreOK, RefsOK, NEW u \in Users, TaskReports(task[u], heads, history), MergeHead(u)
  PROVE  /\ TaskReports(task'[u], heads, history)
         /\ \A v \in Users \ {u} : task'[v] = task[v]
<1>. DEFINE t == task[u]  r == t.rec  head == GetHead(r)  c == commits[t.latest[r]]
            item == MergeItem(c, t.live, head)
            items == PutRef(t.items, r, item)
            results == PutRef(t.results, r, NextSeq(head))
<1>1. task \in [Users -> Task] /\ t \in Task
  BY DEF RefsOK, RefsType
<1>2. CASE Return(u)
  <2>1. SameReport(task[u], task'[u]) /\ \A v \in Users \ {u} : task'[v] = task[v]
    BY <1>1, <1>2 DEF Return, NoTask, SameReport
  <2>. QED
    BY <2>1, SameReportKeeps
<1>3. CASE ~Return(u)
  <2>1. /\ task'[u].items = items /\ task'[u].results = results
        /\ \A v \in Users \ {u} : task'[v] = task[v]
    <3>. HIDE DEF items, results
    <3>1. PICK pc : task' = [task EXCEPT ![u] =
            [t EXCEPT !.items = items, !.results = results, !.rec = None, !.live = None,
                      !.pc = pc]]
      BY <1>3 DEF MergeHead, items, results
    <3>. QED
      BY <1>1, <3>1 DEF Task
  <2>2. t.pc = "merge_head"
    BY DEF MergeHead
  <2>3. r \in Records
    BY <2>2, TaskFacts DEF TaskOK
  <2>4. item.entry.op = "merge" /\ item.expectedHead = head.oid
    BY DEF MergeItem
  <2>5. NextSeq(head) = heads[r].seq + 1 /\ head.oid = heads[r].oid
    BY <2>3, GetHeadIsPointer DEF NextSeq
  <2>6. SeenSeq(heads[r], history[r], head.oid, NextSeq(head))
    <3>1. RowsOK(heads[r], history[r])
      BY <2>3 DEF StoreOK
    <3>2. heads[r].seq \in Nat
      BY <3>1 DEF RowsOK, HeadType
    <3>3. heads[r].seq \in 0 .. heads[r].seq
      BY <3>2
    <3>. QED
      BY <2>5, <3>1, <3>3 DEF RowsOK, SeenSeq
  <2>. HIDE DEF item, head
  <2>7. TaskReports(task'[u], heads, history)
    BY <2>1, <2>4, <2>6 DEF TaskReports, PutRef
  <2>. QED
    BY <2>1, <2>7
<1>. QED
  BY <1>2, <1>3

(* When its transaction commits, what a merge reports is the row it wrote: *)
(* if no content recurs, HEAD is where the merge saw it.                   *)
LEMMA CommittedReport ==
  ASSUME StoreOK, RefsOK, NEW u \in Users, task[u].pc = "merge_apply",
         ApplyMany(task[u].items), TaskReports(task[u], heads, history),
         NEW r \in DOMAIN task[u].items, FreshOids(r)'
  PROVE  /\ task[u].results[r] = heads[r].seq + 1
         /\ task[u].results[r] \in DOMAIN history'[r]
         /\ history'[r][task[u].results[r]].op = "merge"
<1>. DEFINE item == task[u].items[r]
<1>1. r \in Records /\ heads[r].oid = item.expectedHead
  BY MergeItems DEF ApplyMany, AllCanApply, CanApply, HeadFresh
<1>2. /\ RowsStay(r) /\ heads'[r].seq = heads[r].seq + 1
      /\ history'[r][heads'[r].seq] = item.entry /\ item.entry.op = "merge"
  BY <1>1, ManyRowsStay DEF TaskReports
<1>3. FreshOids(r)
  BY <1>1, <1>2, FreshBefore
<1>4. PICK k \in 0 .. heads[r].seq :
        /\ task[u].results[r] = k + 1
        /\ item.expectedHead = IF k = 0 THEN None ELSE history[r][k].oid
  BY DEF TaskReports, SeenSeq
<1>5. RowsOK(heads[r], history[r]) /\ heads[r].seq \in Nat /\ DOMAIN history[r] = 1 .. heads[r].seq
  BY <1>1 DEF StoreOK, RowsOK, HeadType
<1>6. k = heads[r].seq
  <2>1. CASE heads[r].seq = 0
    BY <1>5, <2>1
  <2>2. CASE heads[r].seq # 0 /\ k = 0
    <3>1. heads[r].seq \in 1 .. heads[r].seq
      BY <1>5, <2>2
    <3>2. heads[r].oid \in Bodies
      BY <1>5, <2>2, <3>1 DEF RowsOK, Row
    <3>. QED
      BY <1>1, <1>4, <2>2, <3>2, NoneAssumption
  <2>3. CASE heads[r].seq # 0 /\ k # 0
    <3>1. heads[r].seq \in DOMAIN history[r] /\ k \in DOMAIN history[r]
      BY <1>5, <2>3
    <3>2. history[r][heads[r].seq].oid = history[r][k].oid
      BY <1>1, <1>4, <1>5, <2>3 DEF RowsOK
    <3>. QED
      BY <1>3, <3>1, <3>2 DEF FreshOids
  <2>. QED
    BY <2>1, <2>2, <2>3
<1>7. heads'[r].seq \in DOMAIN history'[r]
  BY <1>2, <1>5 DEF RowsStay
<1>. QED
  BY <1>2, <1>4, <1>6, <1>7

(* It says so beside what other PRs reported, which are earlier rows.      *)
LEMMA MergeCommitReports ==
  ASSUME StoreOK, RefsOK, NEW u \in Users, task[u].pc = "merge_apply",
         ApplyMany(task[u].items), TaskReports(task[u], heads, history), ReportsItsRow,
         prs' = PutRef(prs, task[u].pr, MergedPr(prs[task[u].pr], task[u].results))
  PROVE  ReportsItsRow'
<1>. DEFINE t == task[u]  P == t.pr
<1>1. P \in DOMAIN prs /\ DOMAIN t.items \subseteq Records
  BY MergeItems
<1>2. /\ DOMAIN prs' = DOMAIN prs /\ prs'[P].results = t.results
      /\ \A q \in DOMAIN prs \ {P} : prs'[q] = prs[q]
  <2>1. prs[P] \in PrType
    BY <1>1, PartialFacts DEF RefsOK, RefsType
  <2>2. MergedPr(prs[P], t.results).results = t.results
    BY <2>1 DEF MergedPr, PrType
  <2>. QED
    BY <1>1, <2>2 DEF PutRef
<1>3. \A q \in DOMAIN prs : DOMAIN prs[q].results \subseteq Records
  <2>1. \A q \in DOMAIN prs : prs[q] \in PrType
    BY PartialFacts DEF RefsOK, RefsType
  <2>. QED
    BY <2>1, PartialFacts DEF PrType
<1>4. \A r \in Records : RowsStay(r)
  BY ManyRowsStay
<1>5. DOMAIN t.results = DOMAIN t.items
  BY DEF TaskReports
<1>6. ASSUME NEW q \in DOMAIN prs \ {P}, NEW r \in DOMAIN prs[q].results, FreshOids(r)'
      PROVE  /\ prs[q].results[r] \in 1 .. heads[r].seq
             /\ prs[q].results[r] \in DOMAIN history'[r]
             /\ history'[r][prs[q].results[r]].op = "merge"
             /\ \A x \in DOMAIN prs \ {q} :
                  r \in DOMAIN prs[x].results => prs[x].results[r] # prs[q].results[r]
  <2>1. r \in Records /\ RowsStay(r) /\ FreshOids(r)
    BY <1>3, <1>4, <1>6, FreshBefore
  <2>2. /\ prs[q].results[r] \in DOMAIN history[r]
        /\ history[r][prs[q].results[r]].op = "merge"
        /\ \A x \in DOMAIN prs \ {q} :
             r \in DOMAIN prs[x].results => prs[x].results[r] # prs[q].results[r]
    BY <2>1 DEF ReportsItsRow
  <2>. QED
    BY <2>1, <2>2 DEF RowsStay
<1>7. ASSUME NEW q \in DOMAIN prs \ {P}, NEW r \in DOMAIN prs[q].results, FreshOids(r)',
             r \in DOMAIN t.results
      PROVE  prs[q].results[r] # t.results[r]
  <2>1. t.results[r] = heads[r].seq + 1
    BY <1>5, <1>7, CommittedReport
  <2>2. prs[q].results[r] \in 1 .. heads[r].seq /\ heads[r].seq \in Nat
    BY <1>3, <1>4, <1>6, <1>7 DEF RowsStay
  <2>. QED
    BY <2>1, <2>2
<1>8. ASSUME NEW p \in DOMAIN prs', NEW r \in DOMAIN prs'[p].results, FreshOids(r)'
      PROVE  /\ prs'[p].results[r] \in DOMAIN history'[r]
             /\ history'[r][prs'[p].results[r]].op = "merge"
             /\ \A q \in DOMAIN prs' \ {p} :
                  r \in DOMAIN prs'[q].results => prs'[q].results[r] # prs'[p].results[r]
  <2>1. CASE p = P
    <3>1. r \in DOMAIN t.items /\ prs'[p].results = t.results
      BY <1>2, <1>5, <2>1
    <3>2. t.results[r] \in DOMAIN history'[r] /\ history'[r][t.results[r]].op = "merge"
      BY <1>8, <3>1, CommittedReport
    <3>3. ASSUME NEW q \in DOMAIN prs' \ {p}, r \in DOMAIN prs'[q].results
          PROVE  prs'[q].results[r] # t.results[r]
      <4>1. q \in DOMAIN prs \ {P} /\ r \in DOMAIN prs[q].results /\ prs'[q] = prs[q]
        BY <1>2, <2>1, <3>3
      <4>. QED
        BY <1>5, <1>7, <1>8, <3>1, <4>1
    <3>. QED
      BY <3>1, <3>2, <3>3
  <2>2. CASE p # P
    <3>1. p \in DOMAIN prs \ {P} /\ prs'[p] = prs[p] /\ r \in DOMAIN prs[p].results
      BY <1>2, <2>2
    <3>2. ASSUME NEW q \in DOMAIN prs' \ {p}, r \in DOMAIN prs'[q].results
          PROVE  prs'[q].results[r] # prs[p].results[r]
      <4>1. CASE q = P
        BY <1>2, <1>7, <1>8, <3>1, <3>2, <4>1
      <4>2. CASE q # P
        BY <1>2, <1>6, <1>8, <3>1, <3>2, <4>2
      <4>. QED
        BY <4>1, <4>2
    <3>. QED
      BY <1>6, <1>8, <3>1, <3>2
  <2>. QED
    BY <2>1, <2>2
<1>. QED
  BY <1>8 DEF ReportsItsRow

(* Every step of a user keeps the reports right.                           *)
LEMMA UserReports ==
  ASSUME StoreOK, RefsOK, ReportsOK, NEW u \in Users,
         UserStep(u) \/ (Die(u) /\ UNCHANGED storeVars)
  PROVE  ReportsOK'
<1>1. \A v \in Users : TaskReports(task[v], heads, history)
      /\ DOMAIN task[v].items \subseteq Records
  BY TaskFacts, PartialFacts DEF ReportsOK
<1>2. /\ \A v \in Users \ {u} : task'[v] = task[v]
      /\ TaskReports(task'[u], heads, history)
      /\ DOMAIN task'[u].items \subseteq Records
  <2>1. CASE MergeHead(u) /\ UNCHANGED storeVars
    <3>1. RefsOK'
      BY <2>1, MergeHeadStep
    <3>2. task' \in [Users -> Task]
      BY <3>1 DEF RefsOK, RefsType
    <3>3. task'[u].items \in Partial(Records, MergeItemType)
      BY <3>2 DEF Task
    <3>. QED
      BY <1>1, <2>1, <3>3, MergeHeadReports, PartialFacts
  <2>2. CASE ~MergeHead(u)
    <3>1. SameReport(task[u], task'[u]) /\ \A v \in Users \ {u} : task'[v] = task[v]
      BY <2>2, TaskSameReport DEF UserStep
    <3>. QED
      BY <1>1, <3>1, SameReportKeeps, PartialFacts DEF SameReport
  <2>3. MergeHead(u) /\ ~UNCHANGED storeVars => FALSE
    BY DEF UserStep, MergeApply, MergeHead
  <2>. QED
    BY <2>1, <2>2, <2>3
<1>3. \A r \in Records : RowsStay(r)
  <2>1. CASE UNCHANGED storeVars
    BY <2>1, SameRowsStay DEF storeVars
  <2>2. CASE \E items : ApplyMany(items)
    BY <2>2, ManyRowsStay
  <2>. QED
    BY <2>1, <2>2 DEF UserStep, MergeApply
<1>4. \A v \in Users : TaskReports(task'[v], heads', history')
  BY <1>1, <1>2, <1>3, ReportsStable
<1>5. ReportsItsRow'
  <2>1. CASE Command(u) \/ Draws(u) \/ Die(u)
    BY <1>3, <2>1, PrsKeepReports, ReportsKept DEF ReportsOK
  <2>2. CASE MergeApply(u) /\ UNCHANGED <<storeVars, refVars>>
    <3>1. KeptReports
      BY <2>2 DEF KeptReports, refVars
    <3>. QED
      BY <1>3, <3>1, ReportsKept DEF ReportsOK
  <2>3. CASE MergeApply(u) /\ ~UNCHANGED <<storeVars, refVars>>
    <3>1. /\ task[u].pc = "merge_apply" /\ ApplyMany(task[u].items)
          /\ prs' = PutRef(prs, task[u].pr, MergedPr(prs[task[u].pr], task[u].results))
      BY <2>3 DEF MergeApply
    <3>. QED
      BY <1>1, <3>1, MergeCommitReports DEF ReportsOK
  <2>. QED
    BY <2>1, <2>2, <2>3 DEF UserStep
<1>. QED
  BY <1>4, <1>5 DEF ReportsOK

(* ... and so does every step.                                             *)
LEMMA NextReports == IInv /\ ReportsOK /\ [BranchesNext]_branchVars => ReportsOK'
<1>. SUFFICES ASSUME StoreOK, RefsOK, ReportsOK, [BranchesNext]_branchVars
              PROVE  ReportsOK'
  BY DEF IInv
<1>1. CASE MainStep
  <2>1. \A r \in Records : RowsStay(r)
    BY <1>1, MainRowsStay
  <2>2. prs' = prs /\ task' = task
    BY <1>1 DEF MainStep, refVars
  <2>3. \A u \in Users : TaskReports(task'[u], heads', history')
    <3>1. ASSUME NEW u \in Users
          PROVE  DOMAIN task[u].items \subseteq Records
      <4>1. task[u].items \in Partial(Records, MergeItemType)
        BY TaskFacts
      <4>. QED
        BY <4>1, PartialFacts
    <3>. QED
      BY <2>1, <2>2, <3>1, ReportsStable DEF ReportsOK
  <2>4. KeptReports
    BY <2>2 DEF KeptReports
  <2>. QED
    BY <2>1, <2>3, <2>4, ReportsKept DEF ReportsOK
<1>2. ASSUME NEW u \in Users, UserStep(u) \/ (Die(u) /\ UNCHANGED storeVars)
      PROVE  ReportsOK'
  BY <1>2, UserReports
<1>3. CASE UNCHANGED branchVars
  BY <1>3 DEF branchVars, ReportsOK, ReportsItsRow, FreshOids, TaskReports, SeenSeq
<1>. QED
  BY <1>1, <1>2, <1>3 DEF BranchesNext

(* A PR that was merged reports the row its merge wrote, and no two report *)
(* the same, though the seq was computed before the transaction: as long   *)
(* as no content of the record recurs (merge_pull_request).                *)
THEOREM ReportsAreRows == BranchesSpec => []ReportsItsRow
<1>1. BranchesInit => ReportsOK
  <2>. SUFFICES ASSUME BranchesInit PROVE ReportsOK
    OBVIOUS
  <2>1. DOMAIN prs = {} /\ \A u \in Users : task[u] = NoTask
    BY PartialFacts DEF BranchesInit
  <2>2. DOMAIN NoTask.items = {} /\ DOMAIN NoTask.results = {}
    BY PartialFacts DEF NoTask
  <2>. QED
    BY <2>1, <2>2 DEF ReportsOK, ReportsItsRow, TaskReports
<1>2. ReportsOK => ReportsItsRow
  BY DEF ReportsOK
<1>. QED
  BY <1>1, <1>2, NextReports, BranchesIInv, PTL DEF BranchesSpec
=============================================================================
