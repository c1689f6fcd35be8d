------------------------------- MODULE WebUI -------------------------------
(***************************************************************************)
(* The page of cfg ui (ui/server.py): one user, the page's state, and the  *)
(* requests it has sent to the local server and not been answered.  A      *)
(* callback runs when its answer arrives, whatever the user did meanwhile; *)
(* answers arrive in any order, and that to a question about the state may *)
(* hold nothing.  Behind the server others change the records, the         *)
(* branches and the pull requests.                                         *)
(*                                                                         *)
(* Of a history only "some older version" is kept, of a document only the  *)
(* record it is of; a PR is named by its head branch.                      *)
(***************************************************************************)
EXTENDS Naturals, FiniteSetsExt

CONSTANTS
  Records,
  Drafts,     \* the names of draft branches
  Main,       \* the default branch
  None,
  MaxClicks,  \* bound on the user's actions
  MaxFlight,  \* nothing is asked by hand or by the timer beyond so many requests
  MaxOthers   \* bound on the changes others make, the answers that fail and the
              \* changes of env, together

VARIABLES
  store,   \* what the server finds: records, those that drifted, branches, open PRs
  page,    \* the global S and what is on the screen
  flight,  \* requests not answered yet; identical ones count as one
  clicks, others

uiVars == <<store, page, flight, clicks, others>>

Stores ==
  [records : SUBSET Records, drift : SUBSET Records, branches : SUBSET Drafts,
   prs : SUBSET Drafts]

Nothing == [records |-> {}, drift |-> {}, branches |-> {}, prs |-> {}]

(* What an env can hold: a PR needs its branch.                            *)
Held == {s \in Stores : s.records = Records /\ s.prs \subseteq s.branches}

Tabs == {"records", "branches", "pr", "history"}

NoAct == [kind |-> "none", rec |-> None, on |-> FALSE]

NoHist == [rec |-> None, drift |-> FALSE]

Blank ==
  [tab |-> "records", sel |-> None,
   seen |-> Nothing,  \* S.records, S.branches, S.prs
   branch |-> Main,   \* the branch selector
   hist |-> NoHist,   \* the record whose versions are listed
   work |-> None,     \* the head branch whose comparison is on the screen
   diff |-> "none",   \* the diff panel: none, spin or shown,
   impact |-> FALSE,  \* with the impact panel on top,
   act |-> NoAct,     \* and its button, which acts once its callback ran
   prHead |-> None, modal |-> None]

NoModal == [kind |-> "none", rec |-> None, doc |-> None, branch |-> None, go |-> FALSE]

-----------------------------------------------------------------------------
(* Requests, each with what its callback has captured.                     *)
AskState(then) == [kind |-> "state", then |-> then, answer |-> None]

AskLog(r, drift) == [kind |-> "log", rec |-> r, drift |-> drift]

AskDiff(r) == [kind |-> "drift", rec |-> r]

AskNode == [kind |-> "node"]

AskImpact == [kind |-> "impact"]

AskShow(r, b) == [kind |-> "show", rec |-> r, branch |-> b]

AskCompare(h) == [kind |-> "compare", head |-> h]

(* A change: what is sent, and what the user was shown.                    *)
AskDo(act, r, b, shown, then) ==
  [kind |-> "do", act |-> act, rec |-> r, branch |-> b, shown |-> shown, then |-> then,
   answer |-> None]

Then(next) == [next |-> next, keep |-> None, tab |-> "records", branch |-> None]

(* A callback leaves a page and may ask for more.                          *)
Leaves(p, ask) == [page |-> p, ask |-> ask]

-----------------------------------------------------------------------------
(* What the functions of the page do to it.                                *)

(* renderBranches: a branch that is gone gives way to the default branch.  *)
RenderBranches(p) ==
  [p EXCEPT !.branch = IF @ \in p.seen.branches THEN @ ELSE Main]

RenderRecentHistory(p) ==
  [p EXCEPT !.tab = "history", !.hist = NoHist, !.work = None, !.diff = "none",
            !.impact = FALSE, !.act = NoAct]

RenderBranchesWorkspace(p) ==
  [p EXCEPT !.tab = "branches", !.hist = NoHist, !.work = None, !.act = NoAct]

SelectRecord(p, r) ==
  Leaves([RenderBranches(p) EXCEPT !.tab = "records", !.sel = r, !.hist = NoHist,
            !.work = None, !.diff = "spin", !.impact = FALSE, !.act = NoAct],
         {AskLog(r, r \in p.seen.drift)})

ShowDrift(p, r) ==
  Leaves([p EXCEPT !.act = [kind |-> "adopt", rec |-> None, on |-> FALSE],
                   !.diff = "spin", !.impact = FALSE],
         {AskDiff(r)})

SelectNode(p, older) ==
  Leaves([p EXCEPT !.act = [kind |-> IF older THEN "restore" ELSE "none",
                            rec |-> None, on |-> FALSE],
                   !.diff = "spin", !.impact = FALSE],
         {AskNode})

(* renderPrWorkspace, which loads the comparison: of prHead, if it is a    *)
(* draft branch, else of the branch selected, else of any.                 *)
PrHeads(p) ==
  IF p.prHead \in p.seen.branches THEN {p.prHead}
  ELSE IF p.branch \in p.seen.branches THEN {p.branch}
  ELSE IF p.seen.branches # {} THEN p.seen.branches ELSE {None}

RenderPrWorkspace(p) ==
  {LET q == [p EXCEPT !.tab = "pr", !.prHead = h, !.work = h, !.hist = NoHist,
                      !.act = NoAct, !.impact = FALSE,
                      !.diff = IF h = None THEN "none" ELSE "spin"]
   IN  Leaves(q, IF h = None THEN {} ELSE {AskCompare(h)}) : h \in PrHeads(p)}

(* syncTopBranch: the branch selector follows, if it offers the branch.    *)
SyncTopBranch(p, b) ==
  IF b \in p.seen.branches THEN [p EXCEPT !.branch = b] ELSE p

Busy(p) == p.modal # None \/ p.diff = "spin" \/ p.impact

(* Bug: the pull requests are those of the first load.                     *)
LoadedWithoutPrs(p, answer, refresh) ==
  LET q == RenderBranches([p EXCEPT !.seen = [answer EXCEPT !.prs = p.seen.prs]])
  IN  IF ~refresh /\ q.sel = None /\ q.tab \notin {"pr", "branches"}
        THEN RenderRecentHistory(q) ELSE q

(* loadState, once its answers are there.                                  *)
Loaded(p, answer, refresh) ==
  LET q == RenderBranches([p EXCEPT !.seen = answer])
  IN  IF ~refresh /\ q.sel = None /\ q.tab \notin {"pr", "branches"}
        THEN RenderRecentHistory(q) ELSE q

(* Bug: the record selected is not selected again.                         *)
BackToTab(p, then) ==
  CASE then.tab = "pr" -> RenderPrWorkspace(p)
    [] then.tab = "branches" -> {Leaves(RenderBranchesWorkspace(p), {})}
    [] then.tab = "history" -> {Leaves(RenderRecentHistory(p), {})}
    [] OTHER -> {Leaves([p EXCEPT !.tab = "records"], {})}

(* Back to the tab, and to the record, captured before loadState.          *)
BackTo(p, then) ==
  CASE then.tab = "pr" -> RenderPrWorkspace(p)
    [] then.tab = "branches" -> {Leaves(RenderBranchesWorkspace(p), {})}
    [] then.tab = "history" /\ then.next = "refresh" -> {Leaves(RenderRecentHistory(p), {})}
    [] \/ then.tab = "records" /\ then.keep # None
       \/ then.tab = "history" /\ then.keep # None /\ then.next # "refresh" ->
         {SelectRecord(p, then.keep)}
    [] then.tab = "records" /\ then.keep = None /\ then.next = "refresh" ->
         {Leaves([p EXCEPT !.tab = "records"], {})}
    [] OTHER -> {Leaves(p, {})}

(* afterBranch takes the tab as it is now, not as it was.                  *)
BranchNext(p, then) ==
  LET made == then.branch # None
      q == IF made /\ then.branch \in p.seen.branches
             THEN [p EXCEPT !.branch = then.branch] ELSE p
  IN  CASE q.tab = "pr" ->
             RenderPrWorkspace(IF made THEN [q EXCEPT !.prHead = then.branch] ELSE q)
        [] q.tab = "branches" -> {Leaves(RenderBranchesWorkspace(q), {})}
        [] OTHER -> {Leaves(RenderBranches(q), {})}

StateArrives(p, q) ==
  LET loaded == Loaded(p, q.answer, q.then.next = "refresh")
  IN  CASE q.then.next \in {"refresh", "after"} -> BackTo(loaded, q.then)
        [] q.then.next = "branch" -> BranchNext(loaded, q.then)
        [] q.then.next = "pr" -> RenderPrWorkspace(loaded)
        [] q.then.next = "deleted" /\ loaded.tab = "branches" ->
             {Leaves(RenderBranchesWorkspace(loaded), {})}
        [] OTHER -> {Leaves(loaded, {})}

LogArrives(p, q) ==
  LET listed == [p EXCEPT !.hist = [rec |-> q.rec, drift |-> q.drift], !.work = None]
  IN  {IF q.drift THEN ShowDrift(listed, q.rec) ELSE SelectNode(listed, FALSE)}

(* The callbacks of the diffs look their buttons up in the page as it is;  *)
(* showDrift fails when its button is gone.                                *)
DriftArrives(p, q) ==
  LET shown == [p EXCEPT !.diff = "shown", !.impact = FALSE]
  IN  {IF p.act.kind = "adopt"
         THEN Leaves([shown EXCEPT !.act.rec = q.rec, !.act.on = TRUE], {AskImpact})
         ELSE Leaves(shown, {})}

NodeArrives(p) ==
  {Leaves([p EXCEPT !.diff = "shown", !.impact = FALSE, !.act.on = @ \/ p.act.kind = "restore"],
          {})}

(* The comparison has no place to go when its workspace is off the screen. *)
CompareArrives(p) ==
  {Leaves(IF p.work = None THEN p ELSE [p EXCEPT !.diff = "shown", !.impact = FALSE], {})}

(* openDraftCommit goes on: the form has the document that was fetched,    *)
(* and names the record selected now.                                      *)
ShowArrives(p, q) ==
  {Leaves([p EXCEPT !.modal = [NoModal EXCEPT !.kind = "draft", !.rec = p.sel, !.doc = q.rec,
                                              !.branch = q.branch, !.go = TRUE]], {})}

(* The answer to a change closes the modal and loads the state.            *)
DoneArrives(p, q) ==
  LET closed == [p EXCEPT !.modal = None]
      after == CASE q.then = "after" -> [Then("after") EXCEPT !.keep = p.sel, !.tab = p.tab]
                 [] q.then = "branch" ->
                      [Then("branch") EXCEPT !.branch =
                         IF q.answer = "ok" /\ q.act = "create" THEN q.branch ELSE None]
                 [] OTHER -> Then(q.then)
      head == CASE q.then = "pr" -> q.branch
                [] q.then = "deleted" /\ q.answer = "ok" /\ p.prHead = q.branch -> None
                [] OTHER -> p.prHead
  IN  {Leaves([closed EXCEPT !.prHead = head], {AskState(after)})}

-----------------------------------------------------------------------------
(* The server answers each request in a thread of its own.                 *)
(* _state: all the page shows is read again.  A listing of branches or PRs *)
(* that raises empties both; when the status raises there is nothing.      *)
ServeState(q) ==
  /\ q.kind = "state" /\ q.answer = None
  /\ \E answer \in {store, [store EXCEPT !.branches = {}, !.prs = {}], Nothing} :
       /\ flight' = (flight \ {q}) \cup {[q EXCEPT !.answer = answer]}
       /\ IF answer = store THEN UNCHANGED others
          ELSE others < MaxOthers /\ others' = others + 1
  /\ UNCHANGED <<store, page, clicks>>

(* When the engine does what it is asked (run_named_action).               *)
Accepted(q) ==
  CASE q.act = "adopt" -> q.rec # None
    [] q.act = "restore" -> q.rec # None /\ q.rec \notin store.drift
    [] q.act = "commit" -> q.rec # None /\ (q.branch = Main \/ q.branch \in store.branches)
    [] q.act = "create" -> q.branch \notin store.branches
    [] q.act = "delete" -> q.branch \in store.branches \ store.prs
    [] q.act = "open" -> q.branch \in store.branches
    [] q.act = "merge" -> q.branch \in store.prs

Effect(q) ==
  CASE q.act = "adopt" -> [store EXCEPT !.drift = @ \ {q.rec}]
    [] q.act = "create" -> [store EXCEPT !.branches = @ \cup {q.branch}]
    [] q.act = "delete" -> [store EXCEPT !.branches = @ \ {q.branch}]
    [] q.act = "open" -> [store EXCEPT !.prs = @ \cup {q.branch}]
    [] q.act = "merge" -> [store EXCEPT !.prs = @ \ {q.branch}]
    [] OTHER -> store

ServeDo(q) ==
  /\ q.kind = "do" /\ q.answer = None
  /\ \/ /\ Accepted(q) /\ store' = Effect(q)
        /\ flight' = (flight \ {q}) \cup {[q EXCEPT !.answer = "ok"]}
     \/ /\ flight' = (flight \ {q}) \cup {[q EXCEPT !.answer = "error"]}
        /\ UNCHANGED store
  /\ UNCHANGED <<page, clicks, others>>

(* An answer arrives and its callback runs to its next await.              *)
Callback(p, q) ==
  CASE q.kind = "state" -> StateArrives(p, q)
    [] q.kind = "log" -> LogArrives(p, q)
    [] q.kind = "drift" -> DriftArrives(p, q)
    [] q.kind = "node" -> NodeArrives(p)
    [] q.kind = "impact" -> {Leaves([p EXCEPT !.impact = TRUE], {})}
    [] q.kind = "show" -> ShowArrives(p, q)
    [] q.kind = "compare" -> CompareArrives(p)
    [] q.kind = "do" -> DoneArrives(p, q)

Answered(q) == q.kind \in {"state", "do"} => q.answer # None

Arrive(q) ==
  /\ Answered(q)
  /\ \E l \in Callback(page, q) :
       page' = l.page /\ flight' = (flight \ {q}) \cup l.ask
  /\ UNCHANGED <<store, clicks, others>>

-----------------------------------------------------------------------------
(* The user.  Behind an open modal nothing else can be reached.            *)
Asking == Cardinality(flight) < MaxFlight

Press(l) ==
  /\ Asking
  /\ page' = l.page /\ flight' = flight \cup l.ask
  /\ UNCHANGED <<store, others>>

Click(l) == clicks < MaxClicks /\ clicks' = clicks + 1 /\ Press(l)

Free == page.modal = None

Show(m) == Leaves([page EXCEPT !.modal = m], {})

ClickRecord(r) == Free /\ r \in page.seen.records /\ Click(SelectRecord(page, r))

ClickVersion(older) == Free /\ page.hist.rec # None /\ Click(SelectNode(page, older))

ClickLive == Free /\ page.hist.drift /\ Click(ShowDrift(page, page.hist.rec))

(* openAdopt names the record of the diff, openRestore the one selected,   *)
(* which it looks up among the records loaded.                             *)
ClickAdopt ==
  /\ Free /\ page.act.kind = "adopt" /\ page.act.on
  /\ Click(Show([NoModal EXCEPT !.kind = "adopt", !.rec = page.act.rec, !.go = TRUE]))

ClickRestore ==
  /\ Free /\ page.act.kind = "restore" /\ page.act.on /\ page.sel \in page.seen.records
  /\ Click(Show([NoModal EXCEPT !.kind = "restore", !.rec = page.sel, !.go = TRUE]))

OnBranchesTab(p) == IF p.tab = "branches" THEN p ELSE RenderBranchesWorkspace(p)

ClickDraftCommit ==
  /\ Free /\ page.branch # Main /\ page.sel # None
  /\ Click(Leaves(OnBranchesTab(page), {AskShow(page.sel, page.branch)}))

ClickNewBranch ==
  Free /\ Click(Leaves([OnBranchesTab(page) EXCEPT
                          !.modal = [NoModal EXCEPT !.kind = "create", !.go = TRUE]], {}))

(* The user has typed the name of the branch.                              *)
ClickDeleteBranch(b) ==
  /\ Free /\ page.tab = "branches" /\ b \in page.seen.branches
  /\ Click(Show([NoModal EXCEPT !.kind = "delete", !.branch = b, !.go = TRUE]))

ChooseBranch(b) ==
  /\ Free /\ b \in page.seen.branches \cup {Main}
  /\ LET q == [page EXCEPT !.branch = b]
     IN  CASE q.tab = "pr" ->
                \E l \in RenderPrWorkspace(IF b = Main THEN q ELSE [q EXCEPT !.prHead = b]) :
                  Click(l)
           [] q.tab = "branches" -> Click(Leaves(RenderBranchesWorkspace(q), {}))
           [] OTHER -> Click(Leaves(q, {}))

(* Compare, View PR and the source menu show the comparison of a branch.   *)
ClickCompare(b) ==
  /\ Free /\ b \in page.seen.branches
  /\ page.tab \in {"branches", "pr"} \/ page.branch = b
  /\ \E l \in RenderPrWorkspace([SyncTopBranch(page, b) EXCEPT !.prHead = b]) : Click(l)

(* openMergeModal, on the tab of the pull requests.                        *)
ClickMerge ==
  /\ Free /\ page.branch \in page.seen.prs
  /\ \E l \in IF page.tab = "pr" THEN {Leaves(page, {})} ELSE RenderPrWorkspace(page) :
       Click(Leaves([l.page EXCEPT !.modal = [NoModal EXCEPT !.kind = "merge",
                                                !.branch = page.branch, !.go = TRUE]], l.ask))

(* The buttons of the comparison take prHead, whatever is compared.        *)
ClickInline(act) ==
  /\ Free /\ page.work # None /\ page.prHead # None
  /\ (act = "merge") <=> page.prHead \in page.seen.prs
  /\ Click(Leaves(page, {AskDo(act, None, page.prHead, NoModal, "pr")}))

ClickTab(t) ==
  /\ Free
  /\ CASE t = "records" ->
            LET q == [page EXCEPT !.tab = t]
            IN  Click(Leaves(IF q.sel # None THEN q
                             ELSE [q EXCEPT !.hist = NoHist, !.work = None, !.diff = "none",
                                            !.impact = FALSE, !.act = NoAct], {}))
       [] t = "branches" -> Click(Leaves(RenderBranchesWorkspace(page), {}))
       [] t = "history" -> Click(Leaves(RenderRecentHistory([page EXCEPT !.sel = None]), {}))
       [] t = "pr" -> \E l \in RenderPrWorkspace(page) : Click(l)

(* The env selector.  What the env left still answers is late, whatever it *)
(* says: it is taken to have been asked before; and what the other env     *)
(* holds is found out now.                                                 *)
ChooseEnv ==
  /\ Free /\ Asking /\ clicks < MaxClicks /\ clicks' = clicks + 1
  /\ \A q \in flight : Answered(q)
  /\ store' \in Held
  /\ page' = [page EXCEPT !.sel = None]
  /\ flight' = flight \cup {AskState(Then("load"))}
  /\ others < MaxOthers /\ others' = others + 1

(* Bug: a draft is committed to the branch selected when it is sent.       *)
BranchSelectedNow == page.branch

(* The branch a draft goes to: the one its form was opened for.            *)
BranchOfForm == page.modal.branch

(* Bug: the merge takes the branch whose comparison was rendered last.     *)
PrOfWorkspace == page.prHead

(* The PR chosen in the form.                                              *)
PrOfForm == page.modal.branch

(* The button of the modal: the record is the one selected now.            *)
Go ==
  LET m == page.modal
      send(act, r, b, then) ==
        Press(Leaves([page EXCEPT !.modal.go = FALSE], {AskDo(act, r, b, m, then)}))
  IN  /\ m # None /\ m.go /\ UNCHANGED clicks
      /\ \/ m.kind \in {"adopt", "restore"} /\ send(m.kind, page.sel, None, "after")
         \/ m.kind = "draft" /\ send("commit", page.sel, BranchOfForm, "branch")
         \/ m.kind = "create" /\ \E b \in Drafts : send("create", None, b, "branch")
         \/ m.kind = "delete" /\ send("delete", None, m.branch, "deleted")
         \/ m.kind = "merge" /\ send("merge", None, PrOfForm, "after")

Cancel == page.modal # None /\ Press(Show(None)) /\ UNCHANGED clicks

User ==
  \/ \E r \in Records : ClickRecord(r)
  \/ \E older \in BOOLEAN : ClickVersion(older)
  \/ ClickLive \/ ClickAdopt \/ ClickRestore \/ ClickDraftCommit \/ ClickNewBranch
  \/ \E b \in Drafts : ClickDeleteBranch(b) \/ ClickCompare(b)
  \/ \E b \in Drafts \cup {Main} : ChooseBranch(b)
  \/ ClickMerge
  \/ \E act \in {"open", "merge"} : ClickInline(act)
  \/ \E t \in Tabs : ClickTab(t)
  \/ ChooseEnv \/ Go \/ Cancel

(* Refresh, by the button or, unless the page is busy, by the timer.       *)
SoftRefresh ==
  AskState([Then("refresh") EXCEPT !.keep = page.sel, !.tab = page.tab])

ClickRefresh == Free /\ Click(Leaves(page, {SoftRefresh}))

Quiet == ~Busy(page)

AutoRefresh ==
  /\ Quiet /\ Asking
  /\ flight' = flight \cup {SoftRefresh}
  /\ UNCHANGED <<store, page, clicks, others>>

(* Other operators, in a terminal or another tab, and the application.     *)
Elsewhere ==
  /\ others < MaxOthers /\ others' = others + 1
  /\ store' \in {[store EXCEPT !.drift = SymDiff(@, {r})] : r \in Records}
             \cup {[store EXCEPT !.branches = SymDiff(@, {b})] : b \in Drafts}
             \cup {[store EXCEPT !.prs = SymDiff(@, {b})] : b \in Drafts}
  /\ store'.prs \subseteq store'.branches
  /\ UNCHANGED <<page, flight, clicks>>

Answer(q) == ServeState(q) \/ ServeDo(q) \/ Arrive(q)

UINext ==
  \/ User \/ ClickRefresh \/ AutoRefresh \/ Elsewhere
  \/ \E q \in flight : Answer(q)

(* A page that has been worked with: one record and one branch selected,   *)
(* all answers there.                                                      *)
Settled(r, b) ==
  LET drift == r \in store.drift
  IN  [Blank EXCEPT !.sel = r, !.seen = store, !.branch = b,
         !.hist = [rec |-> r, drift |-> drift], !.diff = "shown", !.impact = drift,
         !.act = IF drift THEN [kind |-> "adopt", rec |-> r, on |-> TRUE] ELSE NoAct]

(* The page is opened, its first loadState under way; or it is settled.    *)
UIInit ==
  /\ store \in Held
  /\ \/ page = Blank /\ flight = {AskState(Then("load"))}
     \/ /\ \E r \in Records, b \in store.branches \cup {Main} : page = Settled(r, b)
        /\ flight = {}
  /\ clicks = 0 /\ others = 0

UISpec == UIInit /\ [][UINext]_uiVars

(* The server answers, answers arrive, and the timer goes off; the user    *)
(* need not do anything.                                                   *)
UIFairness ==
  /\ WF_uiVars(AutoRefresh)
  /\ WF_uiVars(\E q \in flight : ServeState(q) \/ ServeDo(q))
  /\ \A kind \in {"state", "log"} : WF_uiVars(\E q \in flight : q.kind = kind /\ Arrive(q))
  /\ WF_uiVars(\E q \in flight : q.kind \notin {"state", "log"} /\ Arrive(q))

FairUISpec == UISpec /\ UIFairness
-----------------------------------------------------------------------------
Sent(act) == {q \in flight : q.kind = "do" /\ q.act = act}

(* "This stores a branch commit only; runtime changes only after PR merge" *)
(* (the form of a draft commit): no draft is ever sent to main, although   *)
(* the branch selector falls back to main when the branch is gone.         *)
DraftStaysDraft == \A q \in Sent("commit") : q.branch # Main

(* A form merges the PR, or commits to and deletes the branch, it names,   *)
(* whatever answers arrived since it was opened.                           *)
FormMeansBranch ==
  \A q \in Sent("commit") \cup Sent("delete") \cup Sent("merge") :
    q.shown.kind # "none" => q.branch = q.shown.branch

(* "Auto-refresh: pick up out-of-band changes without a manual reload": if *)
(* the page is not busy for good, it comes to show the records, branches   *)
(* and PRs there are, once they do not change any more and the server does *)
(* not fail to tell them, and keeps to them.                               *)
PicksUpChanges == []<>Quiet => <>[](page.seen = store)

(* A record that is selected comes to be the one whose versions are        *)
(* listed, however the answers of earlier selections are late.             *)
HistoryFollows ==
  (<>[](page.tab = "records" /\ page.sel # None) /\ []<>Quiet)
    => []<>(page.hist.rec = page.sel)

-----------------------------------------------------------------------------
(* What the page says, and does not do.                                    *)

(* "Re-apply the <ref> version of <record>", "Fold the current live value  *)
(* of <record> into history", "Edit the JSON for <record>", and "we never  *)
(* yank the view out from under you": a form acts on the record it names.  *)
FormMeansRecord ==
  \A q \in Sent("adopt") \cup Sent("restore") \cup Sent("commit") :
    q.rec \in {q.shown.rec, None}
=============================================================================
