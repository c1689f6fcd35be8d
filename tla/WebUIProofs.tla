---------------------------- MODULE WebUIProofs ----------------------------
(***************************************************************************)
(* Proofs about WebUI, for any records, branches and bounds: what the      *)
(* forms of the page mean, whatever answers arrive while they are open.    *)
(***************************************************************************)
EXTENDS WebUI, TLAPS

MaybeRecord == Records \cup {None}

Forks == Drafts \ {Main}

(* A form: only those that fork from the page name no branch, and that of  *)
(* a draft commit names a draft branch.                                    *)
DraftForm ==
  [kind : {"draft"}, rec : MaybeRecord, doc : MaybeRecord, branch : Forks, go : BOOLEAN]

OtherForm ==
  [kind : {"adopt", "restore", "create", "delete", "merge"}, rec : MaybeRecord,
   doc : {None}, branch : Drafts \cup {None}, go : BOOLEAN]

Form == DraftForm \cup OtherForm

Page ==
  [tab : Tabs, sel : MaybeRecord, seen : Stores, branch : Drafts \cup {Main},
   hist : [rec : MaybeRecord, drift : BOOLEAN], work : Drafts \cup {None},
   diff : {"none", "spin", "shown"}, impact : BOOLEAN,
   act : [kind : {"none", "adopt", "restore"}, rec : MaybeRecord, on : BOOLEAN],
   prHead : Drafts \cup {None}, modal : Form \cup {None}]

Next ==
  [next : {"load", "refresh", "after", "branch", "pr", "deleted"}, keep : MaybeRecord,
   tab : Tabs, branch : Drafts \cup {None}]

StateRequest == [kind : {"state"}, then : Next, answer : Stores \cup {None}]

LogRequest == [kind : {"log"}, rec : Records, drift : BOOLEAN]

DiffRequest == [kind : {"drift"}, rec : MaybeRecord]

PanelRequest == [kind : {"node", "impact"}]

ShowRequest == [kind : {"show"}, rec : MaybeRecord, branch : Forks]

CompareRequest == [kind : {"compare"}, head : Drafts]

(* A change that a form asked for.                                         *)
FormRequest ==
  [kind : {"do"}, act : {"adopt", "restore", "commit", "create", "delete", "merge"},
   rec : MaybeRecord, branch : Drafts \cup {None}, shown : Form,
   then : {"after", "branch", "deleted"}, answer : {None, "ok", "error"}]

(* A change that a button of the comparison asked for: no form was shown.  *)
InlineRequest ==
  [kind : {"do"}, act : {"open", "merge"}, rec : {None}, branch : Drafts,
   shown : {NoModal}, then : {"pr"}, answer : {None, "ok", "error"}]

DoRequest == FormRequest \cup InlineRequest

Request ==
  UNION {StateRequest, LogRequest, DiffRequest, PanelRequest, ShowRequest,
         CompareRequest, DoRequest}

(* What a form sends is what it shows: the branch of the form.             *)
MeansForm(q) ==
  /\ q.act \in {"commit", "delete", "merge"} /\ q.shown.kind # "none" =>
       q.branch = q.shown.branch
  /\ q.act = "commit" => q.shown.kind = "draft"
  /\ q.act = "create" => q.branch \in Drafts

Means(q) == q.kind = "do" => MeansForm(q)

UITypeOK == store \in Stores /\ page \in Page /\ flight \subseteq Request

(* The inductive invariant.                                                *)
IInv == UITypeOK /\ \A q \in flight : Means(q)

(* What a callback or a click leaves: a page, and requests.                *)
Fine(l) ==
  l.page \in Page /\ l.ask \subseteq Request /\ \A q \in l.ask : Means(q)

-----------------------------------------------------------------------------
(***************************************************************************)
(* What the functions of the page leave.                                   *)
(***************************************************************************)

(* The requests the page's own functions send are requests, and say        *)
(* nothing of forms.                                                       *)
LEMMA Asks ==
  /\ \A then \in Next : AskState(then) \in Request /\ Means(AskState(then))
  /\ \A r \in Records, drift \in BOOLEAN :
       AskLog(r, drift) \in Request /\ Means(AskLog(r, drift))
  /\ \A r \in MaybeRecord : AskDiff(r) \in Request /\ Means(AskDiff(r))
  /\ AskNode \in Request /\ Means(AskNode)
  /\ AskImpact \in Request /\ Means(AskImpact)
  /\ \A r \in MaybeRecord, b \in Forks :
       AskShow(r, b) \in Request /\ Means(AskShow(r, b))
  /\ \A h \in Drafts : AskCompare(h) \in Request /\ Means(AskCompare(h))
<1>1. ASSUME NEW then \in Next PROVE AskState(then) \in StateRequest /\ Means(AskState(then))
  BY DEF AskState, StateRequest, Means
<1>2. ASSUME NEW r \in Records, NEW drift \in BOOLEAN
      PROVE  AskLog(r, drift) \in LogRequest /\ Means(AskLog(r, drift))
  BY DEF AskLog, LogRequest, Means
<1>3. ASSUME NEW r \in MaybeRecord PROVE AskDiff(r) \in DiffRequest /\ Means(AskDiff(r))
  BY DEF AskDiff, DiffRequest, Means
<1>4. /\ AskNode \in PanelRequest /\ Means(AskNode)
      /\ AskImpact \in PanelRequest /\ Means(AskImpact)
  BY DEF AskNode, AskImpact, PanelRequest, Means
<1>5. ASSUME NEW r \in MaybeRecord, NEW b \in Forks
      PROVE  AskShow(r, b) \in ShowRequest /\ Means(AskShow(r, b))
  BY DEF AskShow, ShowRequest, Means
<1>6. ASSUME NEW h \in Drafts PROVE AskCompare(h) \in CompareRequest /\ Means(AskCompare(h))
  BY DEF AskCompare, CompareRequest, Means
<1>. QED
  BY <1>1, <1>2, <1>3, <1>4, <1>5, <1>6 DEF Request

(* A page that asks for nothing more is fine.                              *)
LEMMA LeavesPage ==
  ASSUME NEW p \in Page
  PROVE  Fine(Leaves(p, {}))
BY DEF Fine, Leaves

(* So is one that asks for one thing.                                      *)
LEMMA LeavesAsking ==
  ASSUME NEW p \in Page, NEW q \in Request, Means(q)
  PROVE  Fine(Leaves(p, {q}))
BY DEF Fine, Leaves

(* renderBranches, renderRecentHistory, renderBranchesWorkspace.           *)
LEMMA RenderKeeps ==
  ASSUME NEW p \in Page
  PROVE  /\ RenderBranches(p) \in Page
         /\ RenderRecentHistory(p) \in Page
         /\ RenderBranchesWorkspace(p) \in Page
<1>1. p.seen.branches \subseteq Drafts
  BY DEF Page, Stores
<1>2. NoHist \in [rec : MaybeRecord, drift : BOOLEAN]
  BY DEF NoHist, MaybeRecord
<1>3. NoAct \in [kind : {"none", "adopt", "restore"}, rec : MaybeRecord, on : BOOLEAN]
  BY DEF NoAct, MaybeRecord
<1>4. RenderBranches(p) \in Page
  BY <1>1 DEF RenderBranches, Page
<1>5. RenderRecentHistory(p) \in Page
  BY <1>2, <1>3 DEF RenderRecentHistory, Page, Tabs
<1>6. RenderBranchesWorkspace(p) \in Page
  BY <1>2, <1>3 DEF RenderBranchesWorkspace, Page, Tabs
<1>. QED
  BY <1>4, <1>5, <1>6

(* A record is selected: its versions are asked for.                       *)
LEMMA SelectRecordIsFine ==
  ASSUME NEW p \in Page, NEW r \in Records
  PROVE  Fine(SelectRecord(p, r))
<1>1. NoHist \in [rec : MaybeRecord, drift : BOOLEAN]
  BY DEF NoHist, MaybeRecord
<1>2. NoAct \in [kind : {"none", "adopt", "restore"}, rec : MaybeRecord, on : BOOLEAN]
  BY DEF NoAct, MaybeRecord
<1> DEFINE x == RenderBranches(p)
<1> DEFINE y == [x EXCEPT !.tab = "records", !.sel = r, !.hist = NoHist,
                   !.work = None, !.diff = "spin", !.impact = FALSE, !.act = NoAct]
<1>3. x \in Page
  BY RenderKeeps
<1>4. y \in Page
  <2> HIDE DEF x
  <2>1. r \in MaybeRecord
    BY DEF MaybeRecord
  <2>. QED
    BY ZenonT(30), <1>1, <1>2, <1>3, <2>1 DEF Page, Tabs
<1>5. (r \in p.seen.drift) \in BOOLEAN
  OBVIOUS
<1>6. AskLog(r, r \in p.seen.drift) \in Request /\ Means(AskLog(r, r \in p.seen.drift))
  BY <1>5, Asks
<1>7. SelectRecord(p, r) = Leaves(y, {AskLog(r, r \in p.seen.drift)})
  BY DEF SelectRecord
<1> HIDE DEF y
<1>. QED
  BY <1>4, <1>6, <1>7, LeavesAsking

(* showDrift and selectNode ask for a diff.                                *)
LEMMA DiffsAreFine ==
  ASSUME NEW p \in Page, NEW r \in MaybeRecord, NEW older \in BOOLEAN
  PROVE  Fine(ShowDrift(p, r)) /\ Fine(SelectNode(p, older))
<1> DEFINE x == [p EXCEPT !.act = [kind |-> "adopt", rec |-> None, on |-> FALSE],
                          !.diff = "spin", !.impact = FALSE]
<1> DEFINE y == [p EXCEPT !.act = [kind |-> IF older THEN "restore" ELSE "none",
                                   rec |-> None, on |-> FALSE],
                          !.diff = "spin", !.impact = FALSE]
<1> DEFINE Act == [kind : {"none", "adopt", "restore"}, rec : MaybeRecord, on : BOOLEAN]
<1>1. x \in Page
  <2>1. [kind |-> "adopt", rec |-> None, on |-> FALSE] \in Act
    BY DEF MaybeRecord
  <2>. QED
    BY <2>1 DEF Page
<1>2. y \in Page
  <2>1. [kind |-> IF older THEN "restore" ELSE "none", rec |-> None, on |-> FALSE] \in Act
    BY DEF MaybeRecord
  <2>. QED
    BY ZenonT(30), <2>1 DEF Page
<1>3. ShowDrift(p, r) = Leaves(x, {AskDiff(r)}) /\ SelectNode(p, older) = Leaves(y, {AskNode})
  BY DEF ShowDrift, SelectNode
<1> HIDE DEF x, y
<1>4. Fine(Leaves(x, {AskDiff(r)}))
  BY <1>1, Asks, LeavesAsking
<1>5. Fine(Leaves(y, {AskNode}))
  BY <1>2, Asks, LeavesAsking
<1>. QED
  BY <1>3, <1>4, <1>5

(* The comparison of a branch is asked for, if there is a branch.          *)
LEMMA PrWorkspaceIsFine ==
  ASSUME NEW p \in Page, NEW l \in RenderPrWorkspace(p)
  PROVE  Fine(l) /\ l.page.branch = p.branch /\ l.page.seen = p.seen
<1> DEFINE Rendered(h) ==
      [p EXCEPT !.tab = "pr", !.prHead = h, !.work = h, !.hist = NoHist,
                !.act = NoAct, !.impact = FALSE,
                !.diff = IF h = None THEN "none" ELSE "spin"]
<1> DEFINE Asked(h) == IF h = None THEN {} ELSE {AskCompare(h)}
<1>1. PICK h \in PrHeads(p) : l = Leaves(Rendered(h), Asked(h))
  BY DEF RenderPrWorkspace
<1>2. h \in Drafts \cup {None}
  BY DEF PrHeads, Page, Stores
<1>3. NoHist \in [rec : MaybeRecord, drift : BOOLEAN]
  BY DEF NoHist, MaybeRecord
<1>4. NoAct \in [kind : {"none", "adopt", "restore"}, rec : MaybeRecord, on : BOOLEAN]
  BY DEF NoAct, MaybeRecord
<1>5. Rendered(h) \in Page /\ Rendered(h).branch = p.branch /\ Rendered(h).seen = p.seen
  BY ZenonT(30), <1>2, <1>3, <1>4 DEF Page, Tabs
<1>6. \A q \in Asked(h) : q \in Request /\ Means(q)
  BY <1>2, Asks
<1> HIDE DEF Rendered, Asked
<1>7. l.page = Rendered(h) /\ l.ask = Asked(h)
  BY <1>1 DEF Leaves
<1>. QED
  BY <1>5, <1>6, <1>7 DEF Fine

-----------------------------------------------------------------------------
(***************************************************************************)
(* The callbacks: each leaves a page that is fine.                         *)
(***************************************************************************)

(* loadState, once its answers are there.                                  *)
LEMMA LoadedKeeps ==
  ASSUME NEW p \in Page, NEW answer \in Stores, NEW refresh \in BOOLEAN
  PROVE  Loaded(p, answer, refresh) \in Page
<1> DEFINE x == [p EXCEPT !.seen = answer]
<1> DEFINE y == RenderBranches(x)
<1>1. x \in Page
  BY DEF Page
<1>2. y \in Page
  <2> HIDE DEF x
  <2>. QED
    BY <1>1, RenderKeeps
<1>3. RenderRecentHistory(y) \in Page
  <2> HIDE DEF y
  <2>. QED
    BY <1>2, RenderKeeps
<1>. QED
  BY <1>2, <1>3 DEF Loaded

(* Back to the tab and the record captured before loadState.               *)
LEMMA BackToIsFine ==
  ASSUME NEW p \in Page, NEW then \in Next, NEW l \in BackTo(p, then)
  PROVE  Fine(l)
<1>1. then.keep \in MaybeRecord
  BY DEF Next
<1>2. CASE l \in RenderPrWorkspace(p)
  BY <1>2, PrWorkspaceIsFine
<1>3. CASE l = Leaves(RenderBranchesWorkspace(p), {})
  BY <1>3, RenderKeeps, LeavesPage
<1>4. CASE l = Leaves(RenderRecentHistory(p), {})
  BY <1>4, RenderKeeps, LeavesPage
<1>5. CASE then.keep # None /\ l = SelectRecord(p, then.keep)
  BY <1>1, <1>5, SelectRecordIsFine DEF MaybeRecord
<1>6. CASE l = Leaves([p EXCEPT !.tab = "records"], {})
  <2> DEFINE x == [p EXCEPT !.tab = "records"]
  <2>1. x \in Page
    BY DEF Page, Tabs
  <2> HIDE DEF x
  <2>2. Fine(Leaves(x, {}))
    BY <2>1, LeavesPage
  <2>. QED
    BY <1>6, <2>2 DEF x
<1>7. CASE l = Leaves(p, {})
  BY <1>7, LeavesPage
<1>. QED
  BY <1>2, <1>3, <1>4, <1>5, <1>6, <1>7 DEF BackTo

(* afterBranch.                                                            *)
LEMMA BranchNextIsFine ==
  ASSUME NEW p \in Page, NEW then \in Next, NEW l \in BranchNext(p, then)
  PROVE  Fine(l)
<1> DEFINE made == then.branch # None
<1> DEFINE x == IF made /\ then.branch \in p.seen.branches
                  THEN [p EXCEPT !.branch = then.branch] ELSE p
<1> DEFINE y == IF made THEN [x EXCEPT !.prHead = then.branch] ELSE x
<1>1. then.branch \in Drafts \cup {None}
  BY DEF Next
<1>2. x \in Page
  BY <1>1 DEF Page, Stores
<1>3. y \in Page
  <2> HIDE DEF x
  <2>. QED
    BY <1>1, <1>2 DEF Page
<1>4. l \in RenderPrWorkspace(y) \/ l = Leaves(RenderBranchesWorkspace(x), {})
        \/ l = Leaves(RenderBranches(x), {})
  BY DEF BranchNext
<1> HIDE DEF x, y
<1>5. CASE l \in RenderPrWorkspace(y)
  BY <1>3, <1>5, PrWorkspaceIsFine
<1>6. CASE l = Leaves(RenderBranchesWorkspace(x), {})
  BY <1>2, <1>6, RenderKeeps, LeavesPage
<1>7. CASE l = Leaves(RenderBranches(x), {})
  BY <1>2, <1>7, RenderKeeps, LeavesPage
<1>. QED
  BY <1>4, <1>5, <1>6, <1>7

(* The state arrives, for whoever asked for it.                            *)
LEMMA StateIsFine ==
  ASSUME NEW p \in Page, NEW q \in StateRequest, q.answer # None,
         NEW l \in StateArrives(p, q)
  PROVE  Fine(l)
<1> DEFINE x == Loaded(p, q.answer, q.then.next = "refresh")
<1>1. q.answer \in Stores /\ q.then \in Next
  BY DEF StateRequest
<1>2. x \in Page
  BY <1>1, LoadedKeeps
<1>3. \/ l \in BackTo(x, q.then)
      \/ l \in BranchNext(x, q.then)
      \/ l \in RenderPrWorkspace(x)
      \/ l = Leaves(RenderBranchesWorkspace(x), {})
      \/ l = Leaves(x, {})
  BY DEF StateArrives
<1> HIDE DEF x
<1>4. CASE l \in BackTo(x, q.then)
  BY <1>1, <1>2, <1>4, BackToIsFine
<1>5. CASE l \in BranchNext(x, q.then)
  BY <1>1, <1>2, <1>5, BranchNextIsFine
<1>6. CASE l \in RenderPrWorkspace(x)
  BY <1>2, <1>6, PrWorkspaceIsFine
<1>7. CASE l = Leaves(RenderBranchesWorkspace(x), {}) \/ l = Leaves(x, {})
  BY <1>2, <1>7, RenderKeeps, LeavesPage
<1>. QED
  BY <1>3, <1>4, <1>5, <1>6, <1>7

(* The versions of a record arrive.                                        *)
LEMMA LogIsFine ==
  ASSUME NEW p \in Page, NEW q \in LogRequest, NEW l \in LogArrives(p, q)
  PROVE  Fine(l)
<1> DEFINE x == [p EXCEPT !.hist = [rec |-> q.rec, drift |-> q.drift], !.work = None]
<1>1. q.rec \in MaybeRecord
  BY DEF LogRequest, MaybeRecord
<1>2. [rec |-> q.rec, drift |-> q.drift] \in [rec : MaybeRecord, drift : BOOLEAN]
  BY <1>1 DEF LogRequest
<1>3. x \in Page
  BY <1>2 DEF Page
<1>4. l = ShowDrift(x, q.rec) \/ l = SelectNode(x, FALSE)
  BY DEF LogArrives
<1> HIDE DEF x
<1>. QED
  BY <1>1, <1>3, <1>4, DiffsAreFine

(* The diffs, the comparison and the impact panel arrive.                  *)
LEMMA PanelsAreFine ==
  ASSUME NEW p \in Page, NEW l
  PROVE  /\ \A q \in DiffRequest : l \in DriftArrives(p, q) => Fine(l)
         /\ l \in NodeArrives(p) => Fine(l)
         /\ l \in CompareArrives(p) => Fine(l)
         /\ l = Leaves([p EXCEPT !.impact = TRUE], {}) => Fine(l)
<1> DEFINE Act == [kind : {"none", "adopt", "restore"}, rec : MaybeRecord, on : BOOLEAN]
<1> DEFINE x == [p EXCEPT !.diff = "shown", !.impact = FALSE]
<1>1. x \in Page
  BY DEF Page
<1>2. ASSUME NEW q \in DiffRequest, l \in DriftArrives(p, q) PROVE Fine(l)
  <2> DEFINE y == [x EXCEPT !.act.rec = q.rec, !.act.on = TRUE]
  <2>1. l = Leaves(y, {AskImpact}) \/ l = Leaves(x, {})
    BY <1>2 DEF DriftArrives
  <2> HIDE DEF x
  <2>2. x.act \in Act
    BY <1>1 DEF Page
  <2>3. [x.act EXCEPT !.rec = q.rec, !.on = TRUE] \in Act
    BY <2>2 DEF DiffRequest
  <2>4. y = [x EXCEPT !.act = [x.act EXCEPT !.rec = q.rec, !.on = TRUE]]
    BY <1>1 DEF Page
  <2>5. y \in Page
    <3> DEFINE a == [x.act EXCEPT !.rec = q.rec, !.on = TRUE]
    <3> HIDE DEF a, y
    <3>1. [x EXCEPT !.act = a] \in Page
      BY <1>1, <2>3 DEF Page, a
    <3>. QED
      BY <2>4, <3>1 DEF a
  <2> HIDE DEF y
  <2>. QED
    BY <1>1, <2>1, <2>5, Asks, LeavesPage, LeavesAsking
<1>3. ASSUME l \in NodeArrives(p) PROVE Fine(l)
  <2> DEFINE a == [p.act EXCEPT !.on = @ \/ p.act.kind = "restore"]
  <2> DEFINE y == [p EXCEPT !.diff = "shown", !.impact = FALSE, !.act = a]
  <2>1. p.act \in Act
    BY DEF Page
  <2>2. a \in Act
    BY <2>1
  <2>3. l = Leaves(y, {})
    BY <1>3 DEF NodeArrives
  <2>4. y \in Page
    <3> HIDE DEF a
    <3>. QED
      BY <2>2 DEF Page
  <2> HIDE DEF y
  <2>. QED
    BY <2>3, <2>4, LeavesPage
<1>4. ASSUME l \in CompareArrives(p) PROVE Fine(l)
  <2>1. l = Leaves(p, {}) \/ l = Leaves(x, {})
    BY <1>4 DEF CompareArrives
  <2> HIDE DEF x
  <2>. QED
    BY <1>1, <2>1, LeavesPage
<1>5. ASSUME l = Leaves([p EXCEPT !.impact = TRUE], {}) PROVE Fine(l)
  <2> DEFINE y == [p EXCEPT !.impact = TRUE]
  <2>1. y \in Page
    BY DEF Page
  <2> HIDE DEF y
  <2>2. Fine(Leaves(y, {}))
    BY <2>1, LeavesPage
  <2>. QED
    BY <1>5, <2>2 DEF y
<1>. QED
  BY <1>2, <1>3, <1>4, <1>5

(* The document of a draft arrives: the form that opens names the branch   *)
(* that was selected when the document was asked for.                      *)
LEMMA ShowIsFine ==
  ASSUME NEW p \in Page, NEW q \in ShowRequest, NEW l \in ShowArrives(p, q)
  PROVE  Fine(l)
<1> DEFINE m == [NoModal EXCEPT !.kind = "draft", !.rec = p.sel, !.doc = q.rec,
                                !.branch = q.branch, !.go = TRUE]
<1> DEFINE x == [p EXCEPT !.modal = m]
<1>1. p.sel \in MaybeRecord /\ q.rec \in MaybeRecord /\ q.branch \in Forks
  BY DEF Page, ShowRequest
<1>2. NoModal \in [kind : {"none"}, rec : {None}, doc : {None}, branch : {None}, go : BOOLEAN]
  BY DEF NoModal
<1>3. m \in Form
  <2> HIDE DEF NoModal
  <2>1. m \in DraftForm
    BY <1>1, <1>2 DEF DraftForm
  <2>. QED
    BY <2>1 DEF Form
<1> HIDE DEF m
<1>4. x \in Page
  BY <1>3 DEF Page
<1>5. l = Leaves(x, {})
  BY DEF ShowArrives, m
<1> HIDE DEF x
<1>. QED
  BY <1>4, <1>5, LeavesPage

(* The answer to a change arrives.                                         *)
LEMMA DoneIsFine ==
  ASSUME NEW p \in Page, NEW q \in DoRequest, NEW l \in DoneArrives(p, q)
  PROVE  Fine(l)
<1> DEFINE closed == [p EXCEPT !.modal = None]
<1> DEFINE after ==
      CASE q.then = "after" -> [Then("after") EXCEPT !.keep = p.sel, !.tab = p.tab]
        [] q.then = "branch" ->
             [Then("branch") EXCEPT !.branch =
                IF q.answer = "ok" /\ q.act = "create" THEN q.branch ELSE None]
        [] OTHER -> Then(q.then)
<1> DEFINE head ==
      CASE q.then = "pr" -> q.branch
        [] q.then = "deleted" /\ q.answer = "ok" /\ p.prHead = q.branch -> None
        [] OTHER -> p.prHead
<1> DEFINE x == [closed EXCEPT !.prHead = head]
<1>1. /\ q.then \in {"after", "branch", "deleted", "pr"}
      /\ q.branch \in Drafts \cup {None}
  BY DEF DoRequest, FormRequest, InlineRequest
<1>2. p.sel \in MaybeRecord /\ p.tab \in Tabs /\ p.prHead \in Drafts \cup {None}
  BY DEF Page
<1>3. head \in Drafts \cup {None}
  BY <1>1, <1>2
<1>4. after \in Next
  <2>1. ASSUME NEW n \in {"after", "branch", "deleted", "pr"} PROVE Then(n) \in Next
    BY DEF Then, Next, MaybeRecord, Tabs
  <2>2. CASE q.then = "after"
    <3>1. [Then("after") EXCEPT !.keep = p.sel, !.tab = p.tab] \in Next
      BY <1>2, <2>1 DEF Next
    <3>. QED
      BY <2>2, <3>1
  <2>3. CASE q.then = "branch"
    <3>1. \A b \in Drafts \cup {None} : [Then("branch") EXCEPT !.branch = b] \in Next
      BY <2>1 DEF Next
    <3>. QED
      BY <1>1, <2>3, <3>1
  <2>4. CASE q.then \in {"deleted", "pr"}
    BY <2>1, <2>4
  <2>. QED
    BY <1>1, <2>2, <2>3, <2>4
<1> HIDE DEF head
<1>5. x \in Page
  BY <1>3 DEF Page
<1>6. l = Leaves(x, {AskState(after)})
  BY DEF DoneArrives, head
<1> HIDE DEF x, after
<1>. QED
  BY <1>4, <1>5, <1>6, Asks, LeavesAsking

(* Whatever answer arrives, its callback leaves a page that is fine.       *)
LEMMA CallbackIsFine ==
  ASSUME NEW p \in Page, NEW q \in Request, Answered(q), NEW l \in Callback(p, q)
  PROVE  Fine(l)
<1>1. CASE q \in StateRequest
  <2>1. q.kind = "state"
    BY <1>1 DEF StateRequest
  <2>2. q.answer # None /\ l \in StateArrives(p, q)
    BY <2>1 DEF Answered, Callback
  <2>. QED
    BY <1>1, <2>2, StateIsFine
<1>2. CASE q \in LogRequest
  <2>1. q.kind = "log"
    BY <1>2 DEF LogRequest
  <2>2. l \in LogArrives(p, q)
    BY <2>1 DEF Callback
  <2>. QED
    BY <1>2, <2>2, LogIsFine
<1>3. CASE q \in DiffRequest
  <2>1. q.kind = "drift"
    BY <1>3 DEF DiffRequest
  <2>2. l \in DriftArrives(p, q)
    BY <2>1 DEF Callback
  <2>. QED
    BY <1>3, <2>2, PanelsAreFine
<1>4. CASE q \in PanelRequest
  <2>1. q.kind \in {"node", "impact"}
    BY <1>4 DEF PanelRequest
  <2>2. l \in NodeArrives(p) \/ l = Leaves([p EXCEPT !.impact = TRUE], {})
    BY <2>1 DEF Callback
  <2>. QED
    BY <2>2, PanelsAreFine
<1>5. CASE q \in ShowRequest
  <2>1. q.kind = "show"
    BY <1>5 DEF ShowRequest
  <2>2. l \in ShowArrives(p, q)
    BY <2>1 DEF Callback
  <2>. QED
    BY <1>5, <2>2, ShowIsFine
<1>6. CASE q \in CompareRequest
  <2>1. q.kind = "compare"
    BY <1>6 DEF CompareRequest
  <2>2. l \in CompareArrives(p)
    BY <2>1 DEF Callback
  <2>. QED
    BY <2>2, PanelsAreFine
<1>7. CASE q \in DoRequest
  <2>1. q.kind = "do"
    BY <1>7 DEF DoRequest, FormRequest, InlineRequest
  <2>2. l \in DoneArrives(p, q)
    BY <2>1 DEF Callback
  <2>. QED
    BY <1>7, <2>2, DoneIsFine
<1>. QED
  BY <1>1, <1>2, <1>3, <1>4, <1>5, <1>6, <1>7 DEF Request

-----------------------------------------------------------------------------
(***************************************************************************)
(* The steps of the server.                                                *)
(***************************************************************************)

(* An answer goes into a request of its kind.                              *)
LEMMA ServeStep ==
  ASSUME IInv, NEW q \in flight, ServeState(q) \/ ServeDo(q)
  PROVE  IInv'
<1>1. store \in Stores /\ page \in Page /\ flight \subseteq Request /\ q \in Request /\ Means(q)
  BY DEF IInv, UITypeOK
<1>2. ASSUME NEW a, flight' = (flight \ {q}) \cup {a}, a \in Request, Means(a),
             store' \in Stores, UNCHANGED page
      PROVE  IInv'
  BY <1>1, <1>2 DEF IInv, UITypeOK
<1>3. CASE ServeState(q)
  <2>1. PICK answer \in {store, [store EXCEPT !.branches = {}, !.prs = {}], Nothing} :
          flight' = (flight \ {q}) \cup {[q EXCEPT !.answer = answer]}
    BY <1>3 DEF ServeState
  <2>2. answer \in Stores
    <3>1. [store EXCEPT !.branches = {}, !.prs = {}] \in Stores
      BY <1>1 DEF Stores
    <3>2. Nothing \in Stores
      BY DEF Nothing, Stores
    <3>. QED
      BY <1>1, <2>1, <3>1, <3>2
  <2> DEFINE a == [q EXCEPT !.answer = answer]
  <2>3. q \in StateRequest
    BY <1>1, <1>3 DEF ServeState, Request, LogRequest, DiffRequest, PanelRequest, ShowRequest,
                      CompareRequest, DoRequest, FormRequest, InlineRequest
  <2>4. a \in StateRequest /\ a.kind = "state"
    BY <2>3, <2>2 DEF StateRequest
  <2>5. a \in Request /\ Means(a)
    BY <2>4 DEF Request, Means
  <2>6. flight' = (flight \ {q}) \cup {a} /\ store' = store /\ UNCHANGED page
    BY <1>3, <2>1 DEF ServeState
  <2> HIDE DEF a
  <2>. QED
    BY <1>1, <1>2, <2>5, <2>6
<1>4. CASE ServeDo(q)
  <2>1. q.kind = "do"
    BY <1>4 DEF ServeDo
  <2>2. q \in DoRequest /\ MeansForm(q)
    BY <1>1, <2>1 DEF Means, Request, LogRequest, DiffRequest, PanelRequest, ShowRequest,
                      CompareRequest, StateRequest
  <2>3. ASSUME NEW answer \in {"ok", "error"}
        PROVE  [q EXCEPT !.answer = answer] \in Request /\ Means([q EXCEPT !.answer = answer])
    <3> DEFINE a == [q EXCEPT !.answer = answer]
    <3>1. a \in DoRequest
      BY <2>2 DEF DoRequest, FormRequest, InlineRequest
    <3>2. a.act = q.act /\ a.shown = q.shown /\ a.branch = q.branch
      BY <2>2 DEF DoRequest, FormRequest, InlineRequest
    <3> HIDE DEF a
    <3>3. Means(a) /\ a \in Request
      BY <2>2, <3>1, <3>2 DEF Means, MeansForm, Request
    <3>. QED
      BY <3>3 DEF a
  <2>4. Effect(q) \in Stores
    <3>1. q.branch \in Drafts \/ q.act \notin {"create", "open"}
      BY <2>2 DEF DoRequest, FormRequest, InlineRequest, MeansForm
    <3>. QED
      BY <1>1, <3>1 DEF Effect, Stores
  <2>5. \E answer \in {"ok", "error"} :
          flight' = (flight \ {q}) \cup {[q EXCEPT !.answer = answer]}
    BY <1>4 DEF ServeDo
  <2>6. store' \in Stores /\ UNCHANGED page
    BY <1>1, <1>4, <2>4 DEF ServeDo
  <2>. QED
    BY <1>2, <2>3, <2>5, <2>6
<1>. QED
  BY <1>3, <1>4

(* An answer arrives: its callback runs.                                   *)
LEMMA ArriveStep ==
  ASSUME IInv, NEW q \in flight, Arrive(q)
  PROVE  IInv'
<1>1. store \in Stores /\ page \in Page /\ flight \subseteq Request /\ q \in Request
  BY DEF IInv, UITypeOK
<1>2. PICK l \in Callback(page, q) : page' = l.page /\ flight' = (flight \ {q}) \cup l.ask
  BY DEF Arrive
<1>3. Fine(l)
  BY <1>1, CallbackIsFine DEF Arrive
<1>4. UNCHANGED store
  BY DEF Arrive
<1>. QED
  BY <1>1, <1>2, <1>3, <1>4 DEF IInv, UITypeOK, Fine

(* Others change the records, the branches and the pull requests.          *)
LEMMA ElsewhereStep ==
  ASSUME IInv, Elsewhere
  PROVE  IInv'
<1>1. store \in Stores
  BY DEF IInv, UITypeOK
<1>2. store' \in Stores
  BY <1>1 DEF Elsewhere, Stores, SymDiff
<1>3. UNCHANGED <<page, flight>>
  BY DEF Elsewhere
<1>. QED
  BY <1>2, <1>3 DEF IInv, UITypeOK

-----------------------------------------------------------------------------
(***************************************************************************)
(* The steps of the user.                                                  *)
(***************************************************************************)

(* What a press leaves is fine.                                            *)
LEMMA PressStep ==
  ASSUME IInv, NEW l, Fine(l), Press(l)
  PROVE  IInv'
BY DEF IInv, UITypeOK, Fine, Press

(* The forms other than that of a draft.                                   *)
LEMMA FormsOpened ==
  ASSUME NEW k \in {"adopt", "restore", "create", "delete", "merge"},
         NEW r \in MaybeRecord, NEW b \in Drafts \cup {None}
  PROVE  /\ [NoModal EXCEPT !.kind = k, !.rec = r, !.go = TRUE] \in OtherForm
         /\ [NoModal EXCEPT !.kind = k, !.branch = b, !.go = TRUE] \in OtherForm
         /\ [NoModal EXCEPT !.kind = k, !.go = TRUE] \in OtherForm
<1>1. NoModal \in [kind : {"none"}, rec : {None}, doc : {None}, branch : {None}, go : BOOLEAN]
  BY DEF NoModal
<1>2. None \in MaybeRecord
  BY DEF MaybeRecord
<1> HIDE DEF NoModal
<1>3. [NoModal EXCEPT !.kind = k, !.rec = r, !.go = TRUE] \in OtherForm
  BY <1>1, <1>2 DEF OtherForm
<1>4. [NoModal EXCEPT !.kind = k, !.branch = b, !.go = TRUE] \in OtherForm
  BY <1>1, <1>2 DEF OtherForm
<1>5. [NoModal EXCEPT !.kind = k, !.go = TRUE] \in OtherForm
  BY <1>1, <1>2 DEF OtherForm
<1>. QED
  BY <1>3, <1>4, <1>5

(* They open on a page that stays a page.                                  *)
LEMMA OpensForm ==
  ASSUME NEW p \in Page, NEW m \in OtherForm, NEW ask \in SUBSET Request,
         \A q \in ask : Means(q)
  PROVE  Fine(Leaves([p EXCEPT !.modal = m], ask))
<1> DEFINE x == [p EXCEPT !.modal = m]
<1>1. x \in Page
  BY DEF Page, Form
<1> HIDE DEF x
<1>2. Fine(Leaves(x, ask))
  BY <1>1 DEF Fine, Leaves
<1>. QED
  BY <1>2 DEF x

(* ClickRecord, ClickVersion, ClickLive.                                   *)
LEMMA HistoryClicks ==
  ASSUME IInv
  PROVE  /\ \A r \in Records : ClickRecord(r) => IInv'
         /\ \A older \in BOOLEAN : ClickVersion(older) => IInv'
         /\ ClickLive => IInv'
<1>1. page \in Page /\ page.hist.rec \in MaybeRecord
  BY DEF IInv, UITypeOK, Page
<1>2. ASSUME NEW r \in Records, ClickRecord(r) PROVE IInv'
  BY <1>1, <1>2, SelectRecordIsFine, PressStep DEF ClickRecord, Click
<1>3. ASSUME NEW older \in BOOLEAN, ClickVersion(older) PROVE IInv'
  <2>1. Fine(SelectNode(page, older))
    BY <1>1, DiffsAreFine
  <2>. QED
    BY <1>3, <2>1, PressStep DEF ClickVersion, Click
<1>4. ASSUME ClickLive PROVE IInv'
  <2>1. Fine(ShowDrift(page, page.hist.rec))
    BY <1>1, DiffsAreFine
  <2>. QED
    BY <1>4, <2>1, PressStep DEF ClickLive, Click
<1>. QED
  BY <1>2, <1>3, <1>4

(* ClickAdopt and ClickRestore open a form on a record, ClickNewBranch and *)
(* ClickDeleteBranch one on a branch.                                      *)
LEMMA FormClicks ==
  ASSUME IInv
  PROVE  /\ ClickAdopt => IInv'
         /\ ClickRestore => IInv'
         /\ ClickNewBranch => IInv'
         /\ \A b \in Drafts : ClickDeleteBranch(b) => IInv'
<1>1. page \in Page /\ page.act.rec \in MaybeRecord /\ page.sel \in MaybeRecord
  BY DEF IInv, UITypeOK, Page
<1>2. ASSUME NEW m \in OtherForm, Press(Show(m)) PROVE IInv'
  <2>1. Fine(Show(m))
    BY <1>1, OpensForm DEF Show
  <2>. QED
    BY <1>2, <2>1, PressStep
<1>3. ASSUME ClickAdopt PROVE IInv'
  <2> DEFINE m == [NoModal EXCEPT !.kind = "adopt", !.rec = page.act.rec, !.go = TRUE]
  <2>1. m \in OtherForm
    BY <1>1, FormsOpened
  <2>2. Press(Show(m))
    BY <1>3 DEF ClickAdopt, Click
  <2> HIDE DEF m
  <2>. QED
    BY <1>2, <2>1, <2>2
<1>4. ASSUME ClickRestore PROVE IInv'
  <2> DEFINE m == [NoModal EXCEPT !.kind = "restore", !.rec = page.sel, !.go = TRUE]
  <2>1. m \in OtherForm
    BY <1>1, FormsOpened
  <2>2. Press(Show(m))
    BY <1>4 DEF ClickRestore, Click
  <2> HIDE DEF m
  <2>. QED
    BY <1>2, <2>1, <2>2
<1>5. ASSUME ClickNewBranch PROVE IInv'
  <2> DEFINE p == OnBranchesTab(page)
  <2> DEFINE m == [NoModal EXCEPT !.kind = "create", !.go = TRUE]
  <2>1. p \in Page
    BY <1>1, RenderKeeps DEF OnBranchesTab
  <2>2. m \in OtherForm
    BY FormsOpened DEF MaybeRecord
  <2>3. Press(Leaves([p EXCEPT !.modal = m], {}))
    BY <1>5 DEF ClickNewBranch, Click
  <2> HIDE DEF p, m
  <2>4. Fine(Leaves([p EXCEPT !.modal = m], {}))
    BY <2>1, <2>2, OpensForm
  <2>. QED
    BY <2>3, <2>4, PressStep
<1>6. ASSUME NEW b \in Drafts, ClickDeleteBranch(b) PROVE IInv'
  <2> DEFINE m == [NoModal EXCEPT !.kind = "delete", !.branch = b, !.go = TRUE]
  <2>1. m \in OtherForm
    BY FormsOpened DEF MaybeRecord
  <2>2. Press(Show(m))
    BY <1>6 DEF ClickDeleteBranch, Click
  <2> HIDE DEF m
  <2>. QED
    BY <1>2, <2>1, <2>2
<1>. QED
  BY <1>3, <1>4, <1>5, <1>6

(* ClickDraftCommit asks for the document of the record selected, for the  *)
(* branch selected, which is a draft branch.                               *)
LEMMA DraftClick ==
  ASSUME IInv, ClickDraftCommit
  PROVE  IInv'
<1>1. page \in Page /\ page.sel \in MaybeRecord /\ page.branch \in Forks
  BY DEF IInv, UITypeOK, Page, ClickDraftCommit, Forks
<1>2. OnBranchesTab(page) \in Page
  BY <1>1, RenderKeeps DEF OnBranchesTab
<1>3. Fine(Leaves(OnBranchesTab(page), {AskShow(page.sel, page.branch)}))
  BY <1>1, <1>2, Asks, LeavesAsking
<1>. QED
  BY <1>3, PressStep DEF ClickDraftCommit, Click

(* ChooseBranch and ClickCompare.                                          *)
LEMMA BranchClicks ==
  ASSUME IInv
  PROVE  /\ \A b \in Drafts \cup {Main} : ChooseBranch(b) => IInv'
         /\ \A b \in Drafts : ClickCompare(b) => IInv'
<1>1. page \in Page /\ page.seen.branches \subseteq Drafts
  BY DEF IInv, UITypeOK, Page, Stores
<1>2. ASSUME NEW b \in Drafts \cup {Main}, ChooseBranch(b) PROVE IInv'
  <2> DEFINE q == [page EXCEPT !.branch = b]
  <2> DEFINE p == IF b = Main THEN q ELSE [q EXCEPT !.prHead = b]
  <2>1. q \in Page
    BY <1>1 DEF Page
  <2>2. p \in Page
    <3> HIDE DEF q
    <3>. QED
      BY <2>1 DEF Page
  <2>3. \/ \E l \in RenderPrWorkspace(p) : Press(l)
        \/ Press(Leaves(RenderBranchesWorkspace(q), {}))
        \/ Press(Leaves(q, {}))
    BY <1>2 DEF ChooseBranch, Click
  <2> HIDE DEF q, p
  <2>4. CASE \E l \in RenderPrWorkspace(p) : Press(l)
    BY <2>2, <2>4, PrWorkspaceIsFine, PressStep
  <2>5. CASE Press(Leaves(RenderBranchesWorkspace(q), {}))
    BY <2>1, <2>5, RenderKeeps, LeavesPage, PressStep
  <2>6. CASE Press(Leaves(q, {}))
    BY <2>1, <2>6, LeavesPage, PressStep
  <2>. QED
    BY <2>3, <2>4, <2>5, <2>6
<1>3. ASSUME NEW b \in Drafts, ClickCompare(b) PROVE IInv'
  <2> DEFINE q == SyncTopBranch(page, b)
  <2> DEFINE p == [q EXCEPT !.prHead = b]
  <2>1. q \in Page
    BY <1>1 DEF Page, SyncTopBranch
  <2>2. p \in Page
    <3> HIDE DEF q
    <3>. QED
      BY <2>1 DEF Page
  <2>3. PICK l \in RenderPrWorkspace(p) : Press(l)
    BY <1>3 DEF ClickCompare, Click
  <2> HIDE DEF p
  <2>. QED
    BY <2>2, <2>3, PrWorkspaceIsFine, PressStep
<1>. QED
  BY <1>2, <1>3

(* ClickMerge opens a form on the pull request of the branch selected, on  *)
(* the tab of the pull requests.                                           *)
LEMMA MergeClick ==
  ASSUME IInv, ClickMerge
  PROVE  IInv'
<1> DEFINE m == [NoModal EXCEPT !.kind = "merge", !.branch = page.branch, !.go = TRUE]
<1>1. page \in Page /\ page.branch \in Drafts
  BY DEF IInv, UITypeOK, Page, Stores, ClickMerge
<1>2. m \in OtherForm
  BY <1>1, FormsOpened DEF MaybeRecord
<1>3. PICK l \in IF page.tab = "pr" THEN {Leaves(page, {})} ELSE RenderPrWorkspace(page) :
        Press(Leaves([l.page EXCEPT !.modal = m], l.ask))
  BY DEF ClickMerge, Click
<1> HIDE DEF m
<1>4. Fine(l)
  BY <1>1, <1>3, LeavesPage, PrWorkspaceIsFine
<1>5. Fine(Leaves([l.page EXCEPT !.modal = m], l.ask))
  BY <1>2, <1>4, OpensForm DEF Fine
<1>. QED
  BY <1>3, <1>5, PressStep

(* A button of the comparison sends the change at once, with no form.      *)
LEMMA InlineClick ==
  ASSUME IInv, NEW act \in {"open", "merge"}, ClickInline(act)
  PROVE  IInv'
<1> DEFINE q == AskDo(act, None, page.prHead, NoModal, "pr")
<1>1. page \in Page /\ page.prHead \in Drafts
  BY DEF IInv, UITypeOK, Page, ClickInline
<1>2. q \in InlineRequest
  BY <1>1 DEF AskDo, InlineRequest
<1>3. NoModal.kind = "none"
  BY DEF NoModal
<1>4. MeansForm(q)
  BY <1>3 DEF AskDo, MeansForm
<1>5. Press(Leaves(page, {q}))
  BY DEF ClickInline, Click
<1> HIDE DEF q
<1>6. q \in Request /\ Means(q)
  BY <1>2, <1>4 DEF Request, DoRequest, Means
<1>. QED
  BY <1>1, <1>5, <1>6, LeavesAsking, PressStep

(* The tabs.                                                               *)
LEMMA TabClick ==
  ASSUME IInv, NEW t \in Tabs, ClickTab(t)
  PROVE  IInv'
<1> DEFINE q == [page EXCEPT !.tab = t]
<1> DEFINE p == [q EXCEPT !.hist = NoHist, !.work = None, !.diff = "none",
                          !.impact = FALSE, !.act = NoAct]
<1> DEFINE x == [page EXCEPT !.sel = None]
<1>1. page \in Page
  BY DEF IInv, UITypeOK
<1>2. NoHist \in [rec : MaybeRecord, drift : BOOLEAN]
  BY DEF NoHist, MaybeRecord
<1>3. NoAct \in [kind : {"none", "adopt", "restore"}, rec : MaybeRecord, on : BOOLEAN]
  BY DEF NoAct, MaybeRecord
<1>4. q \in Page
  BY <1>1 DEF Page
<1>5. p \in Page
  <2> HIDE DEF q
  <2>. QED
    BY <1>2, <1>3, <1>4 DEF Page
<1>6. x \in Page
  <2>1. None \in MaybeRecord
    BY DEF MaybeRecord
  <2>. QED
    BY <1>1, <2>1 DEF Page
<1>7. \/ Press(Leaves(q, {}))
      \/ Press(Leaves(p, {}))
      \/ Press(Leaves(RenderBranchesWorkspace(page), {}))
      \/ Press(Leaves(RenderRecentHistory(x), {}))
      \/ \E l \in RenderPrWorkspace(page) : Press(l)
  BY DEF ClickTab, Click, Tabs
<1> HIDE DEF q, p, x
<1>8. CASE Press(Leaves(q, {})) \/ Press(Leaves(p, {}))
  BY <1>4, <1>5, <1>8, LeavesPage, PressStep
<1>9. CASE Press(Leaves(RenderBranchesWorkspace(page), {}))
  BY <1>1, <1>9, RenderKeeps, LeavesPage, PressStep
<1>10. CASE Press(Leaves(RenderRecentHistory(x), {}))
  BY <1>6, <1>10, RenderKeeps, LeavesPage, PressStep
<1>11. CASE \E l \in RenderPrWorkspace(page) : Press(l)
  BY <1>1, <1>11, PrWorkspaceIsFine, PressStep
<1>. QED
  BY <1>7, <1>8, <1>9, <1>10, <1>11

(* The button of the form sends what the form shows.                       *)
LEMMA GoStep ==
  ASSUME IInv, Go
  PROVE  IInv'
<1> DEFINE m == page.modal
<1> DEFINE x == [page EXCEPT !.modal.go = FALSE]
<1> DEFINE Sends(act, r, b, then) == Press(Leaves(x, {AskDo(act, r, b, m, then)}))
<1>1. page \in Page /\ m \in Form /\ page.sel \in MaybeRecord
  BY DEF IInv, UITypeOK, Page, Go
<1>2. x \in Page
  <2>1. [m EXCEPT !.go = FALSE] \in Form
    BY <1>1 DEF Form, DraftForm, OtherForm
  <2>2. x = [page EXCEPT !.modal = [m EXCEPT !.go = FALSE]]
    BY <1>1 DEF Page
  <2> DEFINE y == [m EXCEPT !.go = FALSE]
  <2> HIDE DEF y, x
  <2>3. [page EXCEPT !.modal = y] \in Page
    BY <1>1, <2>1 DEF Page, y
  <2>. QED
    BY <2>2, <2>3 DEF y
<1>3. ASSUME NEW act \in {"adopt", "restore", "commit", "create", "delete", "merge"},
             NEW r \in MaybeRecord, NEW b \in Drafts \cup {None},
             NEW then \in {"after", "branch", "deleted"}, Sends(act, r, b, then),
             act \in {"commit", "delete", "merge"} => b = m.branch,
             act = "commit" => m.kind = "draft",
             act = "create" => b \in Drafts
      PROVE  IInv'
  <2> DEFINE q == AskDo(act, r, b, m, then)
  <2>1. q = [kind |-> "do", act |-> act, rec |-> r, branch |-> b, shown |-> m, then |-> then,
             answer |-> None]
    BY DEF AskDo
  <2>2. q \in FormRequest
    <3> HIDE DEF m
    <3>. QED
      BY <1>1, <2>1 DEF FormRequest
  <2>3. MeansForm(q)
    BY <1>3, <2>1 DEF MeansForm
  <2> HIDE DEF q, x, m
  <2>4. q \in Request /\ Means(q)
    BY <2>2, <2>3 DEF Request, DoRequest, Means
  <2>5. Press(Leaves(x, {q}))
    BY <1>3 DEF q
  <2>. QED
    BY <1>2, <2>4, <2>5, LeavesAsking, PressStep
<1>4. \/ m.kind \in {"adopt", "restore"} /\ Sends(m.kind, page.sel, None, "after")
      \/ m.kind = "draft" /\ Sends("commit", page.sel, m.branch, "branch")
      \/ m.kind = "create" /\ \E b \in Drafts : Sends("create", None, b, "branch")
      \/ m.kind = "delete" /\ Sends("delete", None, m.branch, "deleted")
      \/ m.kind = "merge" /\ Sends("merge", None, m.branch, "after")
  BY DEF Go, BranchOfForm, PrOfForm
<1>5. m.branch \in Drafts \cup {None} /\ None \in MaybeRecord
  BY <1>1 DEF Form, DraftForm, OtherForm, Forks, MaybeRecord
<1> HIDE DEF Sends, x, m
<1>6. CASE m.kind \in {"adopt", "restore"} /\ Sends(m.kind, page.sel, None, "after")
  BY <1>1, <1>3, <1>6
<1>7. CASE m.kind = "draft" /\ Sends("commit", page.sel, m.branch, "branch")
  BY <1>1, <1>3, <1>5, <1>7
<1>8. ASSUME NEW b \in Drafts, Sends("create", None, b, "branch") PROVE IInv'
  BY <1>3, <1>5, <1>8
<1>9. CASE Sends("delete", None, m.branch, "deleted")
  BY <1>3, <1>5, <1>9
<1>10. CASE Sends("merge", None, m.branch, "after")
  BY <1>3, <1>5, <1>10
<1>. QED
  BY <1>4, <1>6, <1>7, <1>8, <1>9, <1>10

(* Cancel closes the form.                                                 *)
LEMMA CancelStep ==
  ASSUME IInv, Cancel
  PROVE  IInv'
<1> DEFINE x == [page EXCEPT !.modal = None]
<1>1. page \in Page
  BY DEF IInv, UITypeOK
<1>2. x \in Page
  BY <1>1 DEF Page
<1>3. Press(Leaves(x, {}))
  BY DEF Cancel, Show
<1> HIDE DEF x
<1>. QED
  BY <1>2, <1>3, LeavesPage, PressStep

(* Another env is chosen: no record of it is selected, and its state is    *)
(* asked for.                                                              *)
LEMMA EnvStep ==
  ASSUME IInv, ChooseEnv
  PROVE  IInv'
<1>1. page \in Page /\ flight \subseteq Request /\ \A q \in flight : Means(q)
  BY DEF IInv, UITypeOK
<1>2. store' \in Stores
  BY DEF ChooseEnv, Held
<1>3. page' \in Page
  <2>1. None \in MaybeRecord
    BY DEF MaybeRecord
  <2>. QED
    BY <1>1, <2>1 DEF ChooseEnv, Page
<1>4. Then("load") \in Next
  BY DEF Then, Next, MaybeRecord, Tabs
<1>5. AskState(Then("load")) \in Request /\ Means(AskState(Then("load")))
  BY <1>4, Asks
<1>6. flight' = flight \cup {AskState(Then("load"))}
  BY DEF ChooseEnv
<1>. QED
  BY <1>1, <1>2, <1>3, <1>5, <1>6 DEF IInv, UITypeOK

(* The state is asked for again, by the user or by the timer.              *)
LEMMA RefreshSteps ==
  ASSUME IInv
  PROVE  (ClickRefresh => IInv') /\ (AutoRefresh => IInv')
<1> DEFINE then == [Then("refresh") EXCEPT !.keep = page.sel, !.tab = page.tab]
<1>1. page \in Page /\ page.sel \in MaybeRecord /\ page.tab \in Tabs
  BY DEF IInv, UITypeOK, Page
<1>2. Then("refresh") \in Next
  BY DEF Then, Next, MaybeRecord, Tabs
<1>3. then \in Next
  <2> HIDE DEF Then
  <2>. QED
    BY <1>1, <1>2 DEF Next
<1>4. SoftRefresh = AskState(then)
  BY DEF SoftRefresh
<1> HIDE DEF then
<1>5. SoftRefresh \in Request /\ Means(SoftRefresh)
  BY <1>3, <1>4, Asks
<1>6. ASSUME ClickRefresh PROVE IInv'
  BY <1>1, <1>5, <1>6, LeavesAsking, PressStep DEF ClickRefresh, Click
<1>7. ASSUME AutoRefresh PROVE IInv'
  BY <1>5, <1>7 DEF AutoRefresh, IInv, UITypeOK
<1>. QED
  BY <1>6, <1>7

-----------------------------------------------------------------------------
(***************************************************************************)
(* The theorems.                                                           *)
(***************************************************************************)

(* The page is opened, or has been worked with.                            *)
LEMMA InitIInv == UIInit => IInv
<1>. SUFFICES ASSUME UIInit PROVE IInv
  OBVIOUS
<1>1. store \in Stores
  BY DEF UIInit, Held
<1>2. NoHist \in [rec : MaybeRecord, drift : BOOLEAN]
  BY DEF NoHist, MaybeRecord
<1> DEFINE Act == [kind : {"none", "adopt", "restore"}, rec : MaybeRecord, on : BOOLEAN]
<1>3. NoAct \in Act
  BY DEF NoAct, MaybeRecord
<1>4. Blank \in Page
  <2>1. Nothing \in Stores
    BY DEF Nothing, Stores
  <2>. QED
    BY <1>2, <1>3, <2>1 DEF Blank, Page, Tabs, MaybeRecord
<1>5. CASE page = Blank /\ flight = {AskState(Then("load"))}
  <2>1. Then("load") \in Next
    BY DEF Then, Next, MaybeRecord, Tabs
  <2>. QED
    BY <1>1, <1>4, <1>5, <2>1, Asks DEF IInv, UITypeOK
<1>6. ASSUME NEW r \in Records, NEW b \in store.branches \cup {Main}, page = Settled(r, b),
             flight = {}
      PROVE  IInv
  <2> DEFINE drift == r \in store.drift
  <2> DEFINE h == [rec |-> r, drift |-> drift]
  <2> DEFINE a == IF drift THEN [kind |-> "adopt", rec |-> r, on |-> TRUE] ELSE NoAct
  <2>1. h \in [rec : MaybeRecord, drift : BOOLEAN] /\ drift \in BOOLEAN
    BY DEF MaybeRecord
  <2>2. a \in Act
    BY <1>3 DEF MaybeRecord
  <2>3. b \in Drafts \cup {Main} /\ r \in MaybeRecord
    BY <1>1 DEF Stores, MaybeRecord
  <2>4. page = [Blank EXCEPT !.sel = r, !.seen = store, !.branch = b, !.hist = h,
                  !.diff = "shown", !.impact = drift, !.act = a]
    BY <1>6 DEF Settled
  <2> HIDE DEF drift, h, a
  <2>5. page \in Page
    BY <1>1, <1>4, <2>1, <2>2, <2>3, <2>4 DEF Page
  <2>. QED
    BY <1>1, <1>6, <2>5 DEF IInv, UITypeOK
<1>. QED
  BY <1>5, <1>6 DEF UIInit

(* Every step of the page, the server and the others keeps the invariant.  *)
LEMMA NextIInv == IInv /\ [UINext]_uiVars => IInv'
<1>. SUFFICES ASSUME IInv, [UINext]_uiVars PROVE IInv'
  OBVIOUS
<1>1. CASE User
  BY <1>1, HistoryClicks, FormClicks, DraftClick, BranchClicks, MergeClick, InlineClick,
     TabClick, EnvStep, GoStep, CancelStep DEF User
<1>2. CASE ClickRefresh \/ AutoRefresh
  BY <1>2, RefreshSteps
<1>3. CASE Elsewhere
  BY <1>3, ElsewhereStep
<1>4. ASSUME NEW q \in flight, Answer(q) PROVE IInv'
  BY <1>4, ServeStep, ArriveStep DEF Answer
<1>5. CASE UNCHANGED uiVars
  BY <1>5 DEF uiVars, IInv, UITypeOK
<1>. QED
  BY <1>1, <1>2, <1>3, <1>4, <1>5 DEF UINext

(* Whatever answers arrive, in any order, the page, the requests and the   *)
(* store keep their types, and every request means what its form shows.    *)
THEOREM Invariance == UISpec => []IInv
BY InitIInv, NextIInv, PTL DEF UISpec

(* No draft is ever sent to main: a form of a draft commit that is open    *)
(* keeps its branch when the branch selector falls back to main.           *)
THEOREM DraftsStayDrafts == UISpec => []DraftStaysDraft
<1>1. IInv => DraftStaysDraft
  <2>. SUFFICES ASSUME IInv, NEW q \in flight, q.kind = "do", q.act = "commit"
                PROVE  q.branch # Main
    BY DEF DraftStaysDraft, Sent
  <2>1. q \in FormRequest /\ MeansForm(q)
    BY DEF IInv, UITypeOK, Means, Request, StateRequest, LogRequest, DiffRequest, PanelRequest,
           ShowRequest, CompareRequest, DoRequest, InlineRequest
  <2>2. q.shown \in DraftForm /\ q.shown.kind = "draft"
    BY <2>1 DEF FormRequest, MeansForm, Form, OtherForm
  <2>3. q.branch = q.shown.branch
    BY <2>1, <2>2 DEF MeansForm
  <2>. QED
    BY <2>2, <2>3 DEF DraftForm, Forks
<1>. QED
  BY <1>1, Invariance, PTL

(* A form merges the PR, or commits to and deletes the branch, it names.   *)
THEOREM FormsMeanBranches == UISpec => []FormMeansBranch
<1>1. IInv => FormMeansBranch
  BY DEF IInv, FormMeansBranch, Sent, Means, MeansForm
<1>. QED
  BY <1>1, Invariance, PTL
=============================================================================
