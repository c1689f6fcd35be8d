# Verification of cfgit

cfgit is git-like version control for the configuration records of a running
application.  The records stay where the application reads them, in MongoDB or
PostgreSQL, and anybody may write them; beside them cfgit keeps a history and a HEAD
pointer per record, and it "records what changed, and refuses to clobber changes it did
not record".  This directory holds TLA+ modules translated from the code under
`src/src/cfg`, the TLC configurations that check them on small instances, and TLAPS
proofs for all instances.

## 1. The system

| Component | Source | State it keeps | Operations | What makes it correct |
|---|---|---|---|---|
| Storage seam | `adapters/base.py`, `mongo.py`, `postgres.py` | live records, history rows, HEAD pointers, refs | `get_record`, `get_head`, `query_history`, `apply`, `apply_many`, `add_tag`, `put_ref`, `delete_ref` | a transaction is one step: it commits only if HEAD and (on request) the live document are what the caller read; HEAD is the last row; rows chain and abut |
| Engine, single record | `core/engine.py` 542-743, 1014-1131, 1230-1343 | none; reads, decides, asks for one transaction | `import`, `adopt`, `commit`, `restore`, `resolve_ref` | never overwrites what HEAD did not record; never records an empty version; ends |
| Engine, bulk | `core/engine.py` 745-939, 1020-1228 | none | `commit_many`, `restore_system_as_of`, `restore_system_tag` | nothing is written if one record may not be; resumable; says what it did |
| Engine, branches and PRs | `core/engine.py` 95-471, 941-1012 | branch, branch_commit and pr refs | `branch_create/commit/delete`, `pr_create/close/merge` | a merge publishes the frozen change set, once, over the base it was made from |
| Engine, tags and reports | `core/engine.py` 473-540, 576-673, 1265-1308 | tags on history rows | `status`, `tag`, `log`, `diff`, `export`, `doctor` | a tag names the HEADs there were |
| Hashing and diff | `core/hashing.py`, `core/diff.py` | none | `hash_doc`, `stored_doc`, `strip_for_hash`, `diff_values` | equal hash iff equal up to ignored and secret parts; what is stored hashes like what was read |
| Configuration | `core/config.py` | the parsed `.cfg.toml` | loading, validation | a verified mode, however it is spelled, is not open |
| Authorization, identity | `core/authz.py`, `core/identity.py` | none; the `[env]` tables | `resolve_identity`, `authorize_mutation` | no row or draft bears the name of one who may not write it |
| Remedies | `core/remedy.py` | none | error to advice | the advice works |
| Action layer | `interfaces/actions.py` | none | every verb, exit codes | an exit code tells what happened; loops over engine calls report each outcome |
| CLI | `cli/main.py` | the active-branch file `.cfgit/state.json` | every verb, `switch`, `edit` | commands act on the branch the user switched to |
| Web UI | `ui/server.py` | in the page: `S`, the panels, the open form, requests in flight | selecting, comparing, forms, auto-refresh | a form does what it says; the page comes to show what there is |
| MCP server | `mcp/server.py` | none of its own | tools over the action layer | as the action layer |
| Update check | `update.py` | a JSON state file shared by processes | `check`, `snooze` | at most one check per period; a snooze lasts |
| Approval hook | `approval/base.py` | none | a Protocol nobody implements | - |
| cfg_impact plugin | `plugins/cfg_impact` | none | prompts to language models | out of scope |

Components interact by calls, top down: CLI, UI and MCP call the action layer, it calls
the engine, the engine calls an adapter.  All sharing happens in the database, and in two
small files: several processes run the engine at once, and the application writes live
records with no regard for cfgit.  What makes the behaviour hard:

* every operation reads in several separate calls (the live document, HEAD, the clock)
  and only its last step is a transaction, so each decision is made on values that may
  be stale, and what the transaction compares is all that stands between a stale
  decision and the data;
* an operation on many records is many transactions, or many reads before one, or, for
  the refs of branches, many writes without any;
* a client may die at any point, a transaction may abort with a transient error and be
  retried with the same values, and a caller that lost an answer calls again;
* the page keeps working while its answers are on the way, and the two files are read,
  kept over a wait and written back in two steps.

`PROJECT.json` lists these hazards at their lines.

## 2. The modules

| Module | What it models |
|---|---|
| `Store` | the storage seam: documents, rows, HEAD, `get_head`, the transaction `Apply`, both `_put_record` variants with `_runtime_doc`, raw writes, the clocks, and the invariants of stored data |
| `Transactions` | the same transaction statement by statement on either database, with locks, snapshots, retries and lost answers; implements the one step of `Store` |
| `MainLine` | what an operation of the engine may do to the store, as one step decided on the present |
| `Engine` | `import`, `adopt`, `commit` and `restore` by concurrent clients, on top of `Store`; implements `MainLine` and `VersionedRecords` |
| `Bulk` | `commit_many`, system restores, `tag`, `import --all` and `adopt --all`, on top of `MainLine` |
| `Branches` | branches, branch commits and pull requests by concurrent users, on top of `MainLine` |
| `Commands` | the CLI and the MCP tools in front of `Engine`: identity, rights, the active branch, `set` and `edit`, `--all`, exit codes |
| `WebUI` | the page of `cfg ui`: one user, callbacks in any order, others behind the server |
| `UpdateCheck` | `check` and `snooze` over the shared state file |
| `VersionedRecords` | the abstract promise: one step per recorded or published content |
| `...Proofs` | for `Engine`, `Transactions`, `Bulk`, `Branches`, `Commands`, `WebUI` and `UpdateCheck` each: the inductive invariant and the proofs of its properties; `StoreProofs` has what `Bulk` and `Branches` both need of the store and of `MainLine` |
| `MC...` | each specification for TLC: symmetry, views, sets of tables and credentials; one `.cfg` per question |

How they stand on each other: `Transactions` shows that what the adapters do is `Store`'s
`ApplyMany`; `Engine` uses that step and shows that each of its operations is one step of
`MainLine`; `Branches` and `Bulk` put their own steps beside those of `MainLine`, so that
the phases of other clients' calls need not be repeated; `Commands` runs `Engine` phase
by phase, because it asks what a command line sees of one call.

### Store

A document has three parts, the ones the code treats apart: `body` is what
`strip_for_hash` leaves, `ign` what is stored and not hashed (`ign.fields` the
`ignore_fields`, `ign.paths` what `ignore_paths` and `ignore_patterns` name), `sec` the
`secret_fields` (neither).  SHA-256 over canonical JSON is taken to be injective, so an
oid is a body.  `history[r]` is a function from seq to row, as the unique index on
(env, collection, record_id, seq) makes it; `heads[r]` is the pointer document, with
`oid |-> None` where there is none.  `Apply` is `_apply_item` of the adapters under the
one transaction that wraps it: its guard `CanApply` collects the comparisons that raise
`StaleHead`, `NoSuchConfig` and `StaleLive` and the unique index, and its effect is all the
writes of the function, the row, the closing of the row before, the live document and
HEAD.  A refused transaction changes nothing and ends with the error of `Refusal`.
`KeepsIgnored` selects the adapter: mongo's put leaves the `ignore_fields` alone,
postgres's replaces the document.  What is written live, by a put or a seed, is not the
document that was hashed but what `_runtime_doc` makes of it: `RuntimeBody` maps a body to
the same body with the id and the `live_when` fields of its record, and maps that to
itself.  A live record may lack such a field (a column of the table says it in postgres,
and a null of `live_when` finds a missing field in mongo), so a document read from it, or
given in a file, may lack it too.

The environment is `RawWrite` (any document, or none, at any time) and `Tick`.  Each process
reads the clock of its own host.  `clock` is what the next reader's clock says, and `Tick`
sets it to anything, earlier or later: skewed clocks and clocks that are set back are
the same to the store.

### Transactions

`tx[p]` is a call of `apply` or `apply_many` and the place it is at; each action is a
statement sent to the database.

| Step | Code (`_apply_item`) | Locks in postgres |
|---|---|---|
| `read_head` | the HEAD pointer, compared with `expected_head` | the pointer's row, if there is one |
| `read_live` | the live document, if `expected_live` is given | its row, if there is one |
| `record` | the insert of the row and the closing of the one before | the new key |
| `check`, `seed` | a seed looks once more, then inserts | the id, which is unique there |
| `put` | `_put_record` reads the document again and replaces it | its row |
| `put_ref` | after the last item of a merge: `_put_ref` of the PR | the PR's row |
| `commit` | HEAD has moved; the end of the `with` block | all free |

Postgres runs at READ COMMITTED: a statement sees what is committed when it runs and
waits for what others locked, and a circle of waits is broken by aborting one of it.
MongoDB reads from the snapshot of its first read and aborts at once a write to what
another transaction wrote.  `Abort` with `tries` is the loop over `range(3)`, which starts
over with the same items; `Commit` may lose its answer; `Die` rolls back; the standalone
mongo is refused.  `Effective` says what a mongo transaction with a `put` that changes
nothing comes to: it takes no lock on the live document, so only the record of it is
guarded.  Two live documents for one record (`twins`) can come about only where the
application's collection has no unique index.

### Engine

`req[c]` is a client's call: the operation, its arguments, and the reads it has made.  Its
phases are the calls into the adapter in the order the code makes them:

| Phase | Code | Next |
|---|---|---|
| `resolve` | `resolve_ref` of `restore` | `read_live` or the end |
| `read_live` | `get_record` | `read_head` (`entry` for `import`) |
| `read_head` | `get_head`, then the verdict of the operation | `entry` (`read_live` for `import`) or the end |
| `entry` | `_secret_meta` and `_entry`, which reads the clock | `apply` or the end |
| `apply` | `adapter.apply`, up to three attempts | the end |

`Verdict` gathers the early returns (`exists`, `clean`, `changed_outside_cfgit`, `noop`),
`Item` the arguments of `apply` for the four operations (`adopt` and `import` write no
document and ask for no comparison of the live one).  The content scanner of
`_secret_meta` is a nondeterministic refusal.  `Crash` may take any client at any phase.

`MainLine` says what is left of all this for an observer of the store: each operation is
one step.  A document it records need not be live any more, nor its timestamp the present
time, but its comparisons (no HEAD yet, news to HEAD, live record clean) hold at the
step.  That `Engine` implements it (`ActsOnPresent`, checked and proved) is what lets
`Branches` stand on `MainLine`, without the phases of other clients' calls.

### Bulk

`job[o]` is an operator's command, its plan and its report. Both phases of the code are
steps: `Gather` or the query of the tagged rows, `PlanLive` and `PlanHead` for each
record, then `WriteNext`, or `RestoreLive`, `RestoreHead` and `RestoreApply`, for each
entry of the plan. A bulk commit keeps the reads of its plan for the transaction, and a
failure ends it; a restore reads again, and goes on after a failure. Every transaction may
also commit and report failure (a lost answer, an interrupt). `StartTag`, `TagHead` and
`AddTag` are the loop of `tag`, `Sweep` is that of the `--all` verbs. `StatusFirst` and
`StatusSecond` are the two batches of `_batch_live_and_heads`, which run concurrently:
either may come first. The listing of `_all_refs` reads one collection after the other,
and is one read of each record here. `Others` is everybody else: any step of `MainLine`, a
seed, drift. Runs begin with any short past of every record (`BulkInit`), so that a
re-run, or a restore after a partial one, is a run of its own and need not be reached.

### Branches

The refs store is three partial functions, `branches` (name to `head_commit_id`),
`commits` and `prs` (by id); `PutRef` is the upsert of `_put_ref`, `DeleteRef` the delete.
`task[u]` is a user's command and what it has read.  Each call into the adapter is a
step:

| Command | Steps |
|---|---|
| `branch_create` | `CheckNew`, `CheckBase`, `PutBranch` |
| `branch_delete` | `CheckThere`, `CheckPrs`, `DeleteBranch` |
| `branch_commit`, `branch_commit_many` | `Require`; per record `PlanLive`, `PlanHead`, `PlanLatest`; then `PutCommits` one by one, `PutHead` |
| `pr_create` | `ReadBranch`, `ReadLog`, `ReadLatest`, `PutPr` |
| `pr_close` | `ReadPr`, `PutClosed` |
| `pr_merge` | `CheckOpen`, `CheckBranch`, `ReadDrafts`; per record `MergeLive`, `MergeHead`; `MergeApply` |

`branch_commit` is the bulk command with one record: it does the same to the refs, and
only words its results otherwise.  A ref that is put back whole keeps what it was read
with, except what the command sets: of a branch nothing but the head is ever used again,
of a PR the status and the merge results.  `Latest` is `_branch_latest_by_record`; the
random ids of commits are numbers drawn in any order, since ids are compared only to
break ties of `created_at`.  A command takes the records of its list in any order.  `Die`
takes a user at any step; `LastingSpec` is the same system without it.  The bases of
branches are checked for existence and otherwise left out: no code reads them again.

### Commands

`cmd[s]` is what a shell, or an agent, is running: who calls, what it asked for, what it
has read.  `LoadEnv`, `ResolveIdentity` and `AuthorizeMutation` translate the loader, the
identity sources in their order and the rights; every command passes them before the
engine is called.  `ReadState` is `_active_branch`; `Lookup`, `EmptyFile` and `FillFile`
are `switch`, whose file is empty between its last two steps.  `Fetch` and `Editor` are
what `set` and `edit` do before they call commit.  `EngineWorks` is a step of `Engine`, and
`EngineReturns` its answer, or the loss of it.  With `--all` a command goes over a list of
records, `ListAll` and `NextRecord`, and `Report` collects a result or, at an error, ends it
with what it wrote written.  Where the `[branches]` table does not enable branches there
is no active branch and every command about one is refused.  Branch commits are two steps here,
as `Branches` has the detail.  `ExitCode` is the mapping of states and exceptions to exit
codes, the same for the CLI and the envelope of MCP.  Policies are a few tables that
differ in identity mode, permissions, writers, admins, admin actions and branching; callers
differ in token, database principal and `--author`.  The application writes a record
while some command is about it (`About`); what it does before may as well be done when the
next command has begun, before anything is read.

### WebUI

`page` is the global `S` and what is on the screen, `flight` the requests without an
answer, each with what its callback has captured.  `Arrive` runs the callback on the page
as it is then (`Callback`), up to its next `await`; any request may be answered first.
The functions of the page are operators from a page to a page and the requests it sends.
A document is named by the record it is of, a history keeps only whether a version is an
older one, and identical requests in flight count as one: they have the same callback.
`Elsewhere` is any other change to what the server finds.  An answer about the state may
be one that failed, with the branches and PRs empty or with everything empty, and the
page empties with it (`ServeState`, `Loaded`).  `ChooseEnv` is the env selector: the selection
goes, the state is asked for, and `store` is now what the other env holds.  Requests about
the env left are taken to have been served before, since what is done there is not looked
at any more; their answers may still arrive in any order.

### UpdateCheck

`check` and `snooze` read the file, wait for PyPI, and write it in two steps, `Truncate` and
`Fill`; `Die` between them leaves it empty, and of two texts written at once either may
win, or a mixture.  `agreed` and `alone` are ghosts: what was promised by calls that did
not overlap.  The properties promise nothing to calls that did, which is what the code
does.

## 3. What the runs check

| Run | Instance | Checks |
|---|---|---|
| `engine` | 1 record, 2 bodies, 2 clients, up to 3 versions, clocks of 2 values, 2 attempts, 1 of the bodies incomplete | the invariants of stored data (`HeadIsLastRow`, `ParentChain`, `IntervalsAbut`, `SomeRowAtEveryInstant`), drift is never clobbered, the refinement of `VersionedRecords` (`KeepsPromise`) |
| `engine_fields` | 1 client, 2 bodies, 2 values of `ignore_fields`, 1 secret, 2 versions, mongo, `FairSpec` | secrets stay live, `ignore_fields` are left alone, every operation returns, every operation is one step of `MainLine` (`ActsOnPresent`) |
| `transactions` | 2 records, one of them busy, 2 clients, 2 attempts, all three backends, `FairTxSpec` | commits are single steps of `Store` (`ApplyIsAtomic`), a call that answers wrote what it says (`AnswerIsTrue`), every call ends (`CallsEnd`), only the application makes twins |
| `bulk` | 2 records, an incomplete and a whole body, pasts of up to 2 versions, clocks of 2 values, 1 operator, 1 move of others | a blocked command wrote nothing, a report accounts for every record, success means the documents are there, a re-run writes nothing again, a tag names the HEADs, every write is decided on the present |
| `branches` | 1 record, 3 bodies, 2 users who may die, 1 branch, 1 commit, 1 PR, 1 version of the main line | heads are on their branch, merges are on the base of their drafts, drift is not clobbered, a merge reports the row it wrote |
| `branches_serial` | 2 records, 2 bodies, 1 user, 2 commits, 2 PRs | drafts chain, merges of two records commit on a snapshot, a merge writes what its PR shows |
| `commands` | 1 record, 1 field of 2 values, 2 shells, 2 commands, 1 draft branch, 2 policies, 4 callers | an exit code tells whether anything was written (by `--all`: whether it may have been), authors may write what bears their name, commits follow the branch switched to |
| `webui` | 2 records, 1 draft branch, 2 clicks, 2 requests in flight by hand, 1 change elsewhere, failed answer or other env, `FairUISpec` | no draft goes to main, a form about a branch acts on that branch, the page comes to show what others changed, the list of versions follows the selection |
| `update` | 2 processes, interval and snooze of 2, 4 clock values, 3 calls | a snooze holds, PyPI is asked once per interval |
| `frozen_pr`, `set_lost_update`, `webui_form` | as `branches_serial` with 2 users, 1 record and 1 PR; as `commands` with 2 fields and one policy; as `webui` | section 4 |

Why these bounds are enough to be interesting.  `engine`: a record's transactions touch no
other record, so one record carries every interleaving; two clients are needed for each
race between an operation's reads and another's transaction, and a third adds no kind of
step to what the first may see; two bodies make clean, drifted and recurring contents
possible, three versions the A-B-A histories where an oid comparison cannot tell stale
from fresh; two clock values tell a timestamp that is too early from one that is not.  The
first body lacks a field that `_runtime_doc` adds and becomes the second, so a write that
is not clean, and the drift it makes, are in the run.  The bound on
versions counts the calls under way (`Pending`), so a transaction is never cut off by it:
a client that may not start is the only effect.  With one client `engine_fields` still has
the application between any two of its steps.

`transactions`: two records are what a circle of waits and a partial write need; with two
attempts there is one that is tried again and one that is the last.  The view forgets
what is over, and the record only the merge writes starts with one and the same document
(`MCSpec`): the two bodies are interchangeable.  `bulk`: two records are
what one blocked, failed or pending record among others needs, and one move of somebody
else lands between any two steps of the operator, every later one being of the same kind;
two versions make a date or a tag that is not HEAD.  Its view leaves the times out once
nobody can look at them any more, which is when no operator is idle or gathering the rows
of a date: until then all of them are told apart.

`RuntimeBody` is the identity in `transactions`, in the runs of `Branches` and in those of
`Commands`: the first takes any two documents as they are, and the last two are about refs
and exit codes, which `engine` and `bulk` show to be the same for an incomplete document.
The proofs are for any `RuntimeBody`.

`branches`: three bodies, so that a draft, HEAD and drift can all differ; two users, so that
every command races every other; one branch name suffices, because commands of different
branches share only the main line, which moves by itself.  `MaxVersions` bounds what the
main line adds, never a merge.  No property there looks at times, so the clock stands
still.  `branches_serial` has one user on purpose: two commits make
a draft that follows another, and two PRs a second merge after the first; the violation
`frozen_pr` is then owed to the second user.  `DraftsChain` and `MergesASnapshot`, checked
there, are proved for any number of users; `MergesWhatPrShows` is false with two, and what
it shows is that the head of a branch guards a PR against later commits.

`commands`: a race of two command lines is a race of two of their steps; two calls are
enough for each. One attempt, since a retry shows nothing to a caller. One record, so that
`--all` goes over a list of one; over longer lists it is `ExitsTell` that says the same.
Of the two policies one verifies identities and enforces permissions, and one is open
without branches. `webui`: two clicks and the timer make every pair of captured and
current selection; two requests asked by hand make every overtaking, and callbacks add to
them without bound. The record that is selected at the start is one and the same
(`MCSpec`): records are interchangeable. `update`: three calls are a check, a snooze and
the check that should heed both, and the clock ends after both have run out once.

`CHECK_DEADLOCK FALSE` stands where calls, clicks or moves are bounded and a run therefore
ends: `bulk`, `commands`, `transactions`, `update`, `webui`.  In `transactions` `CallsEnd`
says more than deadlock checking would.

Fairness. `FairSpec`: weak fairness of each client's own steps. A running process takes
its next step and a database call returns or raises (drivers time out). Nothing is assumed
of the application, of the clock or of new calls. A crash ends the call, so it cannot be
what starves it. `OperationsReturn` holds because retries are bounded and no verdict sends
an operation back to an earlier read. `FairTxSpec`: as long as some statement can run, or
some circle of waits is to be broken, the database does one of these things; which one is
up to it, and a call that waits is owed nothing itself. `FairUISpec`: the server answers,
an answer that is there arrives, each kind on its own, and the timer goes off again and
again (`setInterval`). Nothing is assumed of the user, who may leave a form open; the
properties therefore ask only for pages that are not busy for good. Failed answers are
bounded: of a server that fails for ever nothing can be asked.

## 4. Where documents and code disagree

Three runs expect a violation, each with one property taken from the quoted line.

* `frozen_pr`: `docs/BRANCHING_PLAN.md:196`, "Recompute the changeset hash and ensure it
  matches the frozen PR".  The merge compares the branch's head id only and then merges
  every latest commit of that branch name.  A commit whose branch ref is still to be
  written is merged with a PR that never listed it (`MergesWhatPrShows`).
* `set_lost_update`: `docs/SPEC.md:721`, of two commits of one record "exactly one wins ...
  No lost update".  `set` builds its document from a live record it fetched, and the engine
  then compares live and HEAD with each other, as they are now: a field somebody else
  committed in between is put back (`NoLostUpdate`).  So it is with `edit`, for as long as
  the editor is open.
* `webui_form`: the form says "Edit the JSON for <record>" (`ui/server.py:1484`), and sends
  the record selected when the button is pressed.  An answer that selects again, after a
  refresh or a commit, moves the selection under the form (`FormMeansRecord`).

More differences are stated as properties of the modules.  No run has them; adding one to
a configuration makes TLC show the trace.

* `OneRowPerInstant` (`Store`): `docs/SPEC.md:420`, as-of finds "exactly one entry per config
  (intervals are contiguous and non-overlapping by construction)".  They are contiguous
  (`IntervalsAbut`) but may overlap, because a row begins when the clock of its client's
  host says (`engine.py:1322`, `mongo.py:524`, `postgres.py:661`), where `docs/SPEC.md:134` and
  `:269` have times "assigned by the history store, not the client", by a "server-trusted UTC
  clock".  A client whose clock is behind files a row that begins before the one it
  follows, and the as-of query finds two rows or more (the latest by `valid_from` is taken).
  With one clock for all it still happens, where a content recurs: a client reads HEAD = A
  and stamps its entry; others commit B and restore A; its transaction compares oids,
  finds A, and files a row that begins before the last.  What does hold is that no instant
  is without a row (`SomeRowAtEveryInstant`: checked and proved).
* `PutIsClean` (`Engine`): `docs/SPEC.md:176`, after a put the live record hashes to the
  entry's oid and "the dirty test cannot trip on a difference cfg itself created".
  `_runtime_doc` (`mongo.py:624`, `postgres.py:738`) puts the id and the `live_when`
  fields into what is written after the oid was computed from the document as it was
  given. A commit of a document without one of them leaves the record changed outside of
  cfgit, and the next commit is refused. What does hold is `WriteIsHead`: the difference
  is this one only.
* `SuccessIsClean` (`Bulk`): the same of bulk commands.  A bulk commit of such a document ends
  with `committed`, and run again ("rerunning the same command resumes",
  `docs/USAGE.md:143`) it is blocked by its own write.
* `LeavesPathsAlone` (`Engine`): `docs/SPEC.md:175`, put leaves what `ignore_paths` names
  untouched.  Both adapters overwrite it; mongo protects `ignore_fields` only
  (`mongo.py:586`).
* `DiscardDriftWorks` (`Engine`): the remedy for `changed_outside_cfgit` (`remedy.py:58`) is a
  restore that is refused with `changed_outside_cfgit`.
* `LeavesIgnoredAlone` (`Engine`) with `KeepsIgnored = FALSE`: `docs/SPEC.md:174`, put leaves
  the ignored fields untouched; the postgres adapter overwrites them.
* `MergesOverBaseOnly` (`Branches`): `docs/BRANCHING_PLAN.md:201`, "confirm live runtime hash
  still equals `base_oid`".  The recorded `base_live_oid` is never compared, so a record
  without history is overwritten whatever it has become.
* `PrSettlesOnce` (`Branches`) with two users: `docs/BRANCHING_PLAN.md:195` and `:204`.  A
  close that read the PR before a merge committed writes it back as closed, its results
  gone; or a closed PR is merged.
* `OpenPrHasBranch` (`Branches`) with two users: `branch_delete` refuses while an open PR
  is on the branch (`core/engine.py:154`), but one may be opened between that look and the
  delete.
* `RestoredIsRestored` (`Bulk`): a system restore reports `restored` (exit code 0) although a
  record drifted after the plan and was left as it was (`changed_outside_cfgit`).
* `PendingNotWritten` (`Bulk`): "Return a clean partial report (what landed, what did not)"
  (`core/engine.py:861`); the record at hand is reported as pending although its transaction
  may have committed.
* `LoserIsStale` (`Transactions`): `docs/SPEC.md:721`, "loser gets StaleHead".  Of two first
  versions on postgres the loser ends with a UniqueViolation, as no HEAD row is there to
  lock.
* `SnoozeQuietsBoth` (`UpdateCheck`): `update.py:5-6`, a snooze "taken in either place quiets
  both".  The agent's tool forces the check, which ignores the snooze.

And some that no property states:

* `docs/SPEC.md:410`, "Atomic. After adopt -> clean.": a commit between adopt's two reads
  makes adopt record the older content as HEAD.
* `docs/SPEC.md:698`, "a retried restore converges (no-op if at target)": `_restore_one` has
  no such test and writes one more version.
* `README.md:10`, "refuses to clobber changes it did not record": a commit to a record with
  no history does, by the same test that `MergesOverBaseOnly` shows for merges.
* `docs/BRANCHING_PLAN.md:129`, "A branch contains only records it touches": a branch created
  under the name of a deleted one inherits its commits.
* A branch commit of a record that is missing exits with 0; `set` and `edit` go to the main
  line whatever branch is active (`cli/main.py:495`); an error in the middle of `adopt --all`
  loses the results of the records adopted before it.

## 5. What is proved

All theorems are about any sets of records, clients, users, operators, shells, processes,
branches, contents, policies and callers, and any bounds.  They rest on the named
assumptions of the modules only: None is no content, no document, no time, no result and
no report (`NoneAssumption`, `DocAssumption`, `NoTime`, `ResultAssumption`, `NoReport`,
`SnapshotAssumption`); bounds are numbers; `KeepsIgnored` is Boolean; the default branch is
no draft.  `Commands` takes it that every policy is a table with the keys the loader
reads (`PoliciesAssumption`).  `Transactions` takes it that there are finitely many records
(`RecordsAssumption`) and that the ignored fields never change (`OneIgnored`), because there
both adapters are one specification.  TLC evaluates each of them on every instance.

| Module | Theorems |
|---|---|
| `EngineProofs` | invariants `TypeCorrect`, `HeadConsistent`, `ParentsChained`, `TimesAbut`, `NoEmptyVersions`, `SecretsStayOut`, `NoInstantIsLost`; what no step does `NoClobber`, `HistoryOnlyGrows`, `WritesAreHead`, `SecretsStayLive`, `IgnoredStays`; `Refinement`: `Engine` implements `VersionedRecords`; `Atomicity`: it implements `MainLine` |
| `TransactionsProofs` | `ApplyIsOneStep`: statements that interleave implement one step of `Store`; `AnswersAreTrue`, `TwinsAreInserts`, `HeadsStayLast` |
| `BulkProofs` | `BlockedIsUntouched`, `ReportsAccount`, `SuccessesAreThere`, `TagsAreHeads`, `RerunsSkip`; `ActOnPresent`: every write is a step of the main line; `StoreStays`, `JobTypes` |
| `BranchesProofs` | `RefsTypeCorrect`, `BranchHeads`, `DraftChains`: the refs, whoever dies between their writes; `MergedHeadIsLastRow`, `MergedParentChain`, `MergedIntervalsAbut`: the history; `MergeOnBase`, `MergeOfSnapshot`, `MergeKeepsDrift`: what a merge commits on; `ReportsAreRows`: what it reports |
| `CommandsProofs` | `CommandsRunEngine`: `Commands` implements `Engine`; `ExitsTell`, `OnlyWritersWrite`, `DraftsStayDrafts` |
| `WebUIProofs` | `DraftsStayDrafts`, `FormsMeanBranches` |
| `UpdateCheckProofs` | `SnoozesHold`, `ThrottlesHold`, `AgreementIsKept`, `TypesHold` |

Four of them put the modules on top of each other. `ApplyIsOneStep` says that what the
adapters do is `ApplyMany` of `Store`, `Atomicity` that `Engine`, which uses that step,
does what `MainLine` allows, `ActOnPresent` that `Bulk` does, and `CommandsRunEngine` that
a step of a command line is a step of `Engine` or none, so that all theorems of `Engine`
hold below the CLI and the MCP tools.

None of the properties is inductive alone, since each depends on what a process remembers
between its reads and its write.

`Engine`. `IInv` joins to the type invariant and the store's invariants (`StoreInv`) a
statement about every client in the middle of a call (`ClientOK`): the HEAD it read is
still a row of the history, although perhaps no longer the last (`SeenHead`); its verdict
held of what it read. These survive because histories only grow (`MemoryStable`), which is
itself what a transaction does (`ApplyGains`). When the transaction then finds HEAD's oid
equal to the one remembered, the verdict carries over to the present (`WriteOverHead`,
hence `NoClobber` and the refinement). Of its timestamp nothing is known, and
`NoInstantIsLost` needs nothing: rows abut, so of those that begin by an instant the last
one has not ended by it. `WritesAreHead` and `Refinement` say what is live after a write
up to `RuntimeBody`. `Atomicity` needs one fact more, that the HEAD of the transaction
exists exactly if the one that was read did (`HeadAsRead`). `IgnoredStays` is proved for
`KeepsIgnored` and of `ignore_fields` only; section 4 has the other adapter, and the
paths.

`Transactions`. What protects a transaction is a different thing on either database, and
the invariant states both. On postgres it is the locks: whatever a transaction has a key
of is as it read it (`PtrOK`, `ReadOK`, `SeededOK`), and no key has two owners
(`KeysAreOnes`). On mongo it is the snapshot: what is not stale is in the store as the
snapshot has it, and a transaction has written nothing that is stale (`SnapshotOK`).
Neither says why two first versions of a record, where there is no pointer to lock, do not
both commit. That is the new row of the history, which is a key on both: a transaction
that has recorded a record has the key of the row after HEAD (`RecordedOK`), so whoever
else recorded it started from another HEAD. At the commit all of this together is
`AllCanApply`, and what the transaction has gathered is what `ApplyMany` writes
(`ApplyIsOneStep`). `Effective` leaves out the comparison of a live document that a mongo
transaction read and did not change: such a put guards nothing at its commit, where
`Apply` of `Engine` and `Bulk` still compares. The application may then write between the
put and the commit, which comes to the same as its writing right after. `AnswersAreTrue`
is about a whole call: the ghost `wrote` counts the steps of a client that change what is
stored, it is zero until the commit (`WroteAtEnd`), no statement before it changes
anything (`QuietAnswer`), and no call goes on after it.

`Bulk`.  Of a job the invariant says where each record of the command is: to be judged,
planned, blocked, reported or failed, and in one place only (`Accounts`); that nothing is
written before the plan is complete, and that only a plan with nothing blocked is
executed (`WroteOK`); what an entry of the plan was judged by (`EntryOK`).  `touched`, the
records others wrote since, is what makes the rest true: of a record not in it, the entry
is still what the store says (`EntryFresh`), a result is still there (`IsThere`: live as it
was recorded, or as `RuntimeBody` made it if this command wrote it), and a tag
is on HEAD (`TagsOK`).  Lost answers are why a success is claimed of at most what was
written, and why more may have been written than is claimed, by what failed or is
pending.

`Branches`.  The invariant is `StoreOK`, the rows and pointers, with `RefsOK`: the types of the
refs; the PRs are no more than allowed; a branch's head is a commit on it; every commit's
line of parents has a last member (`CommitsOK`), which is what `DraftsChain` needs and what a
commit added at the tip keeps; the ids users have drawn are nobody else's (`FreshPlans`);
and, per user, what its task remembers (`TaskOK`).  It is needed because a branch's head is
written after its commits, by a user who may never come to it: while the commit ref is
there and the branch ref is not, only the user's task says what the branch ref will
point to.  Memory stays true because commits are only added (`Grows`, `TaskStable`), even
when a branch is deleted.  A merge's items are on base and clean by what its user read of
each record, at different moments; the transaction compares HEAD and live of every one at
a single moment, so the verdicts carry over to that moment, and `MergeOfSnapshot` follows
although the reads were no snapshot.  `ReportsAreRows` needs what the user saw of the history
(`ReportsOK`): the seq it computed was one above a row with the oid of the HEAD it read
(`SeenSeq`).  The transaction compares oids only, so HEAD may be another row with the same
oid; as long as no content recurs it is that row, and the seq is the new one's.

Nothing is proved of one user alone.  `PrSettlesOnce`, `OpenPrHasBranch` and
`MergesWhatPrShows` are false with two, because a ref is put or deleted some time after
what decided it was read (section 4).

`Commands`.  The invariant is that of `Engine` and, beside it: a shell whose engine call is
under way has written nothing, and one whose call has ended wrote if and only if the
result is `applied` (`EngineOK`); with `--all` what earlier records came to is kept apart from
the call under way (`LineOK`); whoever is about to write was identified and authorized by
the policy (`EffectOK`); the author of every row and of every draft may write (`RowsOK`,
`DraftsOK`).
`FileOK` ties the state file to the last switch, or says whose file it is now.

`WebUI`.  Every request in flight means what the form showed that sent it (`Means`).  That is
proved of each function of the page and carried through every callback (`Fine`): an answer
may change the selection, the branch and the panels under an open form, but no form that
names a branch takes it from there.

`UpdateCheck`.  `FileKept`: what undisturbed calls have agreed is in the file whenever nobody
is half-way through writing it; and what such a call remembers, and is going to write
back, still has it (`JobOK`).

`NoEmptyVersion`, `NoSecretInHistory`, `HistoryAppendOnly`, `WriteIsHead` and `FileKept`
are proved, and no run lists them.

Only model-checked: `OperationsReturn`, `CallsEnd`, `PicksUpChanges` and `HistoryFollows`,
since liveness is out of the prover's reach, and `MergesWhatPrShows`, for one user. No
module has a RECURSIVE operator.

## 6. What is not modelled

* The inside of documents: normalisation of values, dotted paths and patterns of
  `ignore_fields` and `secret_fields`, canonical JSON.  A body is one value of a set, and
  SHA-256 is taken to be injective.  What is computed there is by recursion over data; a
  model would be the same functions again.
* `diff_values` and the verbs that only read: `log`, `diff`, `export`, `doctor`, `show`, the
  tables of `status`.  Nothing is decided on their results.  (The as-of query and the
  `status` that `adopt --all` acts on are modelled.)
* The remedies, a table from codes to advice: the one that contradicts the engine is in
  section 4.
* The rest of the configuration loader, which validates and sets defaults: the tables of
  collections are the constants `Ignored`, `Secrets` and `KeepsIgnored`.
* Argument parsing, printing, HTML and styles, the wording of results, the MCP wrappers.
* Connection set-up, index creation, the atomicity probe.
* The approval Protocol, which has no implementation and no caller, and the cfg_impact
  plugin, which sends diffs to language models.
* The exit codes of bulk commits, system restores, tags and pull request commands, which
  `Commands` does not have: what these verbs report is in `Bulk` and `Branches`.
* On the page, the document of a form is known by its record and not by its env: that a
  document fetched before the env selector was used may be committed in the other env is
  not seen.  What becomes of a request served after its env was left is not either.

Hazards without a property have a note in `PROJECT.json` that says why.
