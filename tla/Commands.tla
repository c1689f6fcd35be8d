------------------------------ MODULE Commands ------------------------------
(***************************************************************************)
(* The two command surfaces, the CLI (cli/main.py) and the MCP tools       *)
(* (mcp/server.py), over one action layer (interfaces/actions.py): who the *)
(* caller is (core/identity.py), what he may do (core/authz.py), which     *)
(* line a commit goes to (the state file `switch` writes), what is read    *)
(* before the engine is called (`set`, `edit`), and the exit code.  Every  *)
(* call of the engine is an operation of module Engine, step by step       *)
(* (`adopt --all` and `import --all` call it for one record after the      *)
(* other); the branch operations, which Branches details, are one or two   *)
(* steps.                                                                  *)
(***************************************************************************)
EXTENDS Engine, Sequences

CONSTANTS
  Fields, Values, \* a hashed part is an assignment of values to fields
  Drafts,         \* the names of draft branches
  Main,           \* the default branch
  Env, OtherEnv,  \* the env modelled, and another of the same project
  Policies,       \* what .cfg.toml says of the env: identity, permissions,
                  \* and whether branches are enabled
  Callers,        \* credentials and --author of a caller
  MaxCalls        \* bound on the commands ever run

ASSUME FieldsAssumption == Bodies = [Fields -> Values]
ASSUME LinesAssumption == Main \notin Drafts /\ None \notin Drafts /\ Env # OtherEnv
ASSUME PoliciesAssumption ==
  \A t \in Policies :
    /\ {"identity", "identity_mode", "sources", "permissions", "branching"} \subseteq DOMAIN t
    /\ t.branching \in BOOLEAN
    /\ t.sources # None => t.sources \in Seq({"db_principal", "token"})
ASSUME CallsAssumption == MaxCalls \in Nat /\ MaxCalls <= MaxVersions

VARIABLES
  policy,    \* .cfg.toml, as it is loaded
  authors,   \* the author of each history row
  branches,  \* the drafts that exist
  drafts,    \* the latest draft of each record: its oid and author, or None
  stateFile, \* .cfgit/state.json: an env and a branch, or None (absent, torn)
  active,    \* ghost: the branch of the last `switch` of Env that was done
  cmd,       \* what each shell is running
  calls      \* how many commands were run

commandVars ==
  <<vars, policy, authors, branches, drafts, stateFile, active, cmd, calls>>

refsVars == <<branches, drafts>>

fileVars == <<stateFile, active>>

(* What is the same in every step of a command.                            *)
Kept == UNCHANGED <<policy, calls>>

-----------------------------------------------------------------------------
(* The loader.  A permissions.mode that names a verified identity mode      *)
(* asks for it, unless the table sets another, and restricts who may write. *)
IdentityMode(t) ==
  LET said == IF t.identity # None THEN t.identity ELSE t.identity_mode
  IN  IF said # None THEN said
      ELSE IF t.permissions \in {"authenticated", "enforced"} THEN t.permissions ELSE "open"

LoadIdentity(t) ==
  [t EXCEPT !.identity = IdentityMode(t),
            !.sources = IF @ = None THEN <<"db_principal", "token">> ELSE @]

LoadPermissions(t) ==
  [t EXCEPT !.permissions = IF @ = None THEN "open"
                            ELSE IF @ \in {"authenticated", "enforced"} THEN "restricted"
                            ELSE @]

LoadEnv(t) == LoadPermissions(LoadIdentity(t))

(* The caller.  An identity source proves an author or it does not; the    *)
(* first that does decides, and an --author that says otherwise is an      *)
(* error, not a reason to try the next source.                             *)
NoIdentity == [author |-> None, verified |-> FALSE]

FromToken(p, c) == IF c.token \in DOMAIN p.tokens THEN p.tokens[c.token] ELSE None

FromPrincipal(p, c) ==
  IF c.principal \in DOMAIN p.principals THEN p.principals[c.principal] ELSE c.principal

Proves(p, c, source) ==
  IF source = "token" THEN FromToken(p, c) ELSE FromPrincipal(p, c)

SelfAsserted(c) ==
  [author |-> IF c.explicit # None THEN c.explicit ELSE c.user, verified |-> FALSE]

(* The sources that prove an author, and the first of those.               *)
Proving(p, c) == {i \in DOMAIN p.sources : Proves(p, c, p.sources[i]) # None}

ProvenAuthor(p, c) ==
  LET first == CHOOSE i \in Proving(p, c) : \A k \in Proving(p, c) : i <= k
  IN  Proves(p, c, p.sources[first])

(* Bug: the author is whom --author names.                                 *)
ResolveAsNamed(p, c) ==
  IF p.identity = "open" THEN SelfAsserted(c)
  ELSE IF Proving(p, c) = {} THEN NoIdentity
  ELSE [SelfAsserted(c) EXCEPT !.verified = TRUE]

ResolveIdentity(p, c) ==
  IF p.identity = "open" THEN SelfAsserted(c)
  ELSE IF Proving(p, c) = {} \/ c.explicit \notin {None, ProvenAuthor(p, c)} THEN NoIdentity
  ELSE [author |-> ProvenAuthor(p, c), verified |-> TRUE]

PermissionRole(p, a) ==
  IF a \in p.admins THEN "admin"
  ELSE IF a \in p.writers THEN "writer"
  ELSE IF p.permissions = "open" THEN "open" ELSE "none"

AuthorizeMutation(p, id, action) ==
  /\ p.identity # "open" => id.verified
  /\ action \in p.adminActions => PermissionRole(p, id.author) = "admin"
  /\ p.permissions = "restricted" => PermissionRole(p, id.author) \in {"admin", "writer"}

(* The action each command is authorized as, by the operation it calls.    *)
ActionOf(name) ==
  CASE name \in {"commit", "set", "edit"} -> "commit"
    [] name \in {"create", "delete"} -> "branch"
    [] OTHER -> name

MayRun(s) == AuthorizeMutation(policy, cmd[s].id, ActionOf(cmd[s].name))

-----------------------------------------------------------------------------
NoCommand ==
  [pc     |-> "idle",
   name   |-> None,
   id     |-> NoIdentity,
   line   |-> None,   \* --branch, then the line the commit goes to
   all    |-> FALSE,  \* --all, and the records still to be done
   todo   |-> {},
   rec    |-> None,
   ref    |-> None,   \* what a restore names
   field  |-> None,   \* the assignment of a set
   value  |-> None,
   doc    |-> None,   \* the document to commit
   env    |-> Env,    \* --env of a switch
   late   |-> FALSE,  \* the file was written to since this switch emptied it
   told   |-> Main,   \* ghost: active when the file was read,
   read   |-> None,   \* and what was read
   wrote  |-> FALSE,  \* ghost: the command changed the store or the refs
   state  |-> None,   \* the state the command reports
   code   |-> None]   \* its exit code

Running(s) == cmd[s].pc \notin {"idle", "done"}

SetCmd(s, c) == cmd' = [cmd EXCEPT ![s] = c]

Fine ==
  {"applied", "clean", "noop", "missing", "exists", "all", "switched", "created", "deleted"}

(* Bug: a command whose answer was lost is reported like a refused one.    *)
LostIsRefused(state) ==
  CASE state \in Fine -> 0
    [] state \in {"secret_blocked", "bad_argument"} -> 1
    [] state \in {"changed_outside_cfgit", "stale_head", "stale_live", "failed"} -> 2
    [] state \in {"forbidden", "identity_required"} -> 4
    [] state = "not_found" -> 5

(* The exit code, and the code of the MCP envelope, of a result or of the  *)
(* exception raised instead of one.                                        *)
ExitCode(state) ==
  CASE state \in Fine -> 0
    [] state \in {"secret_blocked", "bad_argument"} -> 1
    [] state \in {"changed_outside_cfgit", "stale_head", "stale_live"} -> 2
    [] state = "failed" -> 3
    [] state \in {"forbidden", "identity_required"} -> 4
    [] state = "not_found" -> 5

(* The command c is over; its arguments are forgotten.                     *)
Over(c, state) ==
  [NoCommand EXCEPT !.pc = "done", !.all = c.all, !.wrote = c.wrote, !.state = state,
                    !.code = ExitCode(state)]

(* main, make_engine: the config is loaded and the caller identified       *)
(* before anything else is done.                                           *)
Begin(s, caller, c) ==
  LET id == ResolveIdentity(policy, caller)
  IN  /\ ~Running(s) /\ calls < MaxCalls
      /\ calls' = calls + 1
      /\ SetCmd(s, IF id = NoIdentity THEN Over(c, "identity_required")
                   ELSE [c EXCEPT !.id = id])
      /\ UNCHANGED <<vars, policy, authors, refsVars, fileVars>>

(* `cfg commit` of a full document asks the state file where to go unless  *)
(* --branch says so; the MCP tool and the UI never do.                     *)
StartCommitFrom(s, caller, r, d, flag, cli) ==
  Begin(s, caller,
    [NoCommand EXCEPT !.name = "commit", !.rec = r, !.doc = d,
       !.line = IF flag = None THEN Main ELSE flag,
       !.pc = IF cli /\ flag = None THEN "state" ELSE "call"])

StartSet(s, caller, r, f, v) ==
  Begin(s, caller, [NoCommand EXCEPT !.name = "set", !.pc = "fetch", !.rec = r,
                                     !.field = f, !.value = v, !.line = Main])

StartEdit(s, caller, r) ==
  Begin(s, caller, [NoCommand EXCEPT !.name = "edit", !.pc = "fetch", !.rec = r,
                                     !.line = Main])

StartOnRecord(s, caller, name, r, k) ==
  Begin(s, caller, [NoCommand EXCEPT !.name = name, !.pc = "call", !.rec = r,
                                     !.ref = k, !.line = Main])

StartOnAll(s, caller, name) ==
  Begin(s, caller, [NoCommand EXCEPT !.name = name, !.all = TRUE, !.pc = "list",
                                     !.line = Main])

StartOnBranch(s, caller, name, b, e) ==
  Begin(s, caller, [NoCommand EXCEPT !.name = name, !.line = b, !.env = e,
                                     !.pc = IF name = "switch" THEN "lookup" ELSE "branch"])

-----------------------------------------------------------------------------
(* Bug: a branch that is not there any more is not the active one.         *)
ActiveIfThere(file) ==
  IF policy.branching /\ file # None /\ file.env = Env /\ file.branch \in branches
    THEN file.branch ELSE Main

(* _active_branch: a file that cannot be read, or is about another env,    *)
(* means the default branch; and there is no other if branches are not     *)
(* enabled.                                                                *)
ActiveBranch(file) ==
  IF policy.branching /\ file # None /\ file.env = Env THEN file.branch ELSE Main

ReadState(s) ==
  /\ cmd[s].pc = "state"
  /\ SetCmd(s, [cmd[s] EXCEPT !.pc = "call", !.line = ActiveBranch(stateFile),
                              !.told = active, !.read = stateFile])
  /\ UNCHANGED <<vars, authors, refsVars, fileVars>> /\ Kept

(* switch looks the branch up (one of another env is there or not), then   *)
(* write_text empties the file and fills it.                               *)
Lookup(s) ==
  LET c == cmd[s]
  IN  /\ c.pc = "lookup"
      /\ \/ ~policy.branching /\ SetCmd(s, Over(c, "bad_argument"))
         \/ policy.branching /\ c.line # Main /\ (c.env = Env => c.line \notin branches)
            /\ SetCmd(s, Over(c, "not_found"))
         \/ policy.branching /\ (c.env = Env => c.line \in branches \cup {Main})
            /\ SetCmd(s, [c EXCEPT !.pc = "empty"])
      /\ UNCHANGED <<vars, authors, refsVars, fileVars>> /\ Kept

EmptyFile(s) ==
  /\ cmd[s].pc = "empty"
  /\ stateFile' = None
  /\ SetCmd(s, [cmd[s] EXCEPT !.pc = "fill"])
  /\ UNCHANGED <<vars, authors, refsVars, active>> /\ Kept

(* Two that emptied the file together write over each other: what is left  *)
(* is the second text, or that with the end of a longer first one.         *)
FillFile(s) ==
  LET c == cmd[s]
      text == [env |-> c.env, branch |-> c.line]
  IN  /\ c.pc = "fill"
      /\ stateFile' \in {text} \cup (IF c.late THEN {None} ELSE {})
      /\ active' = IF c.env = Env THEN c.line ELSE active
      /\ cmd' = [t \in Clients |->
                   IF t = s THEN Over(c, "switched")
                   ELSE [cmd[t] EXCEPT !.late = @ \/ cmd[t].pc = "fill"]]
      /\ UNCHANGED <<vars, authors, refsVars>> /\ Kept

-----------------------------------------------------------------------------
SetDotted(doc, f, v) == [doc EXCEPT !.body[f] = v]

(* set (build_commit_doc) and edit take the live document, whoever asks.   *)
Fetch(s) ==
  LET c == cmd[s]
      doc == live[c.rec]
  IN  /\ c.pc = "fetch"
      /\ SetCmd(s, CASE doc = None -> Over(c, "not_found")
                     [] doc # None /\ c.name = "set" ->
                          [c EXCEPT !.pc = "call", !.value = None,
                                    !.doc = SetDotted(doc, c.field, c.value)]
                     [] OTHER -> [c EXCEPT !.pc = "editor", !.doc = doc])
      /\ UNCHANGED <<vars, authors, refsVars, fileVars>> /\ Kept

(* The user saves any document, or leaves the editor with an error.        *)
Editor(s) ==
  /\ cmd[s].pc = "editor"
  /\ \/ \E b \in Bodies : SetCmd(s, [cmd[s] EXCEPT !.pc = "call", !.doc.body = b])
     \/ SetCmd(s, Over(cmd[s], "bad_argument"))
  /\ UNCHANGED <<vars, authors, refsVars, fileVars>> /\ Kept

-----------------------------------------------------------------------------
(* The engine is called: it authorizes first, then does its operation.     *)
OnDraft(c) == c.name = "commit" /\ c.line # Main

Authorizes(c) == c.pc \in {"call", "branch"} \/ (c.pc = "list" /\ c.name = "import")

Refused(s) ==
  /\ Authorizes(cmd[s])
  /\ ~MayRun(s)
  /\ SetCmd(s, Over(cmd[s], "forbidden"))
  /\ UNCHANGED <<vars, authors, refsVars, fileVars>> /\ Kept

(* --all: import is authorized, then lists the live records; adopt asks    *)
(* for the status of every record (as if all were read at once: Bulk reads *)
(* them one by one), of which it keeps those that changed.                 *)
ListAll(s) ==
  LET c == cmd[s]
      changed == {r \in Records : Exists(GetHead(r)) /\ ~Clean(r)}
      listed == {r \in Records : live[r] # None /\ (c.name = "adopt" => r \in changed)}
  IN  /\ c.pc = "list" /\ (c.name = "import" => MayRun(s))
      /\ SetCmd(s, [c EXCEPT !.pc = "next", !.todo = listed])
      /\ UNCHANGED <<vars, authors, refsVars, fileVars>> /\ Kept

NextRecord(s) ==
  LET c == cmd[s]
  IN  /\ c.pc = "next"
      /\ \/ c.todo = {} /\ SetCmd(s, Over(c, "all"))
         \/ \E r \in c.todo :
              SetCmd(s, [c EXCEPT !.pc = "call", !.rec = r, !.todo = @ \ {r}])
      /\ UNCHANGED <<vars, authors, refsVars, fileVars>> /\ Kept

CallEngine(s) ==
  LET c == cmd[s]
  IN  /\ c.pc = "call" /\ ~OnDraft(c) /\ MayRun(s)
      /\ CASE c.name = "import" -> StartImport(s, c.rec)
           [] c.name = "adopt" -> StartAdopt(s, c.rec)
           [] c.name = "restore" -> StartRestore(s, c.rec, c.ref)
           [] OTHER -> StartCommit(s, c.rec, c.doc)
      /\ SetCmd(s, [c EXCEPT !.pc = "engine", !.doc = None, !.ref = None])
      /\ UNCHANGED <<authors, refsVars, fileVars>> /\ Kept

(* _entry: the row carries the author of the engine that wrote it.         *)
AuthorsAfter(s) ==
  [r \in Records |->
     [i \in DOMAIN history'[r] |->
        IF i \in DOMAIN history[r] THEN authors[r][i] ELSE cmd[s].id.author]]

EngineWorks(s) ==
  /\ cmd[s].pc = "engine"
  /\ Work(s)
  /\ authors' = AuthorsAfter(s)
  /\ SetCmd(s, [cmd[s] EXCEPT !.wrote = @ \/ history' # history])
  /\ UNCHANGED <<refsVars, fileVars>> /\ Kept

(* What a call reports is the command's result, or one of those that       *)
(* --all collects; an error ends the command, with what it wrote written.  *)
Report(c, result) ==
  IF c.all /\ result \in Fine THEN [c EXCEPT !.pc = "next", !.rec = None]
  ELSE Over(c, result)

(* The engine returns; the connection may break just when the transaction  *)
(* is committed, and the driver raises.                                    *)
EngineReturns(s) ==
  LET c == cmd[s]
  IN  /\ c.pc = "engine" /\ req[s].pc = "done"
      /\ \/ SetCmd(s, Report(c, req[s].result))
         \/ req[s].result = "applied" /\ SetCmd(s, Over(c, "failed"))
      /\ req' = [req EXCEPT ![s] = Idle]
      /\ UNCHANGED <<storeVars, authors, refsVars, fileVars>> /\ Kept

-----------------------------------------------------------------------------
(* branch_commit: the branch must exist and the record be clean; what is   *)
(* new goes to the refs.  A missing record is reported, not an error.      *)
DraftVerdict(b, r, d) ==
  LET parent == IF drafts[b][r] # None THEN drafts[b][r].oid ELSE GetHead(r).oid
  IN  IF ~policy.branching THEN "bad_argument"
      ELSE IF b \notin branches THEN "not_found"
      ELSE IF live[r] = None THEN "missing"
      ELSE IF Exists(GetHead(r)) /\ ~Clean(r) THEN "changed_outside_cfgit"
      ELSE IF HashDoc(d) = parent THEN "noop" ELSE "ready"

PlanDraft(s) ==
  LET c == cmd[s]
      verdict == DraftVerdict(c.line, c.rec, c.doc)
  IN  /\ c.pc = "call" /\ OnDraft(c) /\ MayRun(s)
      /\ \/ verdict # "ready" /\ SetCmd(s, Over(c, verdict))
         \/ verdict = "ready" /\ SetCmd(s, Over(c, "secret_blocked"))
         \/ verdict = "ready" /\ SetCmd(s, [c EXCEPT !.pc = "put"])
      /\ UNCHANGED <<vars, authors, refsVars, fileVars>> /\ Kept

PutDraft(s) ==
  LET c == cmd[s]
  IN  /\ c.pc = "put"
      /\ branches' = branches \cup {c.line}
      /\ drafts' = [drafts EXCEPT ![c.line][c.rec] =
                      [oid |-> HashDoc(c.doc), author |-> c.id.author]]
      /\ SetCmd(s, Over([c EXCEPT !.wrote = TRUE], "applied"))
      /\ UNCHANGED <<vars, authors, fileVars>> /\ Kept

(* branch create and delete; drafts of a deleted branch stay.              *)
CreateBranch(s) ==
  LET c == cmd[s]
      new == policy.branching /\ c.line \notin branches
  IN  /\ c.pc = "branch" /\ c.name = "create" /\ MayRun(s)
      /\ branches' = IF new THEN branches \cup {c.line} ELSE branches
      /\ SetCmd(s, IF new THEN Over([c EXCEPT !.wrote = TRUE], "created")
                   ELSE Over(c, "bad_argument"))
      /\ UNCHANGED <<vars, authors, drafts, fileVars>> /\ Kept

DeleteBranch(s) ==
  LET c == cmd[s]
      there == policy.branching /\ c.line \in branches
  IN  /\ c.pc = "branch" /\ c.name = "delete" /\ MayRun(s)
      /\ branches' = IF there THEN branches \ {c.line} ELSE branches
      /\ SetCmd(s, IF there THEN Over([c EXCEPT !.wrote = TRUE], "deleted")
                   ELSE Over(c, IF policy.branching THEN "not_found" ELSE "bad_argument"))
      /\ UNCHANGED <<vars, authors, drafts, fileVars>> /\ Kept

(* The process dies: what it wrote stays, a file it emptied stays empty.   *)
Die(s) ==
  /\ Running(s)
  /\ SetCmd(s, NoCommand)
  /\ req' = [req EXCEPT ![s] = Idle]
  /\ UNCHANGED <<storeVars, authors, refsVars, fileVars>> /\ Kept

-----------------------------------------------------------------------------
(* Before anything is switched, or after a switch here, and perhaps one    *)
(* more in the other env.                                                  *)
CommandsInit ==
  /\ Init
  /\ policy \in {LoadEnv(t) : t \in Policies}
  /\ authors = [r \in Records |-> [i \in {} |-> None]]
  /\ branches = Drafts
  /\ drafts = [b \in Drafts |-> [r \in Records |-> None]]
  /\ \/ active = Main /\ stateFile = None
     \/ /\ active \in Drafts
        /\ stateFile \in {[env |-> Env, branch |-> active], [env |-> OtherEnv, branch |-> Main]}
  /\ cmd = [s \in Clients |-> NoCommand]
  /\ calls = 0

Typed(s) ==
  \E caller \in Callers :
    \/ \E r \in Records :
         \/ \E d \in Doc : \E flag \in Drafts \cup {Main, None} : \E cli \in BOOLEAN :
              StartCommitFrom(s, caller, r, d, flag, cli)
         \/ \E f \in Fields : \E v \in Values : StartSet(s, caller, r, f, v)
         \/ StartEdit(s, caller, r)
         \/ \E name \in {"import", "adopt"} : StartOnRecord(s, caller, name, r, None)
         \/ \E k \in RefKinds : StartOnRecord(s, caller, "restore", r, k)
    \/ \E name \in {"import", "adopt"} : StartOnAll(s, caller, name)
    \/ \E b \in Drafts :
         StartOnBranch(s, caller, "create", b, Env) \/ StartOnBranch(s, caller, "delete", b, Env)
    \/ \E b \in Drafts \cup {Main} : \E e \in {Env, OtherEnv} :
         StartOnBranch(s, caller, "switch", b, e)

ShellWorks(s) ==
  \/ ReadState(s) \/ Lookup(s) \/ EmptyFile(s) \/ FillFile(s) \/ Fetch(s)
  \/ Refused(s) \/ ListAll(s) \/ NextRecord(s)
  \/ CallEngine(s) \/ EngineWorks(s) \/ EngineReturns(s)
  \/ PlanDraft(s) \/ PutDraft(s) \/ CreateBranch(s) \/ DeleteBranch(s)

(* What the application does to a record that no command is about it may   *)
(* as well do when the next one has begun, before anything is read.        *)
About(r) == \E s \in Clients : Running(s) /\ (cmd[s].rec = r \/ cmd[s].all)

Application ==
  /\ \/ \E r \in Records : \E d \in Doc \cup {None} : About(r) /\ RawWrite(r, d)
     \/ Tick
  /\ UNCHANGED <<req, authors, refsVars, fileVars, cmd>> /\ Kept

CommandsNext ==
  (\E s \in Clients : Typed(s) \/ ShellWorks(s) \/ Editor(s) \/ Die(s)) \/ Application

CommandsSpec == CommandsInit /\ [][CommandsNext]_commandVars

-----------------------------------------------------------------------------
(* A command that exits with 4 (no permission) changed nothing; nor did    *)
(* one about a single record or branch that exits with 1, 2 or 5 (a bad    *)
(* argument, a change outside cfgit, nothing there).  `adopt --all` and    *)
(* `import --all` may have, before the record they stopped at.  One that   *)
(* reports that it wrote did; only of 3, a failure of the storage, nobody  *)
(* knows (main, envelope).                                                 *)
ExitTellsEffect ==
  \A s \in Clients : cmd[s].pc = "done" =>
    /\ cmd[s].code = 4 \/ (~cmd[s].all /\ cmd[s].code \in {1, 2, 5}) => ~cmd[s].wrote
    /\ cmd[s].state \in {"applied", "created", "deleted"} => cmd[s].wrote

(* Whoever a row or a draft names as its author may write, by the policy;  *)
(* and where identities are verified, some caller's credentials prove him: *)
(* "verified modes do not accept self-asserted author strings" (identity). *)
Provable(a) ==
  policy.identity # "open" =>
    \E c \in Callers : \E i \in DOMAIN policy.sources : Proves(policy, c, policy.sources[i]) = a

WritersMayWrite ==
  /\ \A r \in Records : \A i \in DOMAIN history[r] :
       history[r][i].op \in policy.adminActions => authors[r][i] \in policy.admins
  /\ \A a \in UNION ({{authors[r][i] : i \in DOMAIN authors[r]} : r \in Records}
                     \cup {{drafts[b][r].author : r \in {x \in Records : drafts[b][x] # None}}
                           : b \in Drafts}) :
       /\ Provable(a)
       /\ policy.permissions = "restricted" => PermissionRole(policy, a) \in {"admin", "writer"}

(* The command of s adds a version to a record in this step.               *)
Versions(s) == cmd'[s].wrote /\ ~cmd[s].wrote /\ history' # history

(* "Switching never mutates runtime" and drafts change only refs: a commit *)
(* without --branch reaches the runtime only if the last `switch` of this  *)
(* env was to the default branch, or when another one took the state file  *)
(* from under it.  That the branch was deleted meanwhile is no reason;     *)
(* that branches were disabled is.                                         *)
CommitStaysOnDraft ==
  [][\A s \in Clients :
       Versions(s) /\ cmd[s].told # Main /\ policy.branching
         => cmd[s].read = None \/ cmd[s].read.env = OtherEnv]_commandVars

(* "Two devs commit same config concurrently ... No lost update"           *)
(* (docs/SPEC.md): a set of a tracked record changes the field it names,   *)
(* and the rest is what it is when the set takes effect.                   *)
NoLostUpdate ==
  [][\A s \in Clients : \A r \in Records :
       Versions(s) /\ cmd[s].name = "set" /\ cmd[s].rec = r /\ Exists(GetHead(r))
         => \A f \in Fields \ {cmd[s].field} : live'[r].body[f] = live[r].body[f]]_commandVars
=============================================================================
