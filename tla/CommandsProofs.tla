---------------------------- MODULE CommandsProofs ----------------------------
(***************************************************************************)
(* Proofs about Commands, for any policies, callers, clients, records and  *)
(* bounds.                                                                 *)
(***************************************************************************)
EXTENDS Commands, EngineProofs, WellFoundedInduction

(***************************************************************************)
(* The types of what the invariant speaks of.                              *)
(***************************************************************************)
Lines == Drafts \cup {Main}

File == {None} \cup [env : {Env, OtherEnv}, branch : Lines]

Identities ==
  {NoIdentity} \cup UNION {{ResolveIdentity(LoadEnv(t), c) : c \in Callers} : t \in Policies}

Shells ==
  {"idle", "state", "list", "next", "call", "fetch", "editor", "engine", "put", "branch",
   "lookup", "empty", "fill", "done"}

OnRecord == {"commit", "set", "edit", "import", "adopt", "restore"}

ForAll == {"import", "adopt"}

OnBranch == {"create", "delete"}

Answers ==
  Results \cup {"all", "switched", "created", "deleted",
                 "identity_required", "forbidden", "bad_argument"}

Command ==
  [pc : Shells, name : OnRecord \cup OnBranch \cup {"switch", None}, id : Identities,
   line : Lines \cup {None}, all : BOOLEAN, todo : SUBSET Records,
   rec : Records \cup {None}, ref : RefKinds \cup {None},
   field : Fields \cup {None}, value : Values \cup {None}, doc : Doc \cup {None},
   env : {Env, OtherEnv}, late : BOOLEAN, told : Lines, read : File,
   wrote : BOOLEAN, state : Answers \cup {None}, code : 0 .. 5 \cup {None}]

(***************************************************************************)
(* The inductive invariant, under the policy p.  Who may write: the policy *)
(* lets him, and an identity it verified is one of a caller.               *)
(***************************************************************************)
ProvableBy(p, a) ==
  p.identity # "open" =>
    \E c \in Callers : \E i \in DOMAIN p.sources : Proves(p, c, p.sources[i]) = a

MayWrite(p, a) ==
  /\ ProvableBy(p, a)
  /\ p.permissions = "restricted" => PermissionRole(p, a) \in {"admin", "writer"}

(* What a command has said and found out, by what it does next.            *)
ArgumentsOK(c) ==
  /\ c.pc \in {"state", "call", "fetch", "editor", "engine", "put"} =>
       c.name \in OnRecord /\ c.rec \in Records
  /\ c.all /\ c.pc # "done" =>
       c.pc \in {"list", "next", "call", "engine"} /\ c.name \in ForAll /\ c.line = Main
  /\ c.pc \in {"list", "next"} => c.all
  /\ c.pc \in {"state", "put"} => c.name = "commit"
  /\ c.pc \in {"state", "editor", "put"} => c.doc \in Doc
  /\ c.pc = "call" =>
       /\ c.line \in Lines
       /\ c.name \in {"commit", "set", "edit"} => c.doc \in Doc
       /\ c.name = "restore" => c.ref \in RefKinds
  /\ c.pc = "fetch" =>
       /\ c.name \in {"set", "edit"} /\ c.line = Main
       /\ c.name = "set" => c.field \in Fields /\ c.value \in Values
  /\ c.pc = "editor" => c.name = "edit" /\ c.line = Main
  /\ c.pc = "branch" => c.name \in OnBranch /\ c.line \in Drafts
  /\ c.pc = "put" => c.line \in Drafts
  /\ c.pc \in {"lookup", "empty", "fill"} => c.line \in Lines

(* The line of a commit is the one it read, and a commit that called the   *)
(* engine for the main line was not told of a draft.                       *)
LineOK(p, c) ==
  /\ c.told # Main =>
       /\ c.name = "commit"
       /\ p.branching /\ c.read # None /\ c.read.env = Env => c.line = c.told
  /\ c.pc = "engine" /\ c.name = "commit" => c.line = Main

(* Nothing was written before the engine was called or the draft put (for  *)
(* the first record, of --all), and both are done only by who was          *)
(* authorized.                                                             *)
EffectOK(p, c) ==
  /\ c.pc \notin {"idle", "done"} => (c.id.verified => ProvableBy(p, c.id.author))
  /\ c.pc \in {"engine", "put"} \/ (c.pc \notin {"idle", "done"} /\ c.wrote) =>
       AuthorizeMutation(p, c.id, ActionOf(c.name))
  /\ c.pc \notin {"idle", "done", "engine"} /\ ~c.all => ~c.wrote
  /\ c.pc = "done" =>
       /\ c.code = 4 \/ (~c.all /\ c.code \in {1, 2, 5}) => ~c.wrote
       /\ c.state \in {"applied", "created", "deleted"} => c.wrote

(* The engine does what was authorized, and its result says what it did.   *)
EngineOK(c, q) ==
  c.pc = "engine" =>
    /\ q.pc \notin {"idle", "done"} => q.op = ActionOf(c.name) /\ (c.wrote => c.all)
    /\ q.pc = "done" =>
         /\ q.result \in Results /\ (q.result = "applied" => c.wrote)
         /\ c.wrote => c.all \/ q.result = "applied"

CommandOK(p, c, q) ==
  c \in Command /\ ArgumentsOK(c) /\ LineOK(p, c) /\ EffectOK(p, c) /\ EngineOK(c, q)

(* The commands, the state file, and who wrote the rows and the drafts.    *)
CommandsOK ==
  /\ policy \in {LoadEnv(t) : t \in Policies}
  /\ DOMAIN cmd = Clients
  /\ \A s \in Clients : CommandOK(policy, cmd[s], req[s])
  /\ \A s \in Clients : req[s].pc = "idle" => req[s] = Idle

FileOK ==
  /\ stateFile \in File /\ active \in Lines
  /\ stateFile # None /\ stateFile.env = Env => active = stateFile.branch

RowsOK ==
  /\ DOMAIN authors = Records
  /\ \A r \in Records :
       /\ DOMAIN authors[r] = DOMAIN history[r]
       /\ \A i \in DOMAIN history[r] :
            /\ MayWrite(policy, authors[r][i])
            /\ history[r][i].op \in policy.adminActions => authors[r][i] \in policy.admins

DraftsOK ==
  /\ DOMAIN drafts = Drafts
  /\ \A b \in Drafts :
       /\ DOMAIN drafts[b] = Records
       /\ \A r \in Records : drafts[b][r] # None => MayWrite(policy, drafts[b][r].author)

CommandsInv == IInv /\ CommandsOK /\ FileOK /\ RowsOK /\ DraftsOK

-----------------------------------------------------------------------------
(***************************************************************************)
(* Who a caller is, and what he may do.                                    *)
(***************************************************************************)

(* A set of numbers has a smallest one.                                    *)
LEMMA SmallestNumber ==
  ASSUME NEW S, S \subseteq Nat, S # {}
  PROVE  \E i \in S : \A k \in S : i <= k
<1>1. PICK i \in S : \A k \in S : ~ (<<k, i>> \in OpToRel(<, Nat))
  BY NatLessThanWellFounded, WFMin
<1>2. \A k \in S : ~ (k < i)
  BY <1>1 DEF OpToRel
<1>. QED
  BY <1>2

(* The sources of an env that is loaded are numbered.                      *)
LEMMA SourcesAreNumbered ==
  ASSUME NEW t \in Policies, NEW p, p = LoadEnv(t)
  PROVE  DOMAIN p.sources \subseteq Nat
<1>1. {"identity", "sources", "permissions"} \subseteq DOMAIN t
  BY PoliciesAssumption
<1>2. p.sources = IF t.sources = None THEN <<"db_principal", "token">> ELSE t.sources
  BY <1>1 DEF LoadEnv, LoadPermissions, LoadIdentity
<1>3. CASE t.sources = None
  BY <1>2, <1>3
<1>4. CASE t.sources # None
  BY <1>2, <1>4, PoliciesAssumption
<1>. QED
  BY <1>3, <1>4

(* An identity that is resolved names who a source proves, if it says that *)
(* it is verified.                                                         *)
LEMMA ResolvedIsProven ==
  ASSUME NEW p, DOMAIN p.sources \subseteq Nat, NEW c \in Callers,
         NEW id, id = ResolveIdentity(p, c), id.verified
  PROVE  ProvableBy(p, id.author)
<1>. SUFFICES ASSUME p.identity # "open"
              PROVE  \E x \in Callers : \E i \in DOMAIN p.sources :
                        Proves(p, x, p.sources[i]) = id.author
  BY DEF ProvableBy
<1>. DEFINE S == Proving(p, c)
            first == CHOOSE i \in S : \A k \in S : i <= k
<1>1. S # {} /\ id.author = ProvenAuthor(p, c)
  BY DEF ResolveIdentity, NoIdentity
<1>2. S \subseteq Nat
  BY DEF Proving
<1>3. \E i \in S : \A k \in S : i <= k
  <2>. HIDE DEF S
  <2>. QED
    BY <1>1, <1>2, SmallestNumber
<1>4. first \in S
  <2>. HIDE DEF S
  <2>. QED
    BY <1>3
<1>5. id.author = Proves(p, c, p.sources[first])
  BY <1>1 DEF ProvenAuthor
<1>. QED
  BY <1>4, <1>5 DEF Proving

(* Whoever is authorized may write, and is an admin if the action asks for *)
(* one.                                                                    *)
LEMMA AuthorizedMayWrite ==
  ASSUME NEW p, NEW id, NEW action, AuthorizeMutation(p, id, action),
         id.verified => ProvableBy(p, id.author)
  PROVE  MayWrite(p, id.author) /\ (action \in p.adminActions => id.author \in p.admins)
<1>1. ProvableBy(p, id.author)
  BY DEF AuthorizeMutation, ProvableBy
<1>. QED
  BY <1>1 DEF AuthorizeMutation, MayWrite, PermissionRole

(* The policies that are loaded, and who is resolved under them.           *)
LEMMA ResolvedIdentity ==
  ASSUME CommandsOK, NEW caller \in Callers, NEW id, id = ResolveIdentity(policy, caller)
  PROVE  id \in Identities /\ (id.verified => ProvableBy(policy, id.author))
<1>1. PICK t \in Policies : policy = LoadEnv(t)
  BY DEF CommandsOK
<1>2. DOMAIN policy.sources \subseteq Nat
  BY <1>1, SourcesAreNumbered
<1>3. id.verified => ProvableBy(policy, id.author)
  BY <1>2, ResolvedIsProven
<1>4. id \in Identities
  BY <1>1 DEF Identities
<1>. QED
  BY <1>3, <1>4

-----------------------------------------------------------------------------
(***************************************************************************)
(* Commands call the engine, and do nothing else to the store.             *)
(***************************************************************************)

(* The fields a command has.                                               *)
LEMMA CommandFields ==
  ASSUME CommandsInv, NEW s \in Clients
  PROVE  /\ cmd[s] \in Command /\ ArgumentsOK(cmd[s]) /\ LineOK(policy, cmd[s])
         /\ EffectOK(policy, cmd[s]) /\ EngineOK(cmd[s], req[s])
BY DEF CommandsInv, CommandsOK, CommandOK

(* What a shell begins with: nothing read, nothing written.                *)
Fresh(c) ==
  /\ c \in Command /\ ArgumentsOK(c)
  /\ c.pc \in {"state", "list", "call", "fetch", "branch", "lookup"}
  /\ c.told = Main /\ ~c.wrote

(* A shell that does nothing.                                              *)
LEMMA NoCommandIsCommand == NoCommand \in Command
<1>1. NoIdentity \in Identities /\ None \in File
  BY DEF Identities, File
<1>. QED
  BY <1>1 DEF NoCommand, Command, Shells, Lines

(* Whatever is typed begins a command.                                     *)
LEMMA TypedBegins ==
  ASSUME NEW s \in Clients, Typed(s)
  PROVE  \E caller \in Callers : \E c : Begin(s, caller, c) /\ Fresh(c)
<1>1. PICK caller \in Callers :
        \/ \E r \in Records :
             \/ \E d \in Doc : \E flag \in Drafts \cup {Main, None} : \E cli \in BOOLEAN :
                  StartCommitFrom(s, caller, r, d, flag, cli)
             \/ \E f \in Fields : \E v \in Values : StartSet(s, caller, r, f, v)
             \/ StartEdit(s, caller, r)
             \/ \E name \in {"import", "adopt"} : StartOnRecord(s, caller, name, r, None)
             \/ \E k \in RefKinds : StartOnRecord(s, caller, "restore", r, k)
        \/ \E name \in {"import", "adopt"} : StartOnAll(s, caller, name)
        \/ \E b \in Drafts :
             \/ StartOnBranch(s, caller, "create", b, Env)
             \/ StartOnBranch(s, caller, "delete", b, Env)
        \/ \E b \in Drafts \cup {Main} : \E e \in {Env, OtherEnv} :
             StartOnBranch(s, caller, "switch", b, e)
  BY DEF Typed
<1>2. NoCommand \in Command
  BY NoCommandIsCommand
<1>3. ASSUME NEW c, Begin(s, caller, c), Fresh(c)
      PROVE  \E x : Begin(s, caller, x) /\ Fresh(x)
  BY <1>3
<1>4. ASSUME NEW r \in Records, NEW d \in Doc, NEW flag \in Drafts \cup {Main, None},
             NEW cli \in BOOLEAN, StartCommitFrom(s, caller, r, d, flag, cli)
      PROVE  \E c : Begin(s, caller, c) /\ Fresh(c)
  <2>. DEFINE line == IF flag = None THEN Main ELSE flag
              pc == IF cli /\ flag = None THEN "state" ELSE "call"
              c == [NoCommand EXCEPT !.name = "commit", !.rec = r, !.doc = d,
                                     !.line = line, !.pc = pc]
  <2>1. line \in Lines /\ pc \in {"state", "call"}
    BY DEF Lines
  <2>2. Begin(s, caller, c)
    BY <1>4 DEF StartCommitFrom
  <2>. HIDE DEF line, pc
  <2>3. Fresh(c)
    BY ZenonT(30), <1>2, <2>1 DEF Fresh, ArgumentsOK, NoCommand, Command, Shells, OnRecord
  <2>. QED
    BY <2>2, <2>3
<1>5. ASSUME NEW r \in Records, NEW f \in Fields, NEW v \in Values,
             StartSet(s, caller, r, f, v)
      PROVE  \E c : Begin(s, caller, c) /\ Fresh(c)
  <2>. DEFINE c == [NoCommand EXCEPT !.name = "set", !.pc = "fetch", !.rec = r,
                                     !.field = f, !.value = v, !.line = Main]
  <2>1. Begin(s, caller, c)
    BY <1>5 DEF StartSet
  <2>2. Fresh(c)
    BY ZenonT(30), <1>2 DEF Fresh, ArgumentsOK, NoCommand, Command, Shells, OnRecord, Lines
  <2>. QED
    BY <2>1, <2>2
<1>6. ASSUME NEW r \in Records, StartEdit(s, caller, r)
      PROVE  \E c : Begin(s, caller, c) /\ Fresh(c)
  <2>. DEFINE c == [NoCommand EXCEPT !.name = "edit", !.pc = "fetch", !.rec = r, !.line = Main]
  <2>1. Begin(s, caller, c)
    BY <1>6 DEF StartEdit
  <2>2. Fresh(c)
    BY ZenonT(30), <1>2 DEF Fresh, ArgumentsOK, NoCommand, Command, Shells, OnRecord, Lines
  <2>. QED
    BY <2>1, <2>2
<1>7. ASSUME NEW r \in Records, NEW name \in {"import", "adopt", "restore"},
             NEW k \in RefKinds \cup {None}, name = "restore" => k \in RefKinds,
             StartOnRecord(s, caller, name, r, k)
      PROVE  \E c : Begin(s, caller, c) /\ Fresh(c)
  <2>. DEFINE c == [NoCommand EXCEPT !.name = name, !.pc = "call", !.rec = r,
                                     !.ref = k, !.line = Main]
  <2>1. Begin(s, caller, c)
    BY <1>7 DEF StartOnRecord
  <2>2. Fresh(c)
    BY ZenonT(30), <1>2, <1>7 DEF Fresh, ArgumentsOK, NoCommand, Command, Shells, OnRecord, Lines
  <2>. QED
    BY <2>1, <2>2
<1>8. ASSUME NEW name \in {"create", "delete", "switch"}, NEW b \in Lines,
             name # "switch" => b \in Drafts, NEW e \in {Env, OtherEnv},
             StartOnBranch(s, caller, name, b, e)
      PROVE  \E c : Begin(s, caller, c) /\ Fresh(c)
  <2>. DEFINE pc == IF name = "switch" THEN "lookup" ELSE "branch"
              c == [NoCommand EXCEPT !.name = name, !.line = b, !.env = e, !.pc = pc]
  <2>1. pc \in {"lookup", "branch"} /\ (pc = "branch" => name # "switch")
    OBVIOUS
  <2>2. Begin(s, caller, c)
    BY <1>8 DEF StartOnBranch
  <2>. HIDE DEF pc
  <2>3. c \in Command
    BY ZenonT(30), <1>2, <1>8, <2>1 DEF Command, Shells, OnBranch, NoCommand
  <2>4. /\ c.pc = pc /\ c.name = name /\ c.line = b /\ c.told = Main
        /\ ~c.wrote /\ ~c.all
    BY DEF NoCommand
  <2>. HIDE DEF c
  <2>5. Fresh(c)
    BY <1>8, <2>1, <2>3, <2>4 DEF Fresh, ArgumentsOK, OnBranch
  <2>. QED
    BY <2>2, <2>5
<1>9. ASSUME NEW name \in ForAll, StartOnAll(s, caller, name)
      PROVE  \E c : Begin(s, caller, c) /\ Fresh(c)
  <2>. DEFINE c == [NoCommand EXCEPT !.name = name, !.all = TRUE, !.pc = "list", !.line = Main]
  <2>1. Begin(s, caller, c)
    BY <1>9 DEF StartOnAll
  <2>2. c \in Command
    BY ZenonT(30), <1>2 DEF NoCommand, Command, Shells, OnRecord, Lines, ForAll
  <2>3. c.pc = "list" /\ c.name = name /\ c.line = Main /\ c.told = Main /\ ~c.wrote /\ c.all
    BY DEF NoCommand
  <2>. HIDE DEF c
  <2>4. Fresh(c)
    BY <2>2, <2>3 DEF Fresh, ArgumentsOK
  <2>. QED
    BY <2>1, <2>4
<1>. QED
  BY <1>1, <1>4, <1>5, <1>6, <1>7, <1>8, <1>9 DEF Lines, ForAll

(* A step of a command is a step of the engine, or none.                   *)
LEMMA StepIsEngine ==
  ASSUME CommandsInv, [CommandsNext]_commandVars
  PROVE  [Next]_vars
<1>1. CASE UNCHANGED commandVars
  BY <1>1 DEF commandVars
<1>2. ASSUME NEW s \in Clients, CallEngine(s) PROVE Next
  <2>1. cmd[s].pc = "call" /\ ArgumentsOK(cmd[s])
    BY <1>2, CommandFields DEF CallEngine
  <2>2. CASE cmd[s].name = "adopt"
    <3>1. StartAdopt(s, cmd[s].rec) /\ cmd[s].rec \in Records
      BY <1>2, <2>1, <2>2 DEF CallEngine, ArgumentsOK
    <3>. QED
      BY <3>1 DEF Next, ClientStep, Call
  <2>3. CASE cmd[s].name = "restore"
    <3>1. StartRestore(s, cmd[s].rec, cmd[s].ref) /\ cmd[s].rec \in Records
          /\ cmd[s].ref \in RefKinds
      BY <1>2, <2>1, <2>3 DEF CallEngine, ArgumentsOK
    <3>. QED
      BY <3>1 DEF Next, ClientStep, Call
  <2>5. CASE cmd[s].name = "import"
    <3>1. StartImport(s, cmd[s].rec) /\ cmd[s].rec \in Records
      BY <1>2, <2>1, <2>5 DEF CallEngine, ArgumentsOK
    <3>. QED
      BY <3>1 DEF Next, ClientStep, Call
  <2>4. CASE cmd[s].name \notin {"import", "adopt", "restore"}
    <3>1. StartCommit(s, cmd[s].rec, cmd[s].doc) /\ cmd[s].rec \in Records
          /\ cmd[s].doc \in Doc
      BY <1>2, <2>1, <2>4 DEF CallEngine, ArgumentsOK, OnRecord
    <3>. QED
      BY <3>1 DEF Next, ClientStep, Call
  <2>. QED
    BY <2>2, <2>3, <2>4, <2>5
<1>3. ASSUME NEW s \in Clients, EngineWorks(s) PROVE Next
  BY <1>3 DEF EngineWorks, Next, ClientStep
<1>4. ASSUME NEW s \in Clients, EngineReturns(s) PROVE Next
  <2>1. Crash(s)
    BY <1>4 DEF EngineReturns, Crash
  <2>. QED
    BY <2>1 DEF Next, ClientStep
<1>5. ASSUME NEW s \in Clients, Die(s) PROVE [Next]_vars
  <2>1. CASE req[s].pc # "idle"
    <3>1. Crash(s)
      BY <1>5, <2>1 DEF Die, Crash
    <3>. QED
      BY <3>1 DEF Next, ClientStep
  <2>2. CASE req[s].pc = "idle"
    <3>1. req[s] = Idle
      BY <2>2 DEF CommandsInv, CommandsOK
    <3>. QED
      BY <1>5, <3>1 DEF Die, vars, storeVars, CommandsInv, IInv, TypeOK
  <2>. QED
    BY <2>1, <2>2
<1>6. ASSUME NEW s \in Clients, Typed(s) \/ Editor(s) PROVE UNCHANGED vars
  BY <1>6, TypedBegins DEF Editor, Begin
<1>7. ASSUME NEW s \in Clients, ShellWorks(s) PROVE [Next]_vars
  BY <1>2, <1>3, <1>4, <1>7 DEF ShellWorks, ReadState, Lookup, EmptyFile, FillFile, Fetch,
       Refused, ListAll, NextRecord, PlanDraft, PutDraft, CreateBranch, DeleteBranch
<1>8. ASSUME Application PROVE Next
  BY <1>8 DEF Application, Environment, Next
<1>. QED
  BY <1>1, <1>5, <1>6, <1>7, <1>8 DEF CommandsNext

-----------------------------------------------------------------------------
(***************************************************************************)
(* One step of one command.                                                *)
(***************************************************************************)

(* A state that says of a command what it did.                             *)
Tells(state, c) ==
  /\ c.wrote \in BOOLEAN /\ c.all \in BOOLEAN /\ state \in Answers
  /\ state \in {"applied", "created", "deleted"} => c.wrote
  /\ state \in {"forbidden", "identity_required"} => ~c.wrote
  /\ state \notin {"applied", "created", "deleted", "failed", "all"} => c.all \/ ~c.wrote

(* A command that is over has told what it did.                            *)
LEMMA OverIsOK ==
  ASSUME NEW p, NEW q, NEW c, NEW state, Tells(state, c)
  PROVE  CommandOK(p, Over(c, state), q)
<1>. DEFINE code == ExitCode(state)
            over == Over(c, state)
<1>1. /\ code \in 0 .. 5
      /\ code \in {1, 2, 5} => state \notin {"applied", "created", "deleted", "failed", "all"}
      /\ code = 4 => state \in {"forbidden", "identity_required"}
  BY DEF ExitCode, Answers, Results, Tells, Fine
<1>2. over = [NoCommand EXCEPT !.pc = "done", !.all = c.all, !.wrote = c.wrote,
                               !.state = state, !.code = code]
  BY DEF Over
<1>3. state \in Answers /\ c.wrote \in BOOLEAN /\ c.all \in BOOLEAN
  BY DEF Tells
<1>. HIDE DEF code, over
<1>4. over \in Command
  BY ZenonT(30), <1>1, <1>2, <1>3, NoCommandIsCommand DEF Command, Shells
<1>5. /\ over.pc = "done" /\ over.wrote = c.wrote /\ over.state = state /\ over.code = code
      /\ over.told = Main /\ over.all = c.all
  BY <1>2 DEF NoCommand
<1>. QED
  BY <1>1, <1>4, <1>5
     DEF over, CommandOK, ArgumentsOK, LineOK, EffectOK, EngineOK, Tells

(* The command of s is c from now on, and only its request may change.     *)
LEMMA CommandStep ==
  ASSUME CommandsInv, NEW s \in Clients, NEW c, SetCmd(s, c), UNCHANGED policy,
         CommandOK(policy, c, req'[s]), req'[s].pc = "idle" => req'[s] = Idle,
         \A t \in Clients \ {s} : req'[t] = req[t]
  PROVE  CommandsOK'
<1>1. DOMAIN cmd' = Clients /\ cmd'[s] = c /\ \A t \in Clients \ {s} : cmd'[t] = cmd[t]
  BY DEF SetCmd, CommandsInv, CommandsOK
<1>2. ASSUME NEW t \in Clients
      PROVE  CommandOK(policy', cmd'[t], req'[t]) /\ (req'[t].pc = "idle" => req'[t] = Idle)
  <2>1. CASE t = s
    BY <1>1, <2>1
  <2>2. CASE t # s
    BY <1>1, <2>2 DEF CommandsInv, CommandsOK
  <2>. QED
    BY <2>1, <2>2
<1>. QED
  BY <1>1, <1>2 DEF CommandsInv, CommandsOK

(* What the rows, the drafts and the file are checked for stays as it is   *)
(* when they do.                                                           *)
LEMMA RowsStay ==
  ASSUME RowsOK, UNCHANGED <<history, authors, policy>>
  PROVE  RowsOK'
BY DEF RowsOK

(* A step that leaves the drafts and the policy alone keeps the drafts     *)
(* right.                                                                  *)
LEMMA DraftsStay ==
  ASSUME DraftsOK, UNCHANGED <<drafts, policy>>
  PROVE  DraftsOK'
BY DEF DraftsOK

(* One that leaves the project file alone keeps the file right.            *)
LEMMA FileStays ==
  ASSUME FileOK, UNCHANGED fileVars
  PROVE  FileOK'
BY DEF FileOK, fileVars

(* A step of a command that leaves the store and the engine alone.         *)
LEMMA QuietStep ==
  ASSUME CommandsInv, NEW s \in Clients, NEW c, SetCmd(s, c), CommandOK(policy, c, req[s]),
         UNCHANGED <<vars, authors, policy>>
  PROVE  IInv' /\ CommandsOK' /\ RowsOK'
<1>1. UNCHANGED req /\ UNCHANGED history
  BY DEF vars
<1>2. CommandsOK'
  BY <1>1, CommandStep DEF CommandsInv, CommandsOK
<1>3. RowsOK'
  BY <1>1, RowsStay DEF CommandsInv
<1>4. IInv'
  BY NextIInv DEF CommandsInv
<1>. QED
  BY <1>2, <1>3, <1>4

(* ... and the refs and the state file.                                    *)
LEMMA StillStep ==
  ASSUME CommandsInv, NEW s \in Clients, NEW c, SetCmd(s, c), CommandOK(policy, c, req[s]),
         UNCHANGED <<vars, authors, refsVars, fileVars, policy>>
  PROVE  CommandsInv'
<1>1. IInv' /\ CommandsOK' /\ RowsOK'
  BY QuietStep
<1>2. FileOK' /\ DraftsOK'
  BY FileStays, DraftsStay DEF CommandsInv, refsVars
<1>. QED
  BY <1>1, <1>2 DEF CommandsInv

(* A shell begins: the caller is identified or the command is over.        *)
LEMMA TypedStep ==
  ASSUME CommandsInv, NEW s \in Clients, Typed(s)
  PROVE  CommandsInv'
<1>1. PICK caller, c : caller \in Callers /\ Begin(s, caller, c) /\ Fresh(c)
  BY TypedBegins
<1>. DEFINE id == ResolveIdentity(policy, caller)
            k == [c EXCEPT !.id = id]
<1>2. id \in Identities /\ (id.verified => ProvableBy(policy, id.author))
  BY <1>1, ResolvedIdentity DEF CommandsInv
<1>3. UNCHANGED <<vars, authors, refsVars, fileVars, policy>>
  BY <1>1 DEF Begin
<1>4. CASE id = NoIdentity
  <2>1. SetCmd(s, Over(c, "identity_required"))
    BY <1>1, <1>4 DEF Begin
  <2>2. c.wrote \in BOOLEAN /\ ~c.wrote /\ c.all \in BOOLEAN
    BY <1>1 DEF Fresh, Command
  <2>3. CommandOK(policy, Over(c, "identity_required"), req[s])
    BY <2>2, OverIsOK DEF Tells, Answers
  <2>. QED
    BY <1>3, <2>1, <2>3, StillStep
<1>5. CASE id # NoIdentity
  <2>1. SetCmd(s, k)
    BY <1>1, <1>5 DEF Begin
  <2>. HIDE DEF id
  <2>2. k \in Command
    BY <1>1, <1>2 DEF Fresh, Command
  <2>3. /\ k.id = id /\ k.pc = c.pc /\ k.name = c.name /\ k.line = c.line /\ k.rec = c.rec
        /\ k.ref = c.ref /\ k.field = c.field /\ k.value = c.value /\ k.doc = c.doc
        /\ k.told = c.told /\ k.wrote = c.wrote /\ k.all = c.all
    BY <1>1 DEF Fresh, Command
  <2>. HIDE DEF k
  <2>4. ArgumentsOK(k)
    BY <1>1, <2>3 DEF Fresh, ArgumentsOK
  <2>5. LineOK(policy, k) /\ EffectOK(policy, k) /\ EngineOK(k, req[s])
    BY <1>1, <1>2, <2>3 DEF Fresh, LineOK, EffectOK, EngineOK
  <2>. QED
    BY <1>3, <2>1, <2>2, <2>4, <2>5, StillStep DEF CommandOK
<1>. QED
  BY <1>4, <1>5

(* The file says which line the last switch of this env was to, unless it  *)
(* cannot be read or is about the other env.                               *)
LEMMA ReadStateStep ==
  ASSUME CommandsInv, NEW s \in Clients, ReadState(s)
  PROVE  CommandsInv'
<1>. DEFINE c == cmd[s]
            line == ActiveBranch(stateFile)
            k == [c EXCEPT !.pc = "call", !.line = line, !.told = active, !.read = stateFile]
<1>1. /\ c \in Command /\ ArgumentsOK(c) /\ LineOK(policy, c) /\ EffectOK(policy, c)
      /\ EngineOK(c, req[s]) /\ c.pc = "state"
  BY CommandFields DEF ReadState
<1>2. UNCHANGED <<vars, authors, refsVars, fileVars, policy>> /\ SetCmd(s, k)
  BY DEF ReadState, Kept
<1>3. /\ stateFile \in File /\ active \in Lines
      /\ policy.branching /\ stateFile # None /\ stateFile.env = Env => line = active
      /\ line \in Lines
  BY DEF CommandsInv, FileOK, ActiveBranch, File, Lines
<1>. HIDE DEF line, c
<1>4. k \in Command
  BY ZenonT(30), <1>1, <1>3 DEF Command, Shells
<1>5. /\ k.id = c.id /\ k.pc = "call" /\ k.name = c.name /\ k.line = line /\ k.rec = c.rec
      /\ k.doc = c.doc /\ k.told = active /\ k.read = stateFile /\ k.wrote = c.wrote /\ k.all = c.all
  BY <1>1 DEF Command
<1>. HIDE DEF k
<1>6. ArgumentsOK(k) /\ EngineOK(k, req[s])
  BY <1>1, <1>3, <1>5 DEF ArgumentsOK, EngineOK
<1>7. LineOK(policy, k)
  BY <1>1, <1>3, <1>5 DEF ArgumentsOK, LineOK
<1>8. EffectOK(policy, k)
  BY <1>1, <1>5 DEF EffectOK
<1>. QED
  BY <1>2, <1>4, <1>6, <1>7, <1>8, StillStep DEF CommandOK

(* A command that is refused, or that finds nothing to do, is over.        *)
LEMMA RefusedStep ==
  ASSUME CommandsInv, NEW s \in Clients, cmd[s].pc \notin {"idle", "done", "engine"},
         NEW state \in Answers \ {"applied", "created", "deleted", "identity_required"},
         state = "forbidden" => ~cmd[s].wrote,
         SetCmd(s, Over(cmd[s], state)),
         UNCHANGED <<vars, authors, refsVars, fileVars, policy>>
  PROVE  CommandsInv'
<1>1. cmd[s].wrote \in BOOLEAN /\ cmd[s].all \in BOOLEAN /\ (cmd[s].all \/ ~cmd[s].wrote)
  BY CommandFields DEF EffectOK, Command
<1>2. CommandOK(policy, Over(cmd[s], state), req[s])
  BY <1>1, OverIsOK DEF Tells
<1>. QED
  BY <1>2, StillStep

(* The branch of a switch is there or not.                                 *)
LEMMA LookupStep ==
  ASSUME CommandsInv, NEW s \in Clients, Lookup(s)
  PROVE  CommandsInv'
<1>. DEFINE c == cmd[s]
            k == [c EXCEPT !.pc = "empty"]
<1>1. /\ c \in Command /\ ArgumentsOK(c) /\ LineOK(policy, c) /\ EffectOK(policy, c)
      /\ EngineOK(c, req[s]) /\ c.pc = "lookup"
  BY CommandFields DEF Lookup
<1>2. UNCHANGED <<vars, authors, refsVars, fileVars, policy>>
  BY DEF Lookup, Kept
<1>3. CASE SetCmd(s, Over(c, "not_found")) \/ SetCmd(s, Over(c, "bad_argument"))
  BY <1>1, <1>2, <1>3, RefusedStep DEF Answers, Results
<1>4. CASE SetCmd(s, k)
  <2>. HIDE DEF c
  <2>1. k \in Command
    BY <1>1 DEF Command, Shells
  <2>2. /\ k.id = c.id /\ k.pc = "empty" /\ k.name = c.name /\ k.line = c.line
        /\ k.told = c.told /\ k.read = c.read /\ k.wrote = c.wrote /\ k.all = c.all
    BY <1>1 DEF Command
  <2>. HIDE DEF k
  <2>3. ArgumentsOK(k) /\ LineOK(policy, k) /\ EffectOK(policy, k) /\ EngineOK(k, req[s])
    BY <1>1, <2>2 DEF ArgumentsOK, LineOK, EffectOK, EngineOK
  <2>. QED
    BY <1>2, <1>4, <2>1, <2>3, StillStep DEF CommandOK, c
<1>. QED
  BY <1>3, <1>4 DEF Lookup

(* The file is emptied: it says nothing any more.                          *)
LEMMA EmptyFileStep ==
  ASSUME CommandsInv, NEW s \in Clients, EmptyFile(s)
  PROVE  CommandsInv'
<1>. DEFINE c == cmd[s]
            k == [c EXCEPT !.pc = "fill"]
<1>1. /\ c \in Command /\ ArgumentsOK(c) /\ LineOK(policy, c) /\ EffectOK(policy, c)
      /\ EngineOK(c, req[s]) /\ c.pc = "empty"
  BY CommandFields DEF EmptyFile
<1>2. /\ UNCHANGED <<vars, authors, refsVars, active, policy>> /\ SetCmd(s, k)
      /\ stateFile' = None
  BY DEF EmptyFile, Kept
<1>. HIDE DEF c
<1>3. k \in Command
  BY <1>1 DEF Command, Shells
<1>4. /\ k.id = c.id /\ k.pc = "fill" /\ k.name = c.name /\ k.line = c.line
      /\ k.told = c.told /\ k.read = c.read /\ k.wrote = c.wrote /\ k.all = c.all
  BY <1>1 DEF Command
<1>. HIDE DEF k
<1>5. CommandOK(policy, k, req[s])
  BY <1>1, <1>3, <1>4 DEF CommandOK, ArgumentsOK, LineOK, EffectOK, EngineOK
<1>6. IInv' /\ CommandsOK' /\ RowsOK'
  BY <1>2, <1>5, QuietStep
<1>7. FileOK' /\ DraftsOK'
  BY <1>2, DraftsStay DEF CommandsInv, FileOK, File, refsVars
<1>. QED
  BY <1>6, <1>7 DEF CommandsInv

(* It does not matter to a command that the file was written to.           *)
LEMMA LateIsOK ==
  ASSUME NEW p, NEW q, NEW c, CommandOK(p, c, q), NEW b \in BOOLEAN
  PROVE  CommandOK(p, [c EXCEPT !.late = b], q)
<1>. DEFINE k == [c EXCEPT !.late = b]
<1>1. c \in Command
  BY DEF CommandOK
<1>2. k \in Command
  BY <1>1 DEF Command
<1>3. /\ k.id = c.id /\ k.pc = c.pc /\ k.name = c.name /\ k.line = c.line /\ k.rec = c.rec
      /\ k.ref = c.ref /\ k.field = c.field /\ k.value = c.value /\ k.doc = c.doc
      /\ k.told = c.told /\ k.read = c.read /\ k.wrote = c.wrote /\ k.all = c.all
      /\ k.state = c.state /\ k.code = c.code
  BY <1>1 DEF Command
<1>. HIDE DEF k
<1>. QED
  BY <1>2, <1>3 DEF k, CommandOK, ArgumentsOK, LineOK, EffectOK, EngineOK

(* The file is filled, with the text of this switch or with a torn one.    *)
LEMMA FillFileStep ==
  ASSUME CommandsInv, NEW s \in Clients, FillFile(s)
  PROVE  CommandsInv'
<1>. DEFINE c == cmd[s]
            text == [env |-> c.env, branch |-> c.line]
<1>1. /\ c \in Command /\ ArgumentsOK(c) /\ EffectOK(policy, c) /\ c.pc = "fill"
      /\ c.env \in {Env, OtherEnv} /\ c.line \in Lines /\ c.wrote \in BOOLEAN /\ ~c.wrote
      /\ c.all \in BOOLEAN
  BY CommandFields DEF FillFile, Command, ArgumentsOK, EffectOK
<1>2. /\ UNCHANGED <<vars, authors, refsVars, policy>>
      /\ stateFile' \in {text, None}
      /\ active' = IF c.env = Env THEN c.line ELSE active
      /\ DOMAIN cmd' = Clients /\ cmd'[s] = Over(c, "switched")
      /\ \A t \in Clients \ {s} :
           cmd'[t] = [cmd[t] EXCEPT !.late = cmd[t].late \/ cmd[t].pc = "fill"]
  BY DEF FillFile, Kept
<1>3. UNCHANGED req /\ UNCHANGED history
  BY <1>2 DEF vars
<1>4. CommandsOK'
  <2>1. ASSUME NEW t \in Clients PROVE CommandOK(policy, cmd'[t], req[t])
    <3>1. CASE t = s
      BY <1>1, <1>2, <3>1, OverIsOK DEF Tells, Answers, Results
    <3>2. CASE t # s
      <4>1. CommandOK(policy, cmd[t], req[t])
        BY DEF CommandsInv, CommandsOK
      <4>. DEFINE b == cmd[t].late \/ cmd[t].pc = "fill"
      <4>2. b \in BOOLEAN /\ cmd'[t] = [cmd[t] EXCEPT !.late = b]
        BY <1>2, <3>2
      <4>. HIDE DEF b
      <4>. QED
        BY <4>1, <4>2, LateIsOK
    <3>. QED
      BY <3>1, <3>2
  <2>. QED
    BY <1>2, <1>3, <2>1 DEF CommandsInv, CommandsOK
<1>5. FileOK'
  <2>1. CASE stateFile' = None
    BY <1>1, <1>2, <2>1 DEF CommandsInv, FileOK, File
  <2>2. CASE stateFile' = text
    <3>1. stateFile' \in File /\ stateFile'.env = c.env /\ stateFile'.branch = c.line
      BY <1>1, <2>2 DEF File
    <3>. QED
      BY <1>1, <1>2, <3>1 DEF CommandsInv, FileOK
  <2>. QED
    BY <1>2, <2>1, <2>2
<1>6. RowsOK' /\ DraftsOK'
  BY <1>2, <1>3, RowsStay, DraftsStay DEF CommandsInv, refsVars
<1>7. IInv'
  BY <1>2, NextIInv DEF CommandsInv
<1>. QED
  BY <1>4, <1>5, <1>6, <1>7 DEF CommandsInv

(* A field of a document is set to a value.                                *)
LEMMA SetIsDoc ==
  ASSUME NEW doc \in Doc, NEW f \in Fields, NEW v \in Values
  PROVE  SetDotted(doc, f, v) \in Doc
<1>1. doc.body \in [Fields -> Values]
  BY FieldsAssumption DEF Doc
<1>. DEFINE body == [doc.body EXCEPT ![f] = v]
<1>2. body \in Bodies
  BY <1>1, FieldsAssumption
<1>3. SetDotted(doc, f, v) = [doc EXCEPT !.body = body]
  BY DEF SetDotted
<1>. HIDE DEF body
<1>. QED
  BY <1>2, <1>3 DEF Doc

(* set and edit have the document to commit: the live one, changed.        *)
LEMMA FetchStep ==
  ASSUME CommandsInv, NEW s \in Clients, Fetch(s)
  PROVE  CommandsInv'
<1>. DEFINE c == cmd[s]
            doc == live[c.rec]
<1>1. /\ c \in Command /\ ArgumentsOK(c) /\ LineOK(policy, c) /\ EffectOK(policy, c)
      /\ EngineOK(c, req[s]) /\ c.pc = "fetch"
  BY CommandFields DEF Fetch
<1>2. UNCHANGED <<vars, authors, refsVars, fileVars, policy>>
  BY DEF Fetch, Kept
<1>3. c.rec \in Records /\ doc \in Doc \cup {None} /\ c.name \in {"set", "edit"}
  BY <1>1 DEF ArgumentsOK, CommandsInv, IInv, TypeOK, StoreTypeOK
<1>4. CASE doc = None
  <2>1. SetCmd(s, Over(c, "not_found"))
    BY <1>4 DEF Fetch
  <2>. QED
    BY <1>1, <1>2, <2>1, RefusedStep DEF Answers, Results
<1>5. CASE doc # None /\ c.name = "set"
  <2>. DEFINE new == SetDotted(doc, c.field, c.value)
              k == [c EXCEPT !.pc = "call", !.value = None, !.doc = new]
  <2>1. SetCmd(s, k)
    BY <1>5 DEF Fetch
  <2>2. new \in Doc
    BY <1>1, <1>3, <1>5, SetIsDoc DEF ArgumentsOK
  <2>. HIDE DEF c, new
  <2>3. k \in Command
    BY <1>1, <2>2 DEF Command, Shells
  <2>4. /\ k.id = c.id /\ k.pc = "call" /\ k.name = c.name /\ k.line = c.line /\ k.rec = c.rec
        /\ k.doc = new /\ k.told = c.told /\ k.read = c.read /\ k.wrote = c.wrote /\ k.all = c.all
    BY <1>1 DEF Command
  <2>. HIDE DEF k
  <2>5. ArgumentsOK(k)
    BY <1>1, <1>5, <2>2, <2>4 DEF ArgumentsOK, Lines
  <2>6. LineOK(policy, k) /\ EffectOK(policy, k) /\ EngineOK(k, req[s])
    BY <1>1, <2>4 DEF LineOK, EffectOK, EngineOK
  <2>. QED
    BY <1>2, <2>1, <2>3, <2>5, <2>6, StillStep DEF CommandOK
<1>6. CASE doc # None /\ c.name # "set"
  <2>. DEFINE k == [c EXCEPT !.pc = "editor", !.doc = doc]
  <2>1. SetCmd(s, k)
    BY <1>6 DEF Fetch
  <2>2. doc \in Doc
    BY <1>3, <1>6
  <2>. HIDE DEF c, doc
  <2>3. k \in Command
    BY ZenonT(30), <1>1, <2>2 DEF Command, Shells
  <2>4. /\ k.id = c.id /\ k.pc = "editor" /\ k.name = c.name /\ k.line = c.line /\ k.rec = c.rec
        /\ k.doc = doc /\ k.told = c.told /\ k.read = c.read /\ k.wrote = c.wrote /\ k.all = c.all
    BY <1>1 DEF Command
  <2>. HIDE DEF k
  <2>5. ArgumentsOK(k)
    BY <1>1, <1>3, <1>6, <2>2, <2>4 DEF ArgumentsOK
  <2>6. LineOK(policy, k) /\ EffectOK(policy, k) /\ EngineOK(k, req[s])
    BY <1>1, <2>4 DEF LineOK, EffectOK, EngineOK
  <2>. QED
    BY <1>2, <2>1, <2>3, <2>5, <2>6, StillStep DEF CommandOK
<1>. QED
  BY <1>4, <1>5, <1>6

(* The user saves any document, or gives up.                               *)
LEMMA EditorStep ==
  ASSUME CommandsInv, NEW s \in Clients, Editor(s)
  PROVE  CommandsInv'
<1>. DEFINE c == cmd[s]
<1>1. /\ c \in Command /\ ArgumentsOK(c) /\ LineOK(policy, c) /\ EffectOK(policy, c)
      /\ EngineOK(c, req[s]) /\ c.pc = "editor"
  BY CommandFields DEF Editor
<1>2. UNCHANGED <<vars, authors, refsVars, fileVars, policy>>
  BY DEF Editor, Kept
<1>3. CASE SetCmd(s, Over(c, "bad_argument"))
  BY <1>1, <1>2, <1>3, RefusedStep DEF Answers, Results
<1>4. ASSUME NEW b \in Bodies, SetCmd(s, [c EXCEPT !.pc = "call", !.doc.body = b])
      PROVE  CommandsInv'
  <2>. DEFINE new == [c.doc EXCEPT !.body = b]
              k == [c EXCEPT !.pc = "call", !.doc = new]
  <2>1. c.doc \in Doc
    BY <1>1 DEF ArgumentsOK
  <2>2. new \in Doc
    BY <2>1 DEF Doc
  <2>3. SetCmd(s, k)
    BY <1>1, <1>4 DEF Command
  <2>. HIDE DEF c, new
  <2>4. k \in Command
    BY ZenonT(30), <1>1, <2>2 DEF Command, Shells
  <2>5. /\ k.id = c.id /\ k.pc = "call" /\ k.name = c.name /\ k.line = c.line /\ k.rec = c.rec
        /\ k.doc = new /\ k.told = c.told /\ k.read = c.read /\ k.wrote = c.wrote /\ k.all = c.all
    BY <1>1 DEF Command
  <2>. HIDE DEF k
  <2>6. ArgumentsOK(k)
    BY <1>1, <2>2, <2>5 DEF ArgumentsOK, Lines
  <2>7. LineOK(policy, k) /\ EffectOK(policy, k) /\ EngineOK(k, req[s])
    BY <1>1, <2>5 DEF LineOK, EffectOK, EngineOK
  <2>. QED
    BY <1>2, <2>3, <2>4, <2>6, <2>7, StillStep DEF CommandOK
<1>. QED
  BY <1>3, <1>4 DEF Editor

(* Without permission the command is over.                                 *)
LEMMA ForbiddenStep ==
  ASSUME CommandsInv, NEW s \in Clients, Refused(s)
  PROVE  CommandsInv'
<1>1. cmd[s].pc \in {"call", "branch", "list"} /\ ~MayRun(s) /\ SetCmd(s, Over(cmd[s], "forbidden"))
  BY DEF Refused, Authorizes
<1>2. ~cmd[s].wrote
  BY <1>1, CommandFields DEF EffectOK, MayRun
<1>3. UNCHANGED <<vars, authors, refsVars, fileVars, policy>>
  BY DEF Refused, Kept
<1>. QED
  BY <1>1, <1>2, <1>3, RefusedStep DEF Answers, Results

(* What --all goes through is a set of records.                            *)
LEMMA ListAllStep ==
  ASSUME CommandsInv, NEW s \in Clients, ListAll(s)
  PROVE  CommandsInv'
<1>1. /\ cmd[s] \in Command /\ ArgumentsOK(cmd[s]) /\ LineOK(policy, cmd[s])
      /\ EffectOK(policy, cmd[s]) /\ cmd[s].pc = "list"
  BY CommandFields DEF ListAll
<1>2. PICK listed \in SUBSET Records :
        SetCmd(s, [cmd[s] EXCEPT !.pc = "next", !.todo = listed])
  BY DEF ListAll
<1>3. UNCHANGED <<vars, authors, refsVars, fileVars, policy>>
  BY DEF ListAll, Kept
<1>. DEFINE c == cmd[s]
            k == [c EXCEPT !.pc = "next", !.todo = listed]
<1>. HIDE DEF c
<1>4. k \in Command
  BY ZenonT(30), <1>1 DEF c, Command, Shells
<1>5. /\ k.id = c.id /\ k.pc = "next" /\ k.name = c.name /\ k.line = c.line
      /\ k.told = c.told /\ k.read = c.read /\ k.wrote = c.wrote /\ k.all = c.all
  BY <1>1 DEF c, Command
<1>. HIDE DEF k
<1>6. CommandOK(policy, k, req[s])
  BY <1>1, <1>4, <1>5 DEF c, CommandOK, ArgumentsOK, LineOK, EffectOK, EngineOK
<1>. QED
  BY <1>2, <1>3, <1>6, StillStep DEF c, k

(* Then one of them is next, or the command is over.                       *)
LEMMA NextRecordStep ==
  ASSUME CommandsInv, NEW s \in Clients, NextRecord(s)
  PROVE  CommandsInv'
<1>. DEFINE c == cmd[s]
<1>1. /\ c \in Command /\ ArgumentsOK(c) /\ LineOK(policy, c)
      /\ EffectOK(policy, c) /\ c.pc = "next"
  BY CommandFields DEF NextRecord
<1>2. UNCHANGED <<vars, authors, refsVars, fileVars, policy>>
  BY DEF NextRecord, Kept
<1>3. CASE SetCmd(s, Over(c, "all"))
  BY <1>1, <1>2, <1>3, RefusedStep DEF Answers, Results
<1>4. ASSUME NEW r \in c.todo,
             SetCmd(s, [c EXCEPT !.pc = "call", !.rec = r, !.todo = c.todo \ {r}])
      PROVE  CommandsInv'
  <2>. DEFINE rest == c.todo \ {r}
              k == [c EXCEPT !.pc = "call", !.rec = r, !.todo = rest]
  <2>1. r \in Records /\ rest \subseteq Records
    BY <1>1 DEF Command
  <2>2. SetCmd(s, k)
    BY <1>4
  <2>. HIDE DEF c, rest
  <2>3. k \in Command
    BY ZenonT(30), <1>1, <2>1 DEF Command, Shells
  <2>4. /\ k.id = c.id /\ k.pc = "call" /\ k.name = c.name /\ k.line = c.line /\ k.rec = r
        /\ k.told = c.told /\ k.read = c.read /\ k.wrote = c.wrote /\ k.all = c.all
    BY <1>1 DEF Command
  <2>. HIDE DEF k
  <2>5. ArgumentsOK(k)
    BY <1>1, <2>1, <2>4 DEF ArgumentsOK, ForAll, OnRecord, Lines
  <2>6. LineOK(policy, k) /\ EffectOK(policy, k) /\ EngineOK(k, req[s])
    BY <1>1, <2>4 DEF LineOK, EffectOK, EngineOK
  <2>. QED
    BY <1>2, <2>2, <2>3, <2>5, <2>6, StillStep DEF CommandOK
<1>. QED
  BY <1>3, <1>4 DEF NextRecord

(* A commit to a draft is planned; only who is authorized puts it.         *)
LEMMA PlanDraftStep ==
  ASSUME CommandsInv, NEW s \in Clients, PlanDraft(s)
  PROVE  CommandsInv'
<1>. DEFINE c == cmd[s]
            k == [c EXCEPT !.pc = "put"]
            verdict == DraftVerdict(c.line, c.rec, c.doc)
<1>1. /\ c \in Command /\ ArgumentsOK(c) /\ LineOK(policy, c) /\ EffectOK(policy, c)
      /\ EngineOK(c, req[s]) /\ c.pc = "call" /\ OnDraft(c) /\ MayRun(s)
  BY CommandFields DEF PlanDraft
<1>2. UNCHANGED <<vars, authors, refsVars, fileVars, policy>>
  BY DEF PlanDraft, Kept
<1>3. verdict \in {"bad_argument", "not_found", "missing", "changed_outside_cfgit", "noop", "ready"}
  BY DEF DraftVerdict
<1>4. CASE verdict # "ready" /\ SetCmd(s, Over(c, verdict))
  BY <1>1, <1>2, <1>3, <1>4, RefusedStep DEF Answers, Results
<1>5. CASE SetCmd(s, Over(c, "secret_blocked"))
  BY <1>1, <1>2, <1>5, RefusedStep DEF Answers, Results
<1>6. CASE SetCmd(s, k)
  <2>1. AuthorizeMutation(policy, c.id, ActionOf(c.name)) /\ c.name = "commit" /\ c.line # Main
    BY <1>1 DEF MayRun, OnDraft
  <2>. HIDE DEF c
  <2>2. k \in Command
    BY <1>1 DEF Command, Shells
  <2>3. /\ k.id = c.id /\ k.pc = "put" /\ k.name = c.name /\ k.line = c.line /\ k.rec = c.rec
        /\ k.doc = c.doc /\ k.told = c.told /\ k.read = c.read /\ k.wrote = c.wrote /\ k.all = c.all
    BY <1>1 DEF Command
  <2>. HIDE DEF k
  <2>4. ArgumentsOK(k)
    BY <1>1, <2>1, <2>3 DEF ArgumentsOK, Lines
  <2>5. LineOK(policy, k) /\ EffectOK(policy, k) /\ EngineOK(k, req[s])
    BY <1>1, <2>1, <2>3 DEF LineOK, EffectOK, EngineOK
  <2>. QED
    BY <1>2, <1>6, <2>2, <2>4, <2>5, StillStep DEF CommandOK, c
<1>. QED
  BY <1>4, <1>5, <1>6 DEF PlanDraft

(* A draft has an author who may write.                                    *)
LEMMA PutDraftStep ==
  ASSUME CommandsInv, NEW s \in Clients, PutDraft(s)
  PROVE  CommandsInv'
<1>. DEFINE c == cmd[s]
            d == [oid |-> HashDoc(c.doc), author |-> c.id.author]
            k == [c EXCEPT !.wrote = TRUE]
<1>1. /\ c \in Command /\ ArgumentsOK(c) /\ EffectOK(policy, c) /\ c.pc = "put"
  BY CommandFields DEF PutDraft
<1>2. /\ UNCHANGED <<vars, authors, fileVars, policy>>
      /\ SetCmd(s, Over(k, "applied"))
      /\ drafts' = [drafts EXCEPT ![c.line][c.rec] = d]
  BY DEF PutDraft, Kept
<1>3. k.wrote = TRUE /\ k.all \in BOOLEAN
  BY <1>1 DEF Command
<1>. HIDE DEF k
<1>4. CommandOK(policy, Over(k, "applied"), req[s])
  BY <1>3, OverIsOK DEF Tells, Answers, Results
<1>5. IInv' /\ CommandsOK' /\ RowsOK'
  BY <1>2, <1>4, QuietStep
<1>6. FileOK'
  BY <1>2, FileStays DEF CommandsInv
<1>7. DraftsOK'
  <2>1. MayWrite(policy, c.id.author)
    BY <1>1, AuthorizedMayWrite DEF EffectOK
  <2>2. c.line \in Drafts /\ c.rec \in Records /\ d.author = c.id.author
    BY <1>1 DEF ArgumentsOK
  <2>. HIDE DEF c, d
  <2>3. ASSUME NEW b \in Drafts
        PROVE  /\ DOMAIN drafts'[b] = Records
               /\ \A r \in Records : drafts'[b][r] = IF b = c.line /\ r = c.rec THEN d
                                                     ELSE drafts[b][r]
    BY <1>2, <2>2 DEF CommandsInv, DraftsOK
  <2>4. DOMAIN drafts' = Drafts
    BY <1>2 DEF CommandsInv, DraftsOK
  <2>5. ASSUME NEW b \in Drafts, NEW r \in Records, drafts'[b][r] # None
        PROVE  MayWrite(policy', drafts'[b][r].author)
    <3>1. UNCHANGED policy
      BY <1>2
    <3>2. CASE b = c.line /\ r = c.rec
      BY <2>1, <2>2, <2>3, <3>1, <3>2 DEF c
    <3>3. CASE ~(b = c.line /\ r = c.rec)
      BY <2>3, <2>5, <3>1, <3>3 DEF CommandsInv, DraftsOK
    <3>. QED
      BY <3>2, <3>3
  <2>. QED
    BY <2>3, <2>4, <2>5 DEF DraftsOK
<1>. QED
  BY <1>5, <1>6, <1>7 DEF CommandsInv

(* Branches are created and deleted.                                       *)
LEMMA BranchStep ==
  ASSUME CommandsInv, NEW s \in Clients, CreateBranch(s) \/ DeleteBranch(s)
  PROVE  CommandsInv'
<1>. DEFINE c == cmd[s]
            k == [c EXCEPT !.wrote = TRUE]
<1>1. /\ c \in Command /\ ArgumentsOK(c) /\ EffectOK(policy, c) /\ c.pc = "branch"
  BY CommandFields DEF CreateBranch, DeleteBranch
<1>2. UNCHANGED <<vars, authors, drafts, fileVars, policy>>
  BY DEF CreateBranch, DeleteBranch, Kept
<1>3. /\ k.wrote = TRUE /\ k.all \in BOOLEAN
      /\ c.wrote \in BOOLEAN /\ ~c.wrote /\ c.all \in BOOLEAN
  BY <1>1 DEF Command, EffectOK, ArgumentsOK
<1>4. /\ CommandOK(policy, Over(c, "bad_argument"), req[s])
      /\ CommandOK(policy, Over(c, "not_found"), req[s])
      /\ CommandOK(policy, Over(k, "created"), req[s])
      /\ CommandOK(policy, Over(k, "deleted"), req[s])
  <2>. HIDE DEF k, c
  <2>1. /\ CommandOK(policy, Over(k, "created"), req[s])
        /\ CommandOK(policy, Over(k, "deleted"), req[s])
    BY <1>3, OverIsOK DEF Tells, Answers, Results
  <2>. QED
    BY <1>3, <2>1, OverIsOK DEF Tells, Answers, Results
<1>5. PICK o : SetCmd(s, o) /\ CommandOK(policy, o, req[s])
  BY <1>4 DEF CreateBranch, DeleteBranch
<1>6. IInv' /\ CommandsOK' /\ RowsOK'
  BY <1>2, <1>5, QuietStep
<1>7. FileOK' /\ DraftsOK'
  BY <1>2, FileStays, DraftsStay DEF CommandsInv
<1>. QED
  BY <1>6, <1>7 DEF CommandsInv

(* A process dies.                                                         *)
LEMMA DieStep ==
  ASSUME CommandsInv, NEW s \in Clients, Die(s), IInv'
  PROVE  CommandsInv'
<1>1. /\ UNCHANGED <<storeVars, authors, refsVars, fileVars, policy>> /\ SetCmd(s, NoCommand)
      /\ req' = [req EXCEPT ![s] = Idle]
  BY DEF Die, Kept
<1>2. req'[s] = Idle /\ \A t \in Clients \ {s} : req'[t] = req[t]
  BY <1>1 DEF CommandsInv, IInv, TypeOK
<1>3. CommandOK(policy, NoCommand, req'[s])
  <2>1. NoCommand.pc = "idle" /\ NoCommand.told = Main /\ ~NoCommand.all
    BY DEF NoCommand
  <2>. QED
    BY <2>1, NoCommandIsCommand DEF CommandOK, ArgumentsOK, LineOK, EffectOK, EngineOK
<1>4. CommandsOK'
  BY <1>1, <1>2, <1>3, CommandStep
<1>5. RowsOK' /\ FileOK' /\ DraftsOK'
  BY <1>1, RowsStay, FileStays, DraftsStay DEF CommandsInv, storeVars, refsVars
<1>. QED
  BY <1>4, <1>5 DEF CommandsInv

-----------------------------------------------------------------------------
(***************************************************************************)
(* The engine under a command.                                             *)
(***************************************************************************)

(* The action layer hands the command to the engine as a request.          *)
LEMMA CallEngineStep ==
  ASSUME CommandsInv, NEW s \in Clients, CallEngine(s), IInv'
  PROVE  CommandsInv'
<1>. DEFINE c == cmd[s]
            k == [c EXCEPT !.pc = "engine", !.doc = None, !.ref = None]
<1>1. /\ c \in Command /\ ArgumentsOK(c) /\ LineOK(policy, c) /\ EffectOK(policy, c)
      /\ c.pc = "call" /\ ~OnDraft(c) /\ MayRun(s)
      /\ c.rec \in Records /\ c.name \in OnRecord
  BY CommandFields DEF CallEngine, ArgumentsOK
<1>2. /\ UNCHANGED <<authors, refsVars, fileVars, policy>> /\ SetCmd(s, k)
      /\ \/ c.name = "import" /\ StartImport(s, c.rec)
         \/ c.name = "adopt" /\ StartAdopt(s, c.rec)
         \/ c.name = "restore" /\ StartRestore(s, c.rec, c.ref)
         \/ c.name \in {"commit", "set", "edit"} /\ StartCommit(s, c.rec, c.doc)
  BY <1>1 DEF CallEngine, Kept, OnRecord
<1>3. /\ UNCHANGED storeVars
      /\ req'[s].pc \notin {"idle", "done"} /\ req'[s].op = ActionOf(c.name)
      /\ \A t \in Clients \ {s} : req'[t] = req[t]
  <2>1. DOMAIN req = Clients
    BY DEF CommandsInv, IInv, TypeOK
  <2>. HIDE DEF c
  <2>. QED
    BY ZenonT(30), <1>2, <2>1
       DEF StartImport, StartAdopt, StartRestore, StartCommit, Start, Idle, ActionOf
<1>4. k \in Command
  BY <1>1 DEF Command, Shells
<1>5. /\ k.id = c.id /\ k.pc = "engine" /\ k.name = c.name /\ k.line = c.line /\ k.rec = c.rec
      /\ k.told = c.told /\ k.read = c.read /\ k.wrote = c.wrote /\ k.all = c.all
  BY <1>1 DEF Command
<1>6. AuthorizeMutation(policy, c.id, ActionOf(c.name)) /\ (c.name = "commit" => c.line = Main)
  BY <1>1 DEF MayRun, OnDraft
<1>. HIDE DEF c, k
<1>7. ArgumentsOK(k) /\ LineOK(policy, k) /\ EffectOK(policy, k) /\ EngineOK(k, req'[s])
  BY <1>1, <1>3, <1>5, <1>6 DEF ArgumentsOK, LineOK, EffectOK, EngineOK
<1>8. CommandsOK'
  BY <1>2, <1>3, <1>4, <1>7, CommandStep DEF CommandOK
<1>9. RowsOK' /\ FileOK' /\ DraftsOK'
  BY <1>2, <1>3, RowsStay, FileStays, DraftsStay DEF CommandsInv, storeVars, refsVars
<1>. QED
  BY <1>8, <1>9 DEF CommandsInv

(* Only "applied" comes with a write.                                      *)
Refusals == Results \ {"applied"}

(* What a step of the engine does to the request of its client: it goes    *)
(* on, or it is over.                                                      *)
GoesOn(k) ==
  k.pc \notin {"idle", "done"} \/ (k.pc = "done" /\ k.result \in Refusals)

(* A command that ends has its result, and nobody else is touched.         *)
LEMMA FinishDoes ==
  ASSUME IInv, NEW s \in Clients, NEW result, Finish(s, result)
  PROVE  /\ req'[s].pc = "done" /\ req'[s].op = req[s].op /\ req'[s].result = result
         /\ \A t \in Clients \ {s} : req'[t] = req[t]
BY DEF IInv, TypeOK, Finish, Idle

(* Only the transaction writes, and only "applied" says so.                *)
LEMMA WorkDoes ==
  ASSUME IInv, NEW s \in Clients, Work(s)
  PROVE  /\ req[s].pc \notin {"idle", "done"}
         /\ req'[s].op = req[s].op
         /\ \A t \in Clients \ {s} : req'[t] = req[t]
         /\ \/ UNCHANGED storeVars /\ GoesOn(req'[s])
            \/ /\ req[s].pc = "apply" /\ Apply(req[s].rec, Item(req[s]))
               /\ req'[s].pc = "done" /\ req'[s].result = "applied"
<1>. DEFINE q == req[s]
<1>1. q \in Request /\ DOMAIN req = Clients
  BY DEF IInv, TypeOK
<1>2. ASSUME UNCHANGED storeVars, NEW result \in Refusals, Finish(s, result),
             q.pc \notin {"idle", "done"}
      PROVE  /\ req'[s].op = q.op /\ \A t \in Clients \ {s} : req'[t] = req[t]
             /\ UNCHANGED storeVars /\ GoesOn(req'[s])
  BY <1>2, FinishDoes DEF GoesOn
<1>3. ASSUME NEW k, req' = [req EXCEPT ![s] = k], k.pc \notin {"idle", "done"}, k.op = q.op,
             UNCHANGED storeVars
      PROVE  /\ req'[s].op = q.op /\ \A t \in Clients \ {s} : req'[t] = req[t]
             /\ UNCHANGED storeVars /\ GoesOn(req'[s])
  BY <1>1, <1>3 DEF GoesOn
<1>4. CASE ResolveRef(s)
  <2>1. q.pc = "resolve" /\ UNCHANGED storeVars
    BY <1>4 DEF ResolveRef
  <2>2. CASE Finish(s, "not_found")
    BY <1>2, <2>1, <2>2 DEF Refusals, Results
  <2>3. ASSUME NEW d, req' = [req EXCEPT ![s].pc = "read_live", ![s].doc = d]
        PROVE  /\ req'[s].op = q.op /\ req'[s].pc = "read_live"
               /\ \A t \in Clients \ {s} : req'[t] = req[t]
    BY <1>1, <2>3 DEF Request
  <2>. QED
    BY <1>4, <2>1, <2>2, <2>3 DEF ResolveRef, GoesOn
<1>5. CASE ReadLive(s)
  <2>1. q.pc = "read_live" /\ UNCHANGED storeVars
    BY <1>5 DEF ReadLive
  <2>2. CASE Finish(s, IF q.op = "import" THEN "missing" ELSE "not_found")
    BY <1>2, <2>1, <2>2 DEF Refusals, Results
  <2>3. ASSUME NEW pc \in {"entry", "read_head"}, NEW d, NEW l,
               req' = [req EXCEPT ![s] = [q EXCEPT !.pc = pc, !.live = l, !.doc = d]]
        PROVE  /\ req'[s].op = q.op /\ req'[s].pc = pc
               /\ \A t \in Clients \ {s} : req'[t] = req[t]
    BY <1>1, <2>3 DEF Request
  <2>. QED
    BY <1>5, <2>1, <2>2, <2>3 DEF ReadLive, GoesOn
<1>6. CASE ReadHead(s)
  <2>. DEFINE head == GetHead(q.rec)
              v == Verdict(q, head)
  <2>1. q.pc = "read_head" /\ UNCHANGED storeVars
    BY <1>6 DEF ReadHead
  <2>2. CASE v # None /\ Finish(s, v)
    <3>2. v \in Results \ {"applied"}
      BY <2>2 DEF Verdict, Results
    <3>3. GoesOn(req'[s])
      BY <2>2, <3>2, FinishDoes DEF GoesOn, Refusals
    <3>. QED
      BY <2>1, <2>2, <3>3, FinishDoes
  <2>3. ASSUME NEW pc \in {"read_live", "entry"}, NEW h,
               req' = [req EXCEPT ![s] = [q EXCEPT !.pc = pc, !.head = h]]
        PROVE  /\ req'[s].op = q.op /\ req'[s].pc = pc
               /\ \A t \in Clients \ {s} : req'[t] = req[t]
    BY <1>1, <2>3 DEF Request
  <2>. QED
    BY <1>6, <2>1, <2>2, <2>3 DEF ReadHead, GoesOn
<1>7. CASE MakeEntry(s)
  <2>1. q.pc = "entry" /\ UNCHANGED storeVars
    BY <1>7 DEF MakeEntry
  <2>2. CASE Finish(s, "secret_blocked")
    BY <1>2, <2>1, <2>2 DEF Refusals, Results
  <2>3. CASE req' = [req EXCEPT ![s].pc = "apply", ![s].from = clock]
    <3>1. /\ req'[s].op = q.op /\ req'[s].pc = "apply"
          /\ \A t \in Clients \ {s} : req'[t] = req[t]
      BY <1>1, <2>3 DEF Request
    <3>. QED
      BY <2>1, <3>1 DEF GoesOn
  <2>. QED
    BY <1>7, <2>2, <2>3 DEF MakeEntry
<1>8. CASE ApplyEntry(s)
  <2>. DEFINE item == Item(q)
              refusal == Refusal(q.rec, item)
  <2>1. q.pc = "apply"
    BY <1>8 DEF ApplyEntry
  <2>2. CASE Apply(q.rec, item) /\ Finish(s, "applied")
    BY <2>1, <2>2, FinishDoes
  <2>3. CASE Finish(s, refusal) /\ UNCHANGED storeVars
    <3>1. refusal \in Refusals
      BY DEF Refusal, Refusals, Results
    <3>. HIDE DEF refusal
    <3>. QED
      BY <1>2, <2>1, <2>3, <3>1
  <2>. QED
    BY <1>8, <2>2, <2>3 DEF ApplyEntry
<1>9. CASE Abort(s)
  <2>1. q.pc = "apply" /\ UNCHANGED storeVars
    BY <1>9 DEF Abort
  <2>2. CASE Finish(s, "failed")
    BY <1>2, <2>1, <2>2 DEF Refusals, Results
  <2>3. CASE req' = [req EXCEPT ![s].tries = q.tries + 1]
    <3>1. /\ req'[s].op = q.op /\ req'[s].pc = "apply"
          /\ \A t \in Clients \ {s} : req'[t] = req[t]
      BY <1>1, <2>1, <2>3 DEF Request
    <3>. QED
      BY <2>1, <3>1 DEF GoesOn
  <2>. QED
    BY <1>9, <2>2, <2>3 DEF Abort
<1>. QED
  BY <1>4, <1>5, <1>6, <1>7, <1>8, <1>9 DEF Work

(* What the rows of the record are after a transaction: those before it,   *)
(* and one of the operation.                                               *)
LEMMA RowsOfApply ==
  ASSUME IInv, NEW s \in Clients, req[s].pc = "apply", Apply(req[s].rec, Item(req[s])),
         NEW r \in Records
  PROVE  /\ DOMAIN history[r] \subseteq DOMAIN history'[r]
         /\ \A i \in DOMAIN history[r] : history'[r][i].op = history[r][i].op
         /\ \A i \in DOMAIN history'[r] \ DOMAIN history[r] : history'[r][i].op = req[s].op
         /\ history' # history
<1>. DEFINE x == req[s].rec
            e == Item(req[s]).entry
            n == heads[x].seq
<1>1. TypeOK /\ StoreInv /\ ClientOK(req[s])
  BY DEF IInv, ClientsOK
<1>2. x \in Records /\ n \in Nat /\ e \in Row /\ Gains(x, n, e)
  BY <1>1, ApplyGains
<1>3. e.op = req[s].op
  BY DEF Item
<1>. HIDE DEF e, n
<1>4. n + 1 \in DOMAIN history'[x] /\ n + 1 \notin DOMAIN history[x]
  BY <1>2 DEF Gains
<1>5. CASE r = x
  <2>1. /\ DOMAIN history[r] = 1 .. n /\ DOMAIN history'[r] = 1 .. (n + 1)
        /\ history'[r][n + 1] = e
        /\ \A i \in 1 .. n : history'[r][i].op = history[r][i].op
    BY <1>2, <1>5 DEF Gains, OldRow
  <2>2. \A i \in (1 .. (n + 1)) \ (1 .. n) : i = n + 1
    BY <1>2
  <2>. QED
    BY <1>2, <1>3, <1>4, <2>1, <2>2
<1>6. CASE r # x
  BY <1>2, <1>4, <1>6 DEF Gains
<1>. QED
  BY <1>5, <1>6

(* The row that is new has the author who called, who may write; it says   *)
(* what he was authorized to do.                                           *)
LEMMA AuthorsFollow ==
  ASSUME RowsOK, NEW s \in Clients, UNCHANGED policy, authors' = AuthorsAfter(s),
         MayWrite(policy, cmd[s].id.author),
         req[s].op \in policy.adminActions => cmd[s].id.author \in policy.admins,
         \A r \in Records :
           /\ DOMAIN history[r] \subseteq DOMAIN history'[r]
           /\ \A i \in DOMAIN history[r] : history'[r][i].op = history[r][i].op
           /\ \A i \in DOMAIN history'[r] \ DOMAIN history[r] : history'[r][i].op = req[s].op
  PROVE  RowsOK'
<1>1. /\ DOMAIN authors' = Records
      /\ \A r \in Records :
           /\ DOMAIN authors'[r] = DOMAIN history'[r]
           /\ \A i \in DOMAIN history'[r] : authors'[r][i] =
                IF i \in DOMAIN history[r] THEN authors[r][i] ELSE cmd[s].id.author
  BY DEF AuthorsAfter
<1>2. ASSUME NEW r \in Records, NEW i \in DOMAIN history'[r]
      PROVE  /\ MayWrite(policy', authors'[r][i])
             /\ history'[r][i].op \in policy'.adminActions => authors'[r][i] \in policy'.admins
  <2>1. CASE i \in DOMAIN history[r]
    BY <1>1, <2>1 DEF RowsOK
  <2>2. CASE i \notin DOMAIN history[r]
    BY <1>1, <1>2, <2>2
  <2>. QED
    BY <2>1, <2>2
<1>. QED
  BY <1>1, <1>2 DEF RowsOK

(* The engine's steps, for a request the action layer let through.         *)
LEMMA EngineWorksStep ==
  ASSUME CommandsInv, NEW s \in Clients, EngineWorks(s), IInv'
  PROVE  CommandsInv'
<1>. DEFINE c == cmd[s]
            wrote == c.wrote \/ history' # history
            k == [c EXCEPT !.wrote = wrote]
<1>1. /\ c \in Command /\ ArgumentsOK(c) /\ LineOK(policy, c) /\ EffectOK(policy, c)
      /\ EngineOK(c, req[s]) /\ c.pc = "engine" /\ c.name \in OnRecord
  BY CommandFields DEF EngineWorks, ArgumentsOK
<1>2. /\ UNCHANGED <<refsVars, fileVars, policy>> /\ SetCmd(s, k)
      /\ authors' = AuthorsAfter(s) /\ Work(s) /\ IInv
  BY DEF EngineWorks, Kept, CommandsInv
<1>3. /\ req[s].pc \notin {"idle", "done"}
      /\ req'[s].op = req[s].op
      /\ \A t \in Clients \ {s} : req'[t] = req[t]
      /\ \/ UNCHANGED storeVars /\ GoesOn(req'[s])
         \/ /\ req[s].pc = "apply" /\ Apply(req[s].rec, Item(req[s]))
            /\ req'[s].pc = "done" /\ req'[s].result = "applied"
  BY <1>2, WorkDoes
<1>4. (c.wrote => c.all) /\ req[s].op = ActionOf(c.name) /\ req[s].op \in OpNames
  BY <1>1, <1>3 DEF EngineOK, ActionOf, OnRecord, OpNames
<1>5. MayWrite(policy, c.id.author)
      /\ (req[s].op \in policy.adminActions => c.id.author \in policy.admins)
  BY <1>1, <1>4, AuthorizedMayWrite DEF EffectOK
<1>6. ASSUME NEW r \in Records
      PROVE  /\ DOMAIN history[r] \subseteq DOMAIN history'[r]
             /\ \A i \in DOMAIN history[r] : history'[r][i].op = history[r][i].op
             /\ \A i \in DOMAIN history'[r] \ DOMAIN history[r] : history'[r][i].op = req[s].op
  BY <1>2, <1>3, RowsOfApply DEF storeVars
<1>7. RowsOK'
  BY <1>2, <1>5, <1>6, AuthorsFollow DEF CommandsInv
<1>8. /\ req'[s].pc # "idle"
      /\ req'[s].pc # "done" => (wrote => c.all)
      /\ req'[s].pc = "done" =>
           /\ req'[s].result \in Results /\ (req'[s].result = "applied" => wrote)
           /\ wrote => c.all \/ req'[s].result = "applied"
  <2>1. CASE UNCHANGED storeVars /\ GoesOn(req'[s])
    <3>1. wrote => c.all
      BY <1>4, <2>1 DEF storeVars
    <3>. QED
      BY <1>4, <2>1, <3>1 DEF GoesOn, Refusals
  <2>2. CASE /\ req[s].pc = "apply" /\ Apply(req[s].rec, Item(req[s]))
             /\ req'[s].pc = "done" /\ req'[s].result = "applied"
    <3>1. req[s].rec \in Records
      BY <1>2, <2>2 DEF IInv, ClientsOK, ClientOK
    <3>2. wrote
      BY <1>2, <2>2, <3>1, RowsOfApply
    <3>. QED
      BY <2>2, <3>2 DEF Results
  <2>. QED
    BY <1>3, <2>1, <2>2
<1>9. wrote \in BOOLEAN
  BY <1>1 DEF Command
<1>. HIDE DEF c, wrote
<1>10. k \in Command
  BY <1>1, <1>9 DEF Command
<1>11. /\ k.id = c.id /\ k.pc = c.pc /\ k.name = c.name /\ k.line = c.line /\ k.rec = c.rec
       /\ k.told = c.told /\ k.read = c.read /\ k.wrote = wrote /\ k.all = c.all
  BY <1>1 DEF Command
<1>. HIDE DEF k
<1>12. ArgumentsOK(k) /\ LineOK(policy, k) /\ EffectOK(policy, k)
  BY <1>1, <1>11 DEF ArgumentsOK, LineOK, EffectOK
<1>13. EngineOK(k, req'[s])
  BY <1>3, <1>4, <1>8, <1>11 DEF EngineOK
<1>14. CommandsOK'
  BY <1>2, <1>3, <1>8, <1>10, <1>12, <1>13, CommandStep DEF CommandOK
<1>15. FileOK' /\ DraftsOK'
  BY <1>2, FileStays, DraftsStay DEF CommandsInv, refsVars
<1>. QED
  BY <1>7, <1>14, <1>15 DEF CommandsInv

(* The result of the engine is the command's, or one of those it collects. *)
LEMMA ReportIsOK ==
  ASSUME NEW p, NEW c, NEW result, CommandOK(p, c, [Idle EXCEPT !.pc = "done", !.result = result]),
         c.pc = "engine"
  PROVE  CommandOK(p, Report(c, result), Idle)
<1>. DEFINE q == [Idle EXCEPT !.pc = "done", !.result = result]
<1>1. q.pc = "done" /\ q.result = result
  BY DEF Idle
<1>2. c \in Command /\ ArgumentsOK(c) /\ LineOK(p, c) /\ EffectOK(p, c) /\ EngineOK(c, q)
  BY DEF CommandOK
<1>. HIDE DEF q
<1>3. CASE c.all /\ result \in Fine
  <2>. DEFINE k == [c EXCEPT !.pc = "next", !.rec = None]
  <2>1. Report(c, result) = k
    BY <1>3 DEF Report
  <2>2. k \in Command
    BY ZenonT(30), <1>2 DEF Command, Shells
  <2>3. /\ k.id = c.id /\ k.pc = "next" /\ k.name = c.name /\ k.line = c.line
        /\ k.told = c.told /\ k.read = c.read /\ k.wrote = c.wrote /\ k.all = c.all
    BY <1>2 DEF Command
  <2>. HIDE DEF k
  <2>4. CommandOK(p, k, Idle)
    BY <1>2, <1>3, <2>2, <2>3 DEF CommandOK, ArgumentsOK, LineOK, EffectOK, EngineOK
  <2>. QED
    BY <2>1, <2>4
<1>4. CASE ~(c.all /\ result \in Fine)
  <2>1. Report(c, result) = Over(c, result)
    BY <1>4 DEF Report
  <2>2. Tells(result, c)
    BY <1>1, <1>2 DEF EngineOK, Tells, Answers, Results, Command
  <2>. QED
    BY <2>1, <2>2, OverIsOK
<1>. QED
  BY <1>3, <1>4

(* ... or it is lost.                                                      *)
LEMMA EngineReturnsStep ==
  ASSUME CommandsInv, NEW s \in Clients, EngineReturns(s), IInv'
  PROVE  CommandsInv'
<1>. DEFINE c == cmd[s]
            result == req[s].result
<1>1. /\ c \in Command /\ EngineOK(c, req[s]) /\ c.pc = "engine" /\ req[s].pc = "done"
      /\ c.wrote \in BOOLEAN /\ c.all \in BOOLEAN /\ ArgumentsOK(c) /\ LineOK(policy, c)
      /\ EffectOK(policy, c)
  BY CommandFields DEF EngineReturns, Command
<1>2. /\ UNCHANGED <<storeVars, authors, refsVars, fileVars, policy>>
      /\ req' = [req EXCEPT ![s] = Idle]
      /\ \/ SetCmd(s, Report(c, result))
         \/ result = "applied" /\ SetCmd(s, Over(c, "failed"))
  BY DEF EngineReturns, Kept
<1>3. req'[s] = Idle /\ \A t \in Clients \ {s} : req'[t] = req[t]
  BY <1>2 DEF CommandsInv, IInv, TypeOK
<1>4. CommandOK(policy, Over(c, "failed"), Idle)
  <2>1. Tells("failed", c)
    BY <1>1 DEF Tells, Answers, Results
  <2>. QED
    BY <2>1, OverIsOK
<1>5. CommandOK(policy, Report(c, result), Idle)
  <2>. DEFINE q == [Idle EXCEPT !.pc = "done", !.result = result]
  <2>1. q.pc = "done" /\ q.result = result
    BY DEF Idle
  <2>. HIDE DEF q
  <2>2. EngineOK(c, q)
    BY <1>1, <2>1 DEF EngineOK
  <2>3. CommandOK(policy, c, q)
    BY <1>1, <2>2 DEF CommandOK
  <2>. QED
    BY <1>1, <2>3, ReportIsOK DEF q
<1>6. CommandsOK'
  BY <1>2, <1>3, <1>4, <1>5, CommandStep
<1>7. RowsOK' /\ FileOK' /\ DraftsOK'
  BY <1>2, RowsStay, FileStays, DraftsStay DEF CommandsInv, storeVars, refsVars
<1>. QED
  BY <1>6, <1>7 DEF CommandsInv

(* The application writes live records only.                               *)
LEMMA ApplicationStep ==
  ASSUME CommandsInv, Application, IInv'
  PROVE  CommandsInv'
<1>1. UNCHANGED <<history, authors, req, refsVars, fileVars, cmd, policy>>
  BY DEF Application, Kept, RawWrite, Tick
<1>2. CommandsOK'
  BY <1>1 DEF CommandsInv, CommandsOK
<1>3. RowsOK' /\ FileOK' /\ DraftsOK'
  BY <1>1, RowsStay, FileStays, DraftsStay DEF CommandsInv, refsVars
<1>. QED
  BY <1>2, <1>3 DEF CommandsInv

-----------------------------------------------------------------------------
(***************************************************************************)
(* The theorems.                                                           *)
(***************************************************************************)

(* At first there is no version, no draft and no command, and the file     *)
(* says what the last switch said.                                         *)
LEMMA InitCommandsInv == CommandsInit => CommandsInv
<1>. SUFFICES ASSUME CommandsInit PROVE CommandsInv
  OBVIOUS
<1>1. IInv
  BY InitIInv DEF CommandsInit
<1>2. CommandsOK
  <2>1. NoCommand.pc = "idle" /\ NoCommand.told = Main /\ ~NoCommand.all
    BY DEF NoCommand
  <2>2. \A q : CommandOK(policy, NoCommand, q)
    BY <2>1, NoCommandIsCommand DEF CommandOK, ArgumentsOK, LineOK, EffectOK, EngineOK
  <2>. QED
    BY <2>2 DEF CommandsInit, CommandsOK, Init
<1>3. FileOK
  <2>1. CASE active = Main /\ stateFile = None
    BY <2>1 DEF FileOK, File, Lines
  <2>2. CASE active \in Drafts /\ stateFile = [env |-> Env, branch |-> active]
    BY <2>2 DEF FileOK, File, Lines
  <2>3. CASE active \in Drafts /\ stateFile = [env |-> OtherEnv, branch |-> Main]
    BY <2>3, LinesAssumption DEF FileOK, File, Lines
  <2>. QED
    BY <2>1, <2>2, <2>3 DEF CommandsInit
<1>4. RowsOK
  BY DEF CommandsInit, Init, StoreInit, RowsOK
<1>5. DraftsOK
  BY DEF CommandsInit, DraftsOK
<1>. QED
  BY <1>1, <1>2, <1>3, <1>4, <1>5 DEF CommandsInv

(* The invariant is inductive.                                             *)
LEMMA NextCommandsInv == CommandsInv /\ [CommandsNext]_commandVars => CommandsInv'
<1>. SUFFICES ASSUME CommandsInv, [CommandsNext]_commandVars PROVE CommandsInv'
  OBVIOUS
<1>1. IInv'
  BY StepIsEngine, NextIInv DEF CommandsInv
<1>2. CASE UNCHANGED commandVars
  <2>1. UNCHANGED <<vars, policy, authors, refsVars, fileVars, cmd>>
    BY <1>2 DEF commandVars, refsVars, fileVars
  <2>2. CommandsOK'
    BY <2>1 DEF CommandsInv, CommandsOK, vars
  <2>3. RowsOK' /\ FileOK' /\ DraftsOK'
    BY <2>1, RowsStay, FileStays, DraftsStay DEF CommandsInv, vars, refsVars
  <2>. QED
    BY <1>1, <2>2, <2>3 DEF CommandsInv
<1>3. ASSUME NEW s \in Clients, ShellWorks(s) PROVE CommandsInv'
  <2>1. CASE ReadState(s) \/ Lookup(s) \/ EmptyFile(s) \/ FillFile(s) \/ Fetch(s)
    BY <2>1, ReadStateStep, LookupStep, EmptyFileStep, FillFileStep, FetchStep
  <2>2. CASE Refused(s) \/ CallEngine(s) \/ EngineWorks(s) \/ EngineReturns(s)
    BY <1>1, <2>2, ForbiddenStep, CallEngineStep, EngineWorksStep, EngineReturnsStep
  <2>4. CASE ListAll(s) \/ NextRecord(s)
    BY <2>4, ListAllStep, NextRecordStep
  <2>3. CASE PlanDraft(s) \/ PutDraft(s) \/ CreateBranch(s) \/ DeleteBranch(s)
    BY <2>3, PlanDraftStep, PutDraftStep, BranchStep
  <2>. QED
    BY <1>3, <2>1, <2>2, <2>3, <2>4 DEF ShellWorks
<1>4. ASSUME NEW s \in Clients, Typed(s) \/ Editor(s) \/ Die(s) PROVE CommandsInv'
  BY <1>1, <1>4, TypedStep, EditorStep, DieStep
<1>5. CASE Application
  BY <1>1, <1>5, ApplicationStep
<1>. QED
  BY <1>2, <1>3, <1>4, <1>5 DEF CommandsNext

(* Nothing else adds a version.                                            *)
LEMMA OnlyEngineWorks ==
  ASSUME CommandsInv, [CommandsNext]_commandVars, history' # history
  PROVE  \E s \in Clients : EngineWorks(s)
<1>1. ~UNCHANGED vars /\ ~UNCHANGED storeVars
  BY DEF vars, storeVars
<1>2. ~UNCHANGED commandVars
  BY <1>1 DEF commandVars
<1>3. ASSUME NEW s \in Clients, Typed(s) \/ Editor(s) \/ Die(s) PROVE FALSE
  BY <1>1, <1>3, TypedBegins DEF Editor, Die, Begin
<1>4. ~Application
  BY DEF Application, RawWrite, Tick
<1>5. ASSUME NEW s \in Clients, CallEngine(s) PROVE FALSE
  BY <1>1, <1>5 DEF CallEngine, StartImport, StartAdopt, StartRestore, StartCommit, Start
<1>6. ASSUME NEW s \in Clients, ShellWorks(s) PROVE EngineWorks(s)
  BY <1>1, <1>5, <1>6 DEF ShellWorks, ReadState, Lookup, EmptyFile, FillFile, Fetch, Refused,
       ListAll, NextRecord, EngineReturns, PlanDraft, PutDraft, CreateBranch, DeleteBranch
<1>. QED
  BY <1>2, <1>3, <1>4, <1>6 DEF CommandsNext

(* The invariant of the commands, the file and the engine under them.      *)
THEOREM CommandsInvariance == CommandsSpec => []CommandsInv
<1>. QED
  BY InitCommandsInv, NextCommandsInv, PTL DEF CommandsSpec

(* Whatever the two command surfaces do to the store is what the engine    *)
(* does for clients that call its operations one by one (make_engine,      *)
(* interfaces/actions.py): all that is proved of Engine holds of them.     *)
THEOREM CommandsRunEngine == CommandsSpec => Spec
<1>1. CommandsInit => Init
  BY DEF CommandsInit
<1>2. CommandsInv /\ [CommandsNext]_commandVars => [Next]_vars
  BY StepIsEngine
<1>. QED
  BY <1>1, <1>2, CommandsInvariance, PTL DEF CommandsSpec, Spec

(* An exit code tells what was done (main of cli/main.py, and the envelope *)
(* of the MCP server): 4 that nothing was, and 1, 2 and 5 too unless the   *)
(* command was about all records.                                          *)
THEOREM ExitsTell == CommandsSpec => []ExitTellsEffect
<1>1. CommandsInv => ExitTellsEffect
  BY DEF CommandsInv, CommandsOK, CommandOK, EffectOK, ExitTellsEffect
<1>. QED
  BY <1>1, CommandsInvariance, PTL

(* Whoever is the author of a row or a draft may write, and was identified *)
(* (authorize_mutation, resolve_identity).                                 *)
THEOREM OnlyWritersWrite == CommandsSpec => []WritersMayWrite
<1>1. CommandsInv => WritersMayWrite
  <2>. SUFFICES ASSUME CommandsInv PROVE WritersMayWrite
    OBVIOUS
  <2>1. \A a : Provable(a) <=> ProvableBy(policy, a)
    BY DEF Provable, ProvableBy
  <2>2. ASSUME NEW r \in Records, NEW i \in DOMAIN history[r]
        PROVE  history[r][i].op \in policy.adminActions => authors[r][i] \in policy.admins
    BY DEF CommandsInv, RowsOK
  <2>3. ASSUME NEW r \in Records, NEW i \in DOMAIN authors[r]
        PROVE  MayWrite(policy, authors[r][i])
    BY DEF CommandsInv, RowsOK
  <2>4. ASSUME NEW b \in Drafts, NEW r \in Records, drafts[b][r] # None
        PROVE  MayWrite(policy, drafts[b][r].author)
    BY <2>4 DEF CommandsInv, DraftsOK
  <2>5. ASSUME NEW a \in UNION ({{authors[r][i] : i \in DOMAIN authors[r]} : r \in Records}
                     \cup {{drafts[b][r].author : r \in {x \in Records : drafts[b][x] # None}}
                           : b \in Drafts})
        PROVE  MayWrite(policy, a)
    BY <2>3, <2>4
  <2>. QED
    BY <2>1, <2>2, <2>5 DEF WritersMayWrite, MayWrite
<1>. QED
  BY <1>1, CommandsInvariance, PTL

(* A commit without --branch reaches the runtime only if the last switch   *)
(* was to the default branch or another one took the file from under it    *)
(* (_active_branch, cli/main.py).                                          *)
THEOREM DraftsStayDrafts == CommandsSpec => CommitStaysOnDraft
<1>1. ASSUME CommandsInv, [CommandsNext]_commandVars, NEW s \in Clients, Versions(s),
             cmd[s].told # Main, policy.branching
      PROVE  cmd[s].read = None \/ cmd[s].read.env = OtherEnv
  <2>1. cmd'[s].wrote /\ ~cmd[s].wrote /\ history' # history
    BY <1>1 DEF Versions
  <2>2. PICK t \in Clients : EngineWorks(t)
    BY <1>1, <2>1, OnlyEngineWorks
  <2>3. t = s
    BY <1>1, <2>1, <2>2 DEF EngineWorks, SetCmd, CommandsInv, CommandsOK
  <2>4. cmd[s].pc = "engine" /\ LineOK(policy, cmd[s]) /\ cmd[s] \in Command
    BY <1>1, <2>2, <2>3, CommandFields DEF EngineWorks
  <2>5. cmd[s].read \in File
    BY <2>4 DEF Command
  <2>. QED
    BY <1>1, <2>4, <2>5 DEF LineOK, File
<1>2. CommandsInv /\ [CommandsNext]_commandVars
        => [\A s \in Clients : Versions(s) /\ cmd[s].told # Main /\ policy.branching
              => cmd[s].read = None \/ cmd[s].read.env = OtherEnv]_commandVars
  BY <1>1
<1>. QED
  BY <1>2, CommandsInvariance, PTL DEF CommandsSpec, CommitStaysOnDraft

=============================================================================
