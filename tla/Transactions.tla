---------------------------- MODULE Transactions ----------------------------
(***************************************************************************)
(* What Store takes as one step, apply and apply_many, statement by        *)
(* statement as the two adapters (src/cfg/adapters/mongo.py, postgres.py)  *)
(* send it to their database.                                              *)
(*                                                                         *)
(* Postgres runs it at READ COMMITTED: every statement sees what is        *)
(* committed when it runs; SELECT ... FOR UPDATE and writes lock rows      *)
(* (nothing, where there is no row) and wait for the rows others locked.   *)
(* MongoDB runs it on the snapshot of its first read: a write to what      *)
(* another one wrote, committed or not, aborts the transaction with a      *)
(* transient error.  Both adapters try a transaction aborted by the        *)
(* database again, up to MaxAttempts times; no other error is tried again. *)
(***************************************************************************)
EXTENDS Store, FiniteSets, SequencesExt

CONSTANTS
  Clients,     \* the processes that call apply or apply_many, once each
  MaxAttempts, \* tries of a transaction: range(3)
  Busy         \* the records the application may write, each once, and that
               \* calls of apply name

(* With one value of the ignore_fields KeepsIgnored makes no difference,   *)
(* and one run can have both backends.                                     *)
ASSUME OneIgnored == \E i \in Ignored : Ignored = {i}

ASSUME AttemptAssumption == MaxAttempts \in Nat \ {0} /\ Busy \subseteq Records

(* A database has finitely many records: ApplySeveral takes them in turn.  *)
ASSUME RecordsAssumption == IsFiniteSet(Records)

VARIABLES
  backend, \* which database this is, and whether it has transactions
  twins,   \* the records that have two live documents
  moved,   \* the records the application wrote
  ref,     \* the pull request a merge marks: whose call wrote it last, or None
  wrote,   \* ghost: how many steps of each call changed what is stored
  tx       \* the transaction of each client

stored == <<live, heads, history, ref>>

txVars == <<storeVars, backend, twins, moved, ref, wrote, tx>>

-----------------------------------------------------------------------------
(* What a mongo transaction reads, as it was at its first read.            *)
Snapshot ==
  [live : [Records -> Doc \cup {None}],
   heads : [Records -> [oid : Bodies \cup {None}, seq : Nat]],
   twins : SUBSET Records]

ASSUME SnapshotAssumption == None \notin Snapshot

Backends == {"postgres", "mongo", "standalone"}

Steps == {"read_head", "read_live", "record", "check", "seed", "put", "put_ref", "commit"}

(* What a transaction locks, or conflicts on: the HEAD of a record, its    *)
(* live document, a row of its history, or the pull request.               *)
Key(kind, r, seq) == [kind |-> kind, rec |-> r, seq |-> seq]

(* A map with one more entry, and a map written over another one.          *)
With(f, x, y) == [z \in DOMAIN f \cup {x} |-> IF z = x THEN y ELSE f[z]]

Over(f, g) == [x \in DOMAIN f \cup DOMAIN g |-> IF x \in DOMAIN f THEN f[x] ELSE g[x]]

NoWrites == [live |-> <<>>, heads |-> <<>>, rows |-> <<>>, ref |-> FALSE]

NoTx == [pc |-> "idle", items |-> <<>>, order |-> <<>>, refs |-> FALSE, at |-> 1,
         ptr |-> NoHead, seen |-> None, mine |-> NoWrites, keys |-> {}, stale |-> {},
         tries |-> 0, result |-> None]

Running(p) == tx[p].pc \in Steps

Rec(p) == tx[p].order[tx[p].at]

ItemOf(p) == tx[p].items[Rec(p)]

Set(p, t) == tx' = [tx EXCEPT ![p] = t]

Fixed == UNCHANGED backend

Stay == Fixed /\ UNCHANGED <<storeVars, twins, moved, ref>>

(* Bug: an error leaves the transaction of the cached connection open.     *)
EndedInside(p, result) == [tx[p] EXCEPT !.pc = "done", !.result = result]

(* The with block ends, by an error or not: what the transaction locked is *)
(* free, and what it wrote is gone if it was not committed.                *)
Ended(p, result) == [NoTx EXCEPT !.pc = "done", !.result = result]

Raise(p, result) == Set(p, Ended(p, result))

Advance(pc, item) ==
  CASE pc = "read_head" -> IF item.expectedLive # None THEN "read_live" ELSE "record"
    [] pc = "read_live" -> "record"
    [] pc = "record" -> IF item.newDoc = None THEN "next"
                        ELSE IF item.seed THEN "check" ELSE "put"
    [] pc = "check" -> "seed"
    [] OTHER -> "next"

-----------------------------------------------------------------------------
(* What a statement of p reads: the snapshot of the first read (mongo), or *)
(* what is committed now (postgres).                                       *)
Seen(p) ==
  IF tx[p].seen # None THEN tx[p].seen
  ELSE [live |-> live, heads |-> heads, twins |-> twins]

HeadSeen(p, r) == Seen(p).heads[r]

LiveSeen(p, r) == Seen(p).live[r]

(* Two documents where there should be one: AmbiguousConfig.               *)
TwinSeen(p, r) == r \in Seen(p).twins

(* What the put or the seed leaves in the live record.                     *)
NewLive(p) ==
  IF ItemOf(p).seed THEN RuntimeDoc(ItemOf(p).newDoc)
  ELSE PutRecord(LiveSeen(p, Rec(p)), ItemOf(p).newDoc)

(* The id of the application's table is its primary key in postgres (see   *)
(* docs/ADAPTERS.md); cfgit puts no index on a mongo collection.           *)
UniqueId == backend = "postgres"

(* The rows the statement p is about to run will lock.  A SELECT FOR       *)
(* UPDATE that finds nothing locks nothing, nor does a find; mongo leaves  *)
(* a document alone that has the new content already; and without a unique *)
(* key an insert is in nobody's way.                                       *)
Wanted(p) ==
  LET r == Rec(p)
      pc == tx[p].pc
      doc == LiveSeen(p, r)
      locks == backend = "postgres"
  IN  CASE pc = "read_head" /\ locks /\ HeadSeen(p, r) # NoHead -> {Key("head", r, 0)}
        [] pc = "read_live" /\ locks /\ doc # None -> {Key("live", r, 0)}
        [] pc = "record" -> {Key("row", r, tx[p].ptr.seq + 1)}
        [] pc = "check" /\ locks /\ doc # None -> {Key("live", r, 0)}
        [] pc = "seed" /\ UniqueId -> {Key("live", r, 0)}
        [] pc = "put" /\ doc \in Doc /\ (locks \/ NewLive(p) # doc) -> {Key("live", r, 0)}
        [] pc = "put_ref" -> {Key("ref", None, 0)}
        [] OTHER -> {}

WaitsFor(p, q) == p # q /\ Running(p) /\ Wanted(p) \cap tx[q].keys # {}

(* Postgres breaks a circle of waits by aborting one of it (40P01).        *)
Deadlocked(p) ==
  \E S \in SUBSET Clients :
    p \in S /\ \A a \in S : \E b \in S : WaitsFor(a, b)

(* Mongo aborts at once what writes where another transaction wrote.       *)
Conflicting(p) == (\E q \in Clients : WaitsFor(p, q)) \/ Wanted(p) \cap tx[p].stale # {}

(* The statement of p can run now.                                         *)
Runs(p) ==
  IF backend = "mongo" THEN ~Conflicting(p) ELSE \A q \in Clients : ~WaitsFor(p, q)

Statement(p, pc) == tx[p].pc = pc /\ Runs(p) /\ Stay

Moved(t, p) ==
  LET r == Rec(p)
      ptr == [oid |-> ItemOf(p).entry.oid, seq |-> tx[p].ptr.seq + 1]
  IN  [t EXCEPT !.mine.heads = With(@, r, ptr),
                !.keys = @ \cup {Key("head", r, 0)},
                !.at = IF @ = Len(t.order) THEN @ ELSE @ + 1,
                !.pc = IF t.at # Len(t.order) THEN "read_head"
                       ELSE IF t.refs THEN "put_ref" ELSE "commit"]

(* The statement has its locks and the transaction goes on.  The last one  *)
(* of an item moves HEAD, which nobody else can be at: whoever was has     *)
(* locked HEAD or the new row of the history.                              *)
Goes(p, t) ==
  LET next == [t EXCEPT !.keys = @ \cup Wanted(p), !.pc = Advance(@, ItemOf(p))]
  IN  Set(p, IF next.pc = "next" THEN Moved(next, p) ELSE next)

-----------------------------------------------------------------------------
(* A call of apply (one record) or apply_many.  The item of each record    *)
(* was made from what the engine read, here at the call itself; it is      *)
(* stale when another client or the application is faster.                 *)
RecordOnly(r) ==
  [newDoc |-> None, entry |-> [oid |-> HashDoc(live[r]), parent |-> heads[r].oid,
                               doc |-> StoredDoc(live[r]), op |-> "adopt", from |-> 0,
                               to |-> None],
   expectedHead |-> heads[r].oid, expectedLive |-> None, seed |-> FALSE]

RecordAndWrite(r, d, op) ==
  [newDoc |-> d, entry |-> [oid |-> HashDoc(d), parent |-> heads[r].oid,
                            doc |-> StoredDoc(d), op |-> op, from |-> 0, to |-> None],
   expectedHead |-> heads[r].oid,
   expectedLive |-> IF live[r] = None THEN None ELSE HashDoc(live[r]),
   seed |-> live[r] = None]

Calls(r) ==
  (IF live[r] # None THEN {RecordOnly(r)} ELSE {})
    \cup (IF live[r] # None \/ heads[r] # NoHead
            THEN {RecordAndWrite(r, d, IF live[r] = None THEN "restore" ELSE "commit") :
                    d \in Doc}
            ELSE {})

Call(p, order, items, refs) ==
  /\ tx[p].pc = "idle"
  /\ Set(p, IF backend = "standalone" THEN Ended(p, "atomicity_unavailable")
            ELSE [NoTx EXCEPT !.pc = "read_head", !.items = items, !.order = order,
                              !.refs = refs])
  /\ Stay

ApplyOne(p) ==
  \E r \in Busy : \E item \in Calls(r) : Call(p, <<r>>, [x \in {r} |-> item], FALSE)

(* apply_many: pr_merge, whose items all write a record that is there (here *)
(* the same document), and which marks the pull request in put_refs.       *)
ApplySeveral(p) ==
  \E order \in SetToSeqs(Records) : \E d \in Doc :
    /\ Cardinality(Records) > 1
    /\ \A r \in Records : live[r] # None
    /\ Call(p, order, [r \in Records |-> RecordAndWrite(r, d, "merge")], TRUE)

(* _apply_item.  The HEAD pointer, locked in postgres if there is one; the *)
(* first read is what a mongo transaction takes its snapshot for.          *)
ReadHead(p) ==
  LET ptr == HeadSeen(p, Rec(p))
  IN  /\ Statement(p, "read_head")
      /\ IF ptr.oid # ItemOf(p).expectedHead THEN Raise(p, "stale_head")
         ELSE Goes(p, [tx[p] EXCEPT !.ptr = ptr,
                                    !.seen = IF backend = "mongo" THEN Seen(p) ELSE None])

(* Bug: the live document is not compared with what was read before.       *)
ReadLiveUnchecked(p) == Statement(p, "read_live") /\ Goes(p, tx[p])

ReadLive(p) ==
  LET doc == LiveSeen(p, Rec(p))
  IN  /\ Statement(p, "read_live")
      /\ IF TwinSeen(p, Rec(p)) THEN Raise(p, "ambiguous")
         ELSE IF doc = None THEN Raise(p, "not_found")
         ELSE IF HashDoc(doc) # ItemOf(p).expectedLive THEN Raise(p, "stale_live")
         ELSE Goes(p, tx[p])

(* _insert_history, under the primary key of the history, and the update   *)
(* that closes the row before it.                                          *)
Record(p) ==
  LET r == Rec(p)
      seq == tx[p].ptr.seq + 1
      entry == ItemOf(p).entry
      rows == [s \in {seq, seq - 1} \ {0} |->
                 IF s = seq THEN entry ELSE CloseRow(history[r][s], entry.from)]
  IN  /\ Statement(p, "record")
      /\ IF seq \in DOMAIN history[r] THEN Raise(p, "failed")
         ELSE Goes(p, [tx[p] EXCEPT !.mine.rows = With(@, r, rows)])

(* A seed looks once more whether the document is still missing.           *)
CheckMissing(p) ==
  /\ Statement(p, "check")
  /\ IF TwinSeen(p, Rec(p)) THEN Raise(p, "ambiguous")
     ELSE IF LiveSeen(p, Rec(p)) # None THEN Raise(p, "stale_live")
     ELSE Goes(p, tx[p])

Wrote(p) == [tx[p] EXCEPT !.mine.live = With(@, Rec(p), NewLive(p))]

(* Bug: the insert is sent outside the session of the transaction.         *)
SeedOutside(p) ==
  /\ tx[p].pc = "seed" /\ Runs(p)
  /\ live' = [live EXCEPT ![Rec(p)] = IF @ = None THEN NewLive(p) ELSE @]
  /\ twins' = IF live[Rec(p)] = None THEN twins ELSE twins \cup {Rec(p)}
  /\ Goes(p, tx[p])
  /\ Fixed /\ UNCHANGED <<heads, history, clock, moved, ref>>

(* _seed_record.  In postgres an insert committed since breaks the unique  *)
(* key, if there is one; nothing is tried again.                           *)
Seed(p) ==
  /\ Statement(p, "seed")
  /\ IF UniqueId /\ live[Rec(p)] # None
       THEN Raise(p, "failed") ELSE Goes(p, Wrote(p))

(* _put_record reads the live document again for what it has to keep of it. *)
Put(p) ==
  LET doc == LiveSeen(p, Rec(p))
  IN  /\ Statement(p, "put")
      /\ IF TwinSeen(p, Rec(p)) THEN Raise(p, "ambiguous")
         ELSE IF doc = None THEN Raise(p, "not_found")
         ELSE Goes(p, IF NewLive(p) = doc THEN tx[p] ELSE Wrote(p))

(* _put_ref, after the last item.                                          *)
PutRef(p) ==
  /\ Statement(p, "put_ref")
  /\ Set(p, [tx[p] EXCEPT !.keys = @ \cup Wanted(p), !.mine.ref = TRUE, !.pc = "commit"])

(* The transaction is over for everybody else: what it wrote is what they  *)
(* compare with.                                                           *)
Outdated(t, keys) ==
  IF t.seen # None THEN [t EXCEPT !.stale = @ \cup keys] ELSE t

Again(p) == [NoTx EXCEPT !.pc = "read_head", !.items = tx[p].items, !.order = tx[p].order,
                         !.refs = tx[p].refs, !.tries = tx[p].tries + 1]

(* Bug: a commit whose answer is lost is tried again.                      *)
CommitOrRetry(p) ==
  /\ tx[p].pc = "commit"
  /\ live' = Over(tx[p].mine.live, live)
  /\ heads' = Over(tx[p].mine.heads, heads)
  /\ history' = [r \in Records |->
       IF r \in DOMAIN tx[p].mine.rows THEN Over(tx[p].mine.rows[r], history[r]) ELSE history[r]]
  /\ twins' = twins \cup {r \in DOMAIN tx[p].mine.live : tx[p].items[r].seed /\ live[r] # None}
  /\ \/ tx' = [q \in Clients |->
          IF q = p THEN Ended(p, "applied") ELSE Outdated(tx[q], tx[p].keys)]
     \/ tx' = [q \in Clients |->
          IF q = p THEN Again(p) ELSE Outdated(tx[q], tx[p].keys)]
  /\ ref' = IF tx[p].mine.ref THEN p ELSE ref
  /\ Fixed /\ UNCHANGED <<clock, moved>>

(* The commit, all or nothing; its answer may be lost on the way back.  A  *)
(* seed that was overtaken where ids are not unique makes a twin.          *)
Commit(p) ==
  LET mine == tx[p].mine
      overtaken == {r \in DOMAIN mine.live : tx[p].items[r].seed /\ live[r] # None}
  IN  /\ tx[p].pc = "commit"
      /\ live' = [r \in Records |->
           IF r \in DOMAIN mine.live \ overtaken THEN mine.live[r] ELSE live[r]]
      /\ heads' = Over(mine.heads, heads)
      /\ history' = [r \in Records |->
           IF r \in DOMAIN mine.rows THEN Over(mine.rows[r], history[r]) ELSE history[r]]
      /\ twins' = twins \cup overtaken
      /\ ref' = IF mine.ref THEN p ELSE ref
      /\ \E result \in {"applied", "lost"} :
           tx' = [q \in Clients |->
             IF q = p THEN Ended(p, result) ELSE Outdated(tx[q], tx[p].keys)]
      /\ Fixed /\ UNCHANGED <<clock, moved>>

(* The database aborts the transaction, and the adapter tries again.       *)
Abort(p) ==
  /\ Running(p)
  /\ IF backend = "mongo" THEN Conflicting(p) ELSE Deadlocked(p)
  /\ Set(p, IF tx[p].tries + 1 < MaxAttempts THEN Again(p) ELSE Ended(p, "failed"))
  /\ Stay

(* The process or its connection dies, and the database rolls back.        *)
Die(p) == Running(p) /\ Raise(p, "lost") /\ Stay

(* The application writes a record nobody has locked.                      *)
Outside(r, d) ==
  /\ r \notin moved \cup twins
  /\ \A p \in Clients : Key("live", r, 0) \notin tx[p].keys
  /\ RawWrite(r, d)
  /\ moved' = moved \cup {r}
  /\ tx' = [p \in Clients |-> Outdated(tx[p], {Key("live", r, 0)})]
  /\ Fixed /\ UNCHANGED <<twins, ref>>

-----------------------------------------------------------------------------
TxInit ==
  /\ live \in [Records -> Doc \cup {None}]
  /\ \E first \in [Records -> Bodies \cup {None}] :
       /\ \A r \in Records \ Busy : live[r] # None /\ first[r] = HashDoc(live[r])
       /\ heads = [r \in Records |->
            IF first[r] = None THEN NoHead ELSE [oid |-> first[r], seq |-> 1]]
       /\ history = [r \in Records |->
            IF first[r] = None THEN [s \in {} |-> None]
            ELSE [s \in {1} |->
              [oid |-> first[r], parent |-> None,
               doc |-> StoredDoc(CHOOSE d \in Doc : HashDoc(d) = first[r]),
               op |-> "import", from |-> 0, to |-> None]]]
  /\ clock = 0
  /\ backend \in Backends
  /\ twins = {}
  /\ moved = {}
  /\ ref = None
  /\ wrote = [p \in Clients |-> 0]
  /\ tx = [p \in Clients |-> NoTx]

(* The ghost counts the steps of a client that change what is stored.      *)
Counted(p) == wrote' = IF stored' = stored THEN wrote ELSE [wrote EXCEPT ![p] = @ + 1]

Work(p) ==
  /\ \/ ReadHead(p) \/ ReadLive(p) \/ Record(p)
     \/ CheckMissing(p) \/ Seed(p) \/ Put(p) \/ PutRef(p) \/ Commit(p) \/ Abort(p)
  /\ Counted(p)

TxNext ==
  \/ \E p \in Clients : Work(p) \/ ((ApplyOne(p) \/ ApplySeveral(p) \/ Die(p)) /\ Counted(p))
  \/ \E r \in Busy : \E d \in Doc \cup {None} : Outside(r, d) /\ UNCHANGED wrote

TxSpec == TxInit /\ [][TxNext]_txVars

(* As long as some statement can run, or some circle of waits is to be     *)
(* broken, the database does one of these things: which one is up to it.   *)
TxFairness == WF_txVars(\E p \in Clients : Work(p))

FairTxSpec == TxSpec /\ TxFairness

-----------------------------------------------------------------------------
(* What p's items come to: mongo does not touch a document that is as the  *)
(* put wants it, so that nothing keeps it as it is until the commit.       *)
Effective(p) ==
  [r \in DOMAIN tx[p].items |->
     IF backend = "mongo" /\ r \notin DOMAIN tx[p].mine.live
       THEN [tx[p].items[r] EXCEPT !.newDoc = None, !.expectedLive = None]
       ELSE tx[p].items[r]]

(* "apply(...), which atomically: verifies expected HEAD, optionally       *)
(* verifies expected live record hash, inserts a history entry, updates    *)
(* the live record if requested, moves HEAD" (docs/ADAPTERS.md), "and mark *)
(* the PR merged in one transaction" (docs/BRANCHING_PLAN.md): what the    *)
(* statements of any number of transactions do is what Store's ApplyMany   *)
(* does in one step, decided on the present store, the PR with it, and     *)
(* nothing else (but for the twins of OnlyInsertsMakeTwins).               *)
ApplyIsAtomic ==
  [][\/ UNCHANGED stored
     \/ \E p \in Clients :
          /\ tx[p].pc = "commit" /\ ApplyMany(Effective(p))
          /\ ref' = IF tx[p].refs THEN p ELSE ref
     \/ \E r \in Records : RawWrite(r, live'[r]) /\ UNCHANGED ref
     \/ twins' # twins]_txVars

(* A call that ends with a refusal or a failure has written nothing, in    *)
(* none of its statements and none of its attempts, and one that answers   *)
(* has written once, for good: only a broken connection leaves the caller  *)
(* in doubt, and whatever it is told it never wrote twice (the retry loops *)
(* of apply and apply_many, around the with blocks of the transactions).   *)
AnswerIsTrue ==
  [][\A p \in Clients : tx[p].pc # "done" /\ tx'[p].pc = "done" =>
       wrote'[p] \in CASE tx'[p].result = "applied" -> {1}
                       [] tx'[p].result = "lost" -> {0, 1}
                       [] OTHER -> {0}]_txVars

(* Two restores that both find a record missing never both insert it: each *)
(* also writes the record's HEAD (_seed_record has no other protection     *)
(* where the application's table has no unique key).  A record has two     *)
(* live documents only if the application inserted one of them.            *)
OnlyInsertsMakeTwins == twins \subseteq moved

(* Every call gets an answer, although two may lock the same records in    *)
(* different orders (_apply_many_once), wait for locks without a timeout   *)
(* and be aborted and tried again: nobody leaves a transaction open behind *)
(* an error (the connection is cached per thread, _conn_for), tries are    *)
(* bounded, and a circle of waits is broken.                               *)
CallsEnd == <>[](\A p \in Clients : ~Running(p))

-----------------------------------------------------------------------------
(* "exactly one wins; loser gets StaleHead ... (HEAD pointer, not          *)
(* seq-uniqueness)" (docs/SPEC.md): where the application writes nothing,  *)
(* no call that loses a race ends with another error of the database.      *)
LoserIsStale ==
  [][\A p \in Clients : moved = {} /\ tx'[p] # tx[p] => tx'[p].result # "failed"]_txVars
=============================================================================
