------------------------------- MODULE Store -------------------------------
(***************************************************************************)
(* The storage seam of cfgit (src/cfg/adapters): the live records of an    *)
(* application, which anybody may write, and beside them what cfgit keeps, *)
(* the history rows and the HEAD pointer of each record.  The one mutation *)
(* the engine may ask for is Apply, a single database transaction guarded  *)
(* by two comparisons: the HEAD pointer has the oid the caller read, and   *)
(* (if the caller says so) the live document still hashes to what it read. *)
(*                                                                         *)
(* A document is abstracted to the parts the code treats apart: the part   *)
(* that is hashed, what is stored and not hashed (ignore_fields, and       *)
(* ignore_paths with ignore_patterns) and the secret_fields (neither       *)
(* hashed nor stored).  Hashing is injective on the hashed part, so an oid *)
(* is a body.                                                              *)
(***************************************************************************)
EXTENDS Naturals

CONSTANTS
  Records,      \* the (collection, record_id) pairs of one env
  Bodies,       \* the values of the hashed part of a document
  RuntimeBody,  \* what a body becomes when it is written: with the id and the
                \* live_when fields the record is found by
  IgnoredFields, IgnoredPaths, \* the values of its ignore_fields and of its
                \* ignore_paths and ignore_patterns
  Secrets,      \* the values of its secret_fields
  None,         \* Python's None: no document, no oid, an open valid_to
  KeepsIgnored, \* the adapter leaves ignore_fields of the live document alone
                \* on a put: TRUE for mongo, FALSE for postgres
  MaxClock      \* bound on the clocks

Ignored == [fields : IgnoredFields, paths : IgnoredPaths]

ASSUME NoneAssumption == None \notin Bodies \cup Ignored \cup Secrets \cup Nat
ASSUME ClockAssumption == MaxClock \in Nat
ASSUME BackendAssumption == KeepsIgnored \in BOOLEAN
ASSUME RuntimeAssumption ==
  /\ RuntimeBody \in [Bodies -> Bodies]
  /\ \A b \in Bodies : RuntimeBody[RuntimeBody[b]] = RuntimeBody[b]

VARIABLES
  live,     \* the runtime document of each record, or None
  heads,    \* the HEAD pointer of each record
  history,  \* the history rows of each record, a function from seq to row
  clock     \* adapter.now(): what the clock of the next process that looks at
            \* it says

storeVars == <<live, heads, history, clock>>

Doc == [body : Bodies, ign : Ignored, sec : Secrets \cup {None}]

ASSUME DocAssumption == None \notin Doc

(* What history keeps of a document, and its oid (hashing.py).             *)
StoredDoc(d) == [d EXCEPT !.sec = None]

HashDoc(d) == d.body

OpNames == {"import", "adopt", "commit", "restore", "merge"}

Row == [oid : Bodies, parent : Bodies \cup {None}, doc : Doc, op : OpNames,
        from : Nat, to : Nat \cup {None}]

NoHead == [oid |-> None, seq |-> 0]

StoreTypeOK ==
  /\ live \in [Records -> Doc \cup {None}]
  /\ heads \in [Records -> [oid : Bodies \cup {None}, seq : Nat]]
  /\ DOMAIN history = Records
  /\ \A r \in Records : \A s \in DOMAIN history[r] :
       s \in Nat \ {0} /\ history[r][s] \in Row
  /\ clock \in 0 .. MaxClock

StoreInit ==
  /\ live \in [Records -> Doc \cup {None}]
  /\ heads = [r \in Records |-> NoHead]
  /\ history = [r \in Records |-> [s \in {} |-> None]]
  /\ clock = 0

(***************************************************************************)
(* Reads.  get_head follows the pointer to the history row it names.       *)
(***************************************************************************)
GetHead(r) ==
  IF heads[r].seq \in DOMAIN history[r]
    THEN [oid |-> history[r][heads[r].seq].oid, seq |-> heads[r].seq]
    ELSE NoHead

Exists(head) == head.seq # 0

(* The dirty test of status: a live record whose hash is not HEAD's.       *)
Clean(r) == live[r] # None /\ HashDoc(live[r]) = GetHead(r).oid

(***************************************************************************)
(* The transaction, ApplyItem by ApplyItem.  An item has the document to   *)
(* write (None: history only), the history entry without its seq, and the  *)
(* head and live oid the caller expects (None: no HEAD, and no check).     *)
(***************************************************************************)
(* Bug: the transaction trusts the HEAD the caller read.                   *)
HeadUnchecked(r, item) == TRUE

HeadFresh(r, item) == heads[r].oid = item.expectedHead

(* Bug: the transaction trusts the live document the caller read.          *)
LiveUnchecked(r, item) == TRUE

LiveFresh(r, item) ==
  item.expectedLive # None =>
    live[r] # None /\ HashDoc(live[r]) = item.expectedLive

SeqFree(r) == heads[r].seq + 1 \notin DOMAIN history[r]

(* seed_missing inserts a document that must not be there, a put replaces  *)
(* one that must.                                                          *)
Writable(r, item) ==
  item.newDoc # None => IF item.seed THEN live[r] = None ELSE live[r] # None

CanApply(r, item) ==
  HeadFresh(r, item) /\ LiveFresh(r, item) /\ SeqFree(r) /\ Writable(r, item)

(* The error the transaction raises when it cannot commit: a seed is stale *)
(* where somebody else put the record back.                                *)
Refusal(r, item) ==
  IF ~HeadFresh(r, item) THEN "stale_head"
  ELSE IF item.expectedLive # None /\ live[r] = None THEN "not_found"
  ELSE IF ~LiveFresh(r, item) THEN "stale_live"
  ELSE IF ~SeqFree(r) THEN "failed"
  ELSE IF item.seed THEN "stale_live" ELSE "not_found"

(* _runtime_doc: what is written has the id of its record and the values   *)
(* of live_when, whether or not the document that was hashed had them.  A  *)
(* live document need not have them: in postgres the columns of the table  *)
(* say them, and in mongo a null of live_when finds a missing field.       *)
RuntimeDoc(d) == [d EXCEPT !.body = RuntimeBody[d.body]]

(* _put_record.  A secret the new document lacks is taken from the current *)
(* one; mongo also leaves the current ignore_fields in place (what         *)
(* ignore_paths and ignore_patterns name is overwritten like the rest).    *)
PutPostgres(cur, new) ==
  [RuntimeDoc(new) EXCEPT !.sec = IF new.sec = None THEN cur.sec ELSE new.sec]

(* Bug: a put writes exactly the new document, secrets missing or not.     *)
PutDropsSecret(cur, new) == [RuntimeDoc(new) EXCEPT !.ign.fields = cur.ign.fields]

PutMongo(cur, new) == [PutPostgres(cur, new) EXCEPT !.ign.fields = cur.ign.fields]

PutRecord(cur, new) == IF KeepsIgnored THEN PutMongo(cur, new) ELSE PutPostgres(cur, new)

LiveAfter(r, item) ==
  IF item.newDoc = None THEN live[r]
  ELSE IF item.seed THEN RuntimeDoc(item.newDoc)
  ELSE PutRecord(live[r], item.newDoc)

(* Bug: the prior row is left open.                                        *)
LeaveOpen(row, at) == row

(* Bug: the prior row ends when the transaction runs.                      *)
CloseNow(row, at) == IF row.to = None THEN [row EXCEPT !.to = clock] ELSE row

(* The row HEAD pointed to, when it is still open, is closed at the new    *)
(* entry's valid_from.                                                     *)
CloseRow(row, at) == IF row.to = None THEN [row EXCEPT !.to = at] ELSE row

(* Bug: the new row takes HEAD's own seq.                                  *)
HistoryAtHeadSeq(r, item) ==
  [s \in DOMAIN history[r] \cup {heads[r].seq} |->
     IF s = heads[r].seq THEN item.entry ELSE history[r][s]]

HistoryAfter(r, item) ==
  LET seq == heads[r].seq + 1
  IN  [s \in DOMAIN history[r] \cup {seq} |->
         IF s = seq THEN item.entry
         ELSE IF s = heads[r].seq THEN CloseRow(history[r][s], item.entry.from)
         ELSE history[r][s]]

(* Bug: HEAD's seq is not advanced.                                        *)
HeadKeepsSeq(r, item) == [oid |-> item.entry.oid, seq |-> heads[r].seq]

HeadAfter(r, item) == [oid |-> item.entry.oid, seq |-> heads[r].seq + 1]

Apply(r, item) ==
  /\ CanApply(r, item)
  /\ live' = [live EXCEPT ![r] = LiveAfter(r, item)]
  /\ history' = [history EXCEPT ![r] = HistoryAfter(r, item)]
  /\ heads' = [heads EXCEPT ![r] = HeadAfter(r, item)]
  /\ UNCHANGED clock

(* Bug: the transaction checks the live document of one item only.         *)
SomeLiveFresh(items) ==
  /\ \E r \in DOMAIN items : LiveFresh(r, items[r])
  /\ \A r \in DOMAIN items :
       HeadFresh(r, items[r]) /\ SeqFree(r) /\ Writable(r, items[r])

AllCanApply(items) == \A r \in DOMAIN items : CanApply(r, items[r])

(* apply_many: the same for several records, in one transaction.           *)
ApplyMany(items) ==
  /\ AllCanApply(items)
  /\ live' = [r \in Records |->
       IF r \in DOMAIN items THEN LiveAfter(r, items[r]) ELSE live[r]]
  /\ history' = [r \in Records |->
       IF r \in DOMAIN items THEN HistoryAfter(r, items[r]) ELSE history[r]]
  /\ heads' = [r \in Records |->
       IF r \in DOMAIN items THEN HeadAfter(r, items[r]) ELSE heads[r]]
  /\ UNCHANGED clock

(***************************************************************************)
(* The environment: the application and its operators write the live       *)
(* records behind cfgit's back, and clocks are read.  Every process reads   *)
(* the clock of its own host, and nothing relates two readings: the next   *)
(* may be earlier than the last.                                           *)
(***************************************************************************)
RawWrite(r, d) ==
  /\ live[r] # d
  /\ live' = [live EXCEPT ![r] = d]
  /\ UNCHANGED <<heads, history, clock>>

Tick ==
  /\ clock' \in 0 .. MaxClock \ {clock}
  /\ UNCHANGED <<live, heads, history>>

(***************************************************************************)
(* Invariants of the stored data.                                          *)
(***************************************************************************)

(* The rows of a record are numbered 1, 2, ... without a gap, and HEAD has *)
(* the number and the oid of the last (the seq and head writes of          *)
(* _apply_item, mongo.py and postgres.py).                                 *)
HeadIsLastRow ==
  \A r \in Records :
    /\ DOMAIN history[r] = 1 .. heads[r].seq
    /\ heads[r].oid = IF heads[r].seq = 0 THEN None ELSE history[r][heads[r].seq].oid

(* Every row's parent_oid is the oid of the row before it, although the    *)
(* client computed it from a read made before its transaction.             *)
ParentChain ==
  \A r \in Records : \A s \in DOMAIN history[r] :
    history[r][s].parent = IF s = 1 THEN None ELSE history[r][s - 1].oid

(* Valid time has no gaps: a row ends exactly where the next one begins,   *)
(* and only the row HEAD points to is still open.                          *)
IntervalsAbut ==
  \A r \in Records : \A s \in DOMAIN history[r] :
    history[r][s].to = IF s = heads[r].seq THEN None ELSE history[r][s + 1].from

(* A record gained a version: the only steps of cfgit that write anything. *)
Versioned(r) == history'[r] # history[r]

Overwritten(r) == Versioned(r) /\ live[r] # None /\ live'[r] # live[r]

(* What makes a comparison of oids a comparison of versions: no content    *)
(* came back.                                                              *)
FreshOids(r) ==
  \A s1, s2 \in DOMAIN history[r] : history[r][s1].oid = history[r][s2].oid => s1 = s2

(* The rows the as_of_valid query finds at an instant (query_history).     *)
RowsAt(r, t) ==
  {s \in DOMAIN history[r] :
     history[r][s].from <= t /\ (history[r][s].to = None \/ t < history[r][s].to)}

(* "Reconstruction = per config, the entry whose interval contains T ...    *)
(* exactly one entry per config" (docs/SPEC.md, of the as-of query).  Half *)
(* of it holds whatever the clocks of the writers said: once any row of a  *)
(* record has begun, some row is valid at every instant, so that a system  *)
(* restore to that date does not take the record for one that was not      *)
(* there.                                                                  *)
SomeRowAtEveryInstant ==
  \A r \in Records : \A t \in 0 .. MaxClock :
    (\E s \in DOMAIN history[r] : history[r][s].from <= t) => RowsAt(r, t) # {}

(* The other half, "intervals are contiguous and non-overlapping by         *)
(* construction", does not hold: two writers' clocks differ.               *)
OneRowPerInstant ==
  \A r \in Records : \A t \in 0 .. MaxClock : \A s1, s2 \in RowsAt(r, t) : s1 = s2
=============================================================================
