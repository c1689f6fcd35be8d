------------------------ MODULE TransactionsProofs -------------------------
(***************************************************************************)
(* Proofs about Transactions, for any records, any number of clients and   *)
(* tries: the statements of transactions that interleave come to the one   *)
(* step that Store takes, on either database.                              *)
(*                                                                         *)
(* The invariant is what protects a transaction.  On postgres that is its  *)
(* locks: nobody else changes what it has a key of.  On mongo it is the    *)
(* snapshot: what another transaction changed since is stale, and of what  *)
(* is not stale the store is still as the snapshot has it.  The new row of *)
(* the history is a key on both: two transactions that have recorded the   *)
(* same record started from different HEADs, and one HEAD is gone.         *)
(***************************************************************************)
EXTENDS Transactions, FiniteSetTheorems, TLAPS

(***************************************************************************)
(* The types of what the invariant speaks of.                              *)
(***************************************************************************)
Partial(S, T) == UNION {[D -> T] : D \in SUBSET S}

HeadType == [oid : Bodies \cup {None}, seq : Nat]

Keys == [kind : {"head", "live", "row", "ref"}, rec : Records \cup {None}, seq : Nat]

Item ==
  [newDoc : Doc \cup {None}, entry : Row, expectedHead : Bodies \cup {None},
   expectedLive : Bodies \cup {None}, seed : BOOLEAN]

Rows == Partial(Nat, Row)

Writes ==
  [live : Partial(Records, Doc), heads : Partial(Records, HeadType),
   rows : Partial(Records, Rows), ref : BOOLEAN]

(* While a statement takes its effect its pc may be "next": the item is    *)
(* done but for its HEAD.                                                  *)
Transaction ==
  [pc : Steps \cup {"next"}, items : Partial(Records, Item), order : Seq(Records),
   refs : BOOLEAN, at : Nat, ptr : HeadType, seen : Snapshot \cup {None}, mine : Writes,
   keys : SUBSET Keys, stale : SUBSET Keys, tries : Nat,
   result : {None}]

-----------------------------------------------------------------------------
(***************************************************************************)
(* A transaction under way, t, in a store: lv, hs, hist, tw are its live   *)
(* records, HEADs, histories and twins, mv what the application wrote, be  *)
(* the database.                                                           *)
(***************************************************************************)
RecOf(t) == t.order[t.at]

(* The items are done, all of them.                                        *)
AllDone(t) == t.pc \in {"put_ref", "commit"}

(* The records whose items are done, and the one whose row is written.     *)
Past(t) ==
  {t.order[i] : i \in {j \in 1 .. Len(t.order) : j < t.at \/ AllDone(t)}}

Current(t) == IF t.pc \in {"check", "seed", "put", "next"} THEN {RecOf(t)} ELSE {}

(* The item a step is for.                                                 *)
Fits(pc, item) ==
  /\ pc = "read_live" => item.expectedLive # None
  /\ pc \in {"check", "seed"} => item.seed
  /\ pc = "put" => item.newDoc # None /\ ~item.seed

(* An item either keeps the live record, seeds it or puts it.              *)
ItemOK(item) ==
  /\ item.newDoc = None => ~item.seed /\ item.expectedLive = None
  /\ item.newDoc # None => (item.seed <=> item.expectedLive = None)

(* Where a transaction is in its items.                                    *)
Shape(t, be) ==
  /\ t \in Transaction
  /\ t.at \in 1 .. Len(t.order)
  /\ \A i, j \in 1 .. Len(t.order) : t.order[i] = t.order[j] => i = j
  /\ DOMAIN t.items = {t.order[i] : i \in 1 .. Len(t.order)}
  /\ \A r \in DOMAIN t.items : ItemOK(t.items[r])
  /\ Fits(t.pc, t.items[RecOf(t)])
  /\ AllDone(t) => t.at = Len(t.order)
  /\ t.pc = "put_ref" => t.refs
  /\ t.mine.ref <=> t.refs /\ t.pc = "commit"
  /\ DOMAIN t.mine.heads = Past(t)
  /\ DOMAIN t.mine.rows = Past(t) \cup Current(t)
  /\ DOMAIN t.mine.live \subseteq DOMAIN t.mine.rows
  /\ be \in {"postgres", "mongo"}
  /\ be = "postgres" => t.seen = None
  /\ be = "mongo" /\ t.seen = None =>
       t.pc = "read_head" /\ DOMAIN t.mine.rows = {} /\ t.keys = {}
  /\ t.seen = None => t.stale = {}

(* The rows an item writes: the new one, and the one before it closed.     *)
NewRows(rows, seq, entry) ==
  [s \in {seq, seq - 1} \ {0} |-> IF s = seq THEN entry ELSE CloseRow(rows[s], entry.from)]

(* A record whose row is written has the HEAD the item expects, and keeps  *)
(* it: the row to come next is the transaction's.                          *)
RecordedOK(t, r, hs, hist) ==
  /\ hs[r].oid = t.items[r].expectedHead
  /\ Key("row", r, hs[r].seq + 1) \in t.keys
  /\ t.mine.rows[r] = NewRows(hist[r], hs[r].seq + 1, t.items[r].entry)
  /\ t.seen # None => hs[r] = t.seen.heads[r]

(* So has one whose HEAD is moved; it has the key of HEAD, which otherwise *)
(* only the reader of a HEAD has, on postgres.                             *)
HeadsOK(t, hs, hist) ==
  /\ \A r \in DOMAIN t.mine.rows : RecordedOK(t, r, hs, hist)
  /\ \A r \in DOMAIN t.mine.heads :
       /\ t.mine.heads[r] = [oid |-> t.items[r].entry.oid, seq |-> hs[r].seq + 1]
       /\ Key("head", r, 0) \in t.keys
  /\ \A r \in Records : Key("head", r, 0) \in t.keys =>
       r \in DOMAIN t.mine.heads \/ (t.seen = None /\ hs[r].seq # 0)

(* The pointer that was read: the snapshot's, or locked, or there is none. *)
PtrOK(t, hs) ==
  t.pc \in {"read_live", "record", "check", "seed", "put", "next"} =>
    /\ t.ptr.oid = t.items[RecOf(t)].expectedHead
    /\ t.seen # None => t.ptr = t.seen.heads[RecOf(t)]
    /\ t.seen = None /\ t.ptr # NoHead =>
         Key("head", RecOf(t), 0) \in t.keys /\ hs[RecOf(t)] = t.ptr
    /\ t.pc \in {"check", "seed", "put", "next"} => hs[RecOf(t)] = t.ptr

(* The live record as the transaction sees it.                             *)
LiveIn(t, r, lv) == IF t.seen # None THEN t.seen.live[r] ELSE lv[r]

(* It was compared with what the engine had read, and on postgres locked.  *)
ReadOK(t, r, lv) ==
  /\ LiveIn(t, r, lv) \in Doc
  /\ HashDoc(LiveIn(t, r, lv)) = t.items[r].expectedLive
  /\ t.seen = None => Key("live", r, 0) \in t.keys

(* It was missing, and on postgres stays so until the commit.              *)
SeededOK(t, r, lv) ==
  /\ r \in DOMAIN t.mine.live
  /\ t.mine.live[r] = RuntimeDoc(t.items[r].newDoc)
  /\ LiveIn(t, r, lv) = None
  /\ t.seen = None => Key("live", r, 0) \in t.keys
  /\ t.seen # None => r \notin t.seen.twins

(* It was put, if that changes it.                                         *)
PutOK(t, r, lv) ==
  /\ ReadOK(t, r, lv)
  /\ r \in DOMAIN t.mine.live =>
       /\ Key("live", r, 0) \in t.keys
       /\ t.mine.live[r] = PutRecord(LiveIn(t, r, lv), t.items[r].newDoc)
  /\ r \notin DOMAIN t.mine.live /\ t.seen = None =>
       PutRecord(lv[r], t.items[r].newDoc) = lv[r]

WroteOK(t, r, lv) ==
  IF t.items[r].newDoc = None THEN r \notin DOMAIN t.mine.live
  ELSE IF t.items[r].seed THEN SeededOK(t, r, lv) ELSE PutOK(t, r, lv)

LiveOK(t, lv) ==
  /\ t.pc \in {"record", "put"} /\ t.items[RecOf(t)].expectedLive # None =>
       ReadOK(t, RecOf(t), lv)
  /\ t.pc = "seed" /\ t.seen # None =>
       t.seen.live[RecOf(t)] = None /\ RecOf(t) \notin t.seen.twins
  /\ t.pc \in {"check", "seed", "put"} => RecOf(t) \notin DOMAIN t.mine.live
  /\ \A r \in DOMAIN t.mine.rows :
       (t.pc \in {"check", "seed", "put"} /\ r = RecOf(t)) \/ WroteOK(t, r, lv)

(* What is not stale is as the snapshot has it, and the transaction wrote  *)
(* nothing that is stale.                                                  *)
LiveAsSeen(t, r, lv) ==
  Key("live", r, 0) \notin t.stale /\ t.seen.live[r] # None => lv[r] = t.seen.live[r]

RecordAsSeen(t, r, lv, hs, tw, mv) ==
  Key("row", r, t.seen.heads[r].seq + 1) \notin t.stale =>
    /\ hs[r] = t.seen.heads[r]
    /\ r \in tw => r \in t.seen.twins
    /\ r \notin mv => lv[r] = t.seen.live[r]

SnapshotOK(t, lv, hs, tw, mv) ==
  /\ t.seen # None =>
       \A r \in Records : LiveAsSeen(t, r, lv) /\ RecordAsSeen(t, r, lv, hs, tw, mv)
  /\ \A k \in t.keys : k.kind # "head" => k \notin t.stale

TxOK(t, be, lv, hs, hist, tw, mv) ==
  /\ Shape(t, be)
  /\ HeadsOK(t, hs, hist)
  /\ PtrOK(t, hs)
  /\ LiveOK(t, lv)
  /\ SnapshotOK(t, lv, hs, tw, mv)

(* A transaction that has not begun, or has ended: no keys are left.       *)
OverOK(t) == t.pc \in {"idle", "done"} /\ t.keys = {} /\ t.seen = None

(* The store between the statements.                                       *)
StoreInv ==
  /\ live \in [Records -> Doc \cup {None}]
  /\ heads \in [Records -> HeadType]
  /\ history \in [Records -> Rows]
  /\ clock \in Nat
  /\ \A r \in Records : heads[r].oid = None <=> heads[r].seq = 0
  /\ HeadIsLastRow
  /\ backend \in Backends
  /\ twins \subseteq Records /\ moved \subseteq Records
  /\ backend # "mongo" => twins = {}
  /\ OnlyInsertsMakeTwins

KeysAreOnes == \A p, q \in Clients : p # q => tx[p].keys \cap tx[q].keys = {}

TxsOK ==
  /\ DOMAIN tx = Clients
  /\ \A p \in Clients :
       OverOK(tx[p]) \/ (tx[p].pc # "next"
                          /\ TxOK(tx[p], backend, live, heads, history, twins, moved))

(* The inductive invariant.                                                *)
IInv == StoreInv /\ TxsOK /\ KeysAreOnes

-----------------------------------------------------------------------------
(***************************************************************************)
(* Lemmas about data.                                                      *)
(***************************************************************************)

(* The empty map is a map of any type.                                     *)
LEMMA EmptyIsPartial ==
  ASSUME NEW S, NEW T
  PROVE  <<>> \in Partial(S, T) /\ DOMAIN <<>> = {}
<1>1. DOMAIN <<>> = {}
  OBVIOUS
<1>2. <<>> \in [{} -> T]
  BY <1>1
<1>3. {} \in SUBSET S
  OBVIOUS
<1>. QED
  BY <1>1, <1>2, <1>3 DEF Partial

(* What a map with one entry more is.                                      *)
LEMMA WithIsPartial ==
  ASSUME NEW S, NEW T, NEW f \in Partial(S, T), NEW x \in S, NEW y \in T
  PROVE  /\ With(f, x, y) \in Partial(S, T)
         /\ DOMAIN With(f, x, y) = DOMAIN f \cup {x}
         /\ With(f, x, y)[x] = y
         /\ \A z \in DOMAIN f \ {x} : With(f, x, y)[z] = f[z]
<1>1. PICK D \in SUBSET S : f \in [D -> T]
  BY DEF Partial
<1>2. With(f, x, y) = [z \in D \cup {x} |-> IF z = x THEN y ELSE f[z]]
  BY <1>1 DEF With
<1>3. With(f, x, y) \in [D \cup {x} -> T] /\ D \cup {x} \in SUBSET S
  BY <1>1, <1>2
<1>. QED
  BY <1>1, <1>2, <1>3 DEF Partial

(* The values of a map are of its type.                                    *)
LEMMA PartialValues ==
  ASSUME NEW S, NEW T, NEW f \in Partial(S, T)
  PROVE  DOMAIN f \subseteq S /\ \A x \in DOMAIN f : f[x] \in T
BY DEF Partial

(* None is none of the things it stands beside.                            *)
LEMMA NoneIsApart == None \notin Bodies /\ None \notin Doc /\ None \notin Snapshot
BY NoneAssumption, DocAssumption, SnapshotAssumption

(* A transaction that is over has no keys and no snapshot.                 *)
LEMMA OverFacts ==
  ASSUME NEW t, OverOK(t)
  PROVE  /\ t.pc \in {"idle", "done"} /\ t.pc \notin Steps
         /\ t.keys = {} /\ t.seen = None
         /\ \A ks : Outdated(t, ks) = t
BY DEF OverOK, Steps, Outdated

(* A transaction under way is one the invariant speaks of.                 *)
LEMMA UnderWay ==
  ASSUME IInv, NEW p \in Clients, tx[p].pc \in Steps
  PROVE  TxOK(tx[p], backend, live, heads, history, twins, moved)
BY OverFacts DEF IInv, TxsOK

(* What an ended transaction leaves is over.                               *)
LEMMA EndedIsOver ==
  ASSUME NEW p, NEW result
  PROVE  OverOK(Ended(p, result)) /\ Ended(p, result).keys = {}
BY DEF Ended, NoTx, OverOK

-----------------------------------------------------------------------------
(***************************************************************************)
(* A step of one transaction that leaves the store alone.                  *)
(***************************************************************************)

(* It is enough that the transaction itself stays right, and its keys its  *)
(* own.                                                                    *)
LEMMA OwnStep ==
  ASSUME IInv, NEW p \in Clients, NEW t, Set(p, t), Stay,
         OverOK(t) \/ (t.pc # "next"
                         /\ TxOK(t, backend, live, heads, history, twins, moved)),
         \A q \in Clients \ {p} : t.keys \cap tx[q].keys = {}
  PROVE  IInv'
<1>1. /\ DOMAIN tx' = Clients /\ tx'[p] = t
      /\ \A q \in Clients \ {p} : tx'[q] = tx[q]
  BY DEF IInv, TxsOK, Set
<1>2. UNCHANGED <<live, heads, history, clock, backend, twins, moved>>
  BY DEF Stay, Fixed, storeVars
<1>3. StoreInv'
  BY <1>2 DEF IInv, StoreInv, HeadIsLastRow, OnlyInsertsMakeTwins
<1>4. TxsOK'
  BY <1>1, <1>2 DEF IInv, TxsOK
<1>5. KeysAreOnes'
  BY <1>1 DEF IInv, KeysAreOnes
<1>. QED
  BY <1>3, <1>4, <1>5 DEF IInv

(* A refusal ends the transaction.                                         *)
LEMMA RaiseStep ==
  ASSUME IInv, NEW p \in Clients, Stay,
         NEW result \in {"applied", "lost", "failed", "stale_head", "stale_live",
                         "not_found", "ambiguous", "atomicity_unavailable"},
         Raise(p, result)
  PROVE  IInv'
BY EndedIsOver, OwnStep DEF Raise

(* A statement that runs wants nothing another one has, and on mongo       *)
(* nothing that is stale.                                                  *)
LEMMA RunsFree ==
  ASSUME NEW p \in Clients, tx[p].pc \in Steps, Runs(p), backend \in {"postgres", "mongo"}
  PROVE  /\ \A q \in Clients \ {p} : Wanted(p) \cap tx[q].keys = {}
         /\ backend = "mongo" => Wanted(p) \cap tx[p].stale = {}
BY DEF Runs, Conflicting, WaitsFor, Running

(* What is right of an item that was written stays so when the transaction *)
(* gets more keys.                                                         *)
LEMMA WroteGrows ==
  ASSUME NEW t, NEW n, NEW r, NEW lv, n.items = t.items, n.seen = t.seen,
         r \in DOMAIN n.mine.live <=> r \in DOMAIN t.mine.live,
         r \in DOMAIN t.mine.live => n.mine.live[r] = t.mine.live[r],
         t.keys \subseteq n.keys, WroteOK(t, r, lv)
  PROVE  WroteOK(n, r, lv)
BY DEF WroteOK, SeededOK, PutOK, ReadOK, LiveIn

(* So does what is right of a record whose row is written.                 *)
LEMMA RecordedGrows ==
  ASSUME NEW t, NEW n, NEW r, NEW hs, NEW hist, n.items = t.items, n.seen = t.seen,
         n.mine.rows[r] = t.mine.rows[r], t.keys \subseteq n.keys, RecordedOK(t, r, hs, hist)
  PROVE  RecordedOK(n, r, hs, hist)
BY DEF RecordedOK

(* The record an item is for is none whose item is done.                   *)
LEMMA RecIsNew ==
  ASSUME NEW t, NEW be, Shape(t, be), ~AllDone(t)
  PROVE  /\ RecOf(t) \in Records /\ RecOf(t) \in DOMAIN t.items
         /\ t.items[RecOf(t)] \in Item /\ ItemOK(t.items[RecOf(t)])
         /\ RecOf(t) \notin Past(t)
<1>1. t.order \in Seq(Records) /\ t.at \in 1 .. Len(t.order) /\ t.items \in Partial(Records, Item)
  BY DEF Shape, Transaction
<1>2. RecOf(t) \in Records /\ RecOf(t) \in DOMAIN t.items
  BY <1>1 DEF RecOf, Shape
<1>3. t.items[RecOf(t)] \in Item
  BY <1>1, <1>2, PartialValues
<1>4. RecOf(t) \notin Past(t)
  BY <1>1 DEF RecOf, Past, Shape, AllDone
<1>. QED
  BY <1>2, <1>3, <1>4 DEF Shape

-----------------------------------------------------------------------------
(***************************************************************************)
(* The end of an item: HEAD is moved.                                      *)
(***************************************************************************)

(* What changes in the transaction.                                        *)
IsMoved(n, t) ==
  /\ n \in Transaction
  /\ n.items = t.items /\ n.order = t.order /\ n.refs = t.refs /\ n.ptr = t.ptr
  /\ n.seen = t.seen /\ n.mine.ref = t.mine.ref
  /\ n.stale = t.stale /\ n.mine.live = t.mine.live /\ n.mine.rows = t.mine.rows
  /\ n.keys = t.keys \cup {Key("head", RecOf(t), 0)}
  /\ n.mine.heads =
       With(t.mine.heads, RecOf(t),
            [oid |-> t.items[RecOf(t)].entry.oid, seq |-> t.ptr.seq + 1])
  /\ IF t.at = Len(t.order)
       THEN n.at = t.at /\ n.pc = IF t.refs THEN "put_ref" ELSE "commit"
     ELSE n.at = t.at + 1 /\ n.pc = "read_head"

(* Moved leaves such a transaction.                                        *)
LEMMA MovedFields ==
  ASSUME NEW p, NEW t, NEW be, Shape(t, be), t.pc = "next",
         t.items = tx[p].items, t.order = tx[p].order, t.at = tx[p].at, t.ptr = tx[p].ptr
  PROVE  IsMoved(Moved(t, p), t)
<1> DEFINE r == RecOf(t)
<1> DEFINE ptr == [oid |-> t.items[r].entry.oid, seq |-> t.ptr.seq + 1]
<1> DEFINE hs == With(t.mine.heads, r, ptr)
<1> DEFINE key == Key("head", r, 0)
<1> DEFINE at == IF t.at = Len(t.order) THEN t.at ELSE t.at + 1
<1> DEFINE pc == IF t.at # Len(t.order) THEN "read_head"
                 ELSE IF t.refs THEN "put_ref" ELSE "commit"
<1> DEFINE n == [t EXCEPT !.mine = [t.mine EXCEPT !.heads = hs], !.keys = t.keys \cup {key},
                          !.at = at, !.pc = pc]
<1>1. r \in Records /\ t.items[r] \in Item
  BY RecIsNew DEF AllDone
<1>2. t \in Transaction /\ t.mine.heads \in Partial(Records, HeadType) /\ t.ptr \in HeadType
  BY DEF Shape, Transaction, Writes
<1>3. ptr \in HeadType
  BY <1>1, <1>2 DEF HeadType, Item, Row
<1>4. hs \in Partial(Records, HeadType)
  BY <1>1, <1>2, <1>3, WithIsPartial
<1>5. key \in Keys
  BY <1>1 DEF Key, Keys
<1>6. at \in Nat /\ pc \in Steps
  BY <1>2 DEF Transaction, Steps
<1>7. Moved(t, p) = n
  <2>1. Rec(p) = r /\ ItemOf(p) = t.items[r] /\ tx[p].ptr.seq = t.ptr.seq
    BY DEF Rec, RecOf, ItemOf
  <2>2. "mine" \in DOMAIN t /\ "keys" \in DOMAIN t
    BY <1>2 DEF Transaction
  <2>. QED
    BY <1>2, <2>1 DEF Moved, Transaction
<1> HIDE DEF r, ptr, hs, key, at, pc
<1>8. [t.mine EXCEPT !.heads = hs] \in Writes
  BY <1>2, <1>4 DEF Transaction, Writes
<1> DEFINE mine == [t.mine EXCEPT !.heads = hs]
<1>9. mine.live = t.mine.live /\ mine.rows = t.mine.rows /\ mine.heads = hs
        /\ mine.ref = t.mine.ref
  BY <1>2 DEF Transaction, Writes
<1> HIDE DEF mine
<1>10. /\ [t EXCEPT !.mine = mine, !.keys = t.keys \cup {key}, !.at = at, !.pc = pc]
             \in Transaction
       /\ n.mine = mine /\ n.keys = t.keys \cup {key} /\ n.at = at /\ n.pc = pc
       /\ n.items = t.items /\ n.order = t.order /\ n.ptr = t.ptr /\ n.seen = t.seen
       /\ n.stale = t.stale /\ n.refs = t.refs
  BY <1>2, <1>5, <1>6, <1>8 DEF Transaction, mine
<1>11. n \in Transaction
  BY <1>10 DEF mine
<1> HIDE DEF n
<1>. QED
  BY <1>7, <1>9, <1>10, <1>11 DEF IsMoved, r, ptr, hs, key, at, pc

(* The records done are one more.                                          *)
LEMMA MovedPast ==
  ASSUME NEW t, NEW n, NEW be, Shape(t, be), t.pc = "next", IsMoved(n, t)
  PROVE  Past(n) = Past(t) \cup {RecOf(t)}
<1>1. t.order \in Seq(Records) /\ Len(t.order) \in Nat /\ t.at \in 1 .. Len(t.order)
  BY DEF Shape, Transaction
<1>2. n.order = t.order /\ ~AllDone(t)
  BY DEF IsMoved, AllDone
<1>3. CASE t.at = Len(t.order)
  <2>1. AllDone(n)
    BY <1>3 DEF IsMoved, AllDone
  <2>2. \A i \in 1 .. Len(t.order) : i < t.at \/ i = t.at
    BY <1>1, <1>3
  <2>. QED
    BY <1>1, <1>2, <2>1, <2>2 DEF Past, RecOf
<1>4. CASE t.at # Len(t.order)
  <2>1. ~AllDone(n) /\ n.at = t.at + 1
    BY <1>4 DEF IsMoved, AllDone
  <2>2. \A i \in 1 .. Len(t.order) : i < t.at + 1 <=> i < t.at \/ i = t.at
    BY <1>1
  <2>. QED
    BY <1>1, <1>2, <2>1, <2>2 DEF Past, RecOf
<1>. QED
  BY <1>3, <1>4

(* A transaction that stays right when its HEAD is moved, as nobody else   *)
(* has the key of HEAD: who read HEAD has locked it, and who moved it has  *)
(* the same new row.                                                       *)
LEMMA MovedIsRight ==
  ASSUME NEW t, NEW n, NEW be, NEW lv, NEW hs, NEW hist, NEW tw, NEW mv,
         TxOK(t, be, lv, hs, hist, tw, mv), t.pc = "next", IsMoved(n, t)
  PROVE  TxOK(n, be, lv, hs, hist, tw, mv)
<1> DEFINE r == RecOf(t)
<1>1. Shape(t, be) /\ HeadsOK(t, hs, hist) /\ PtrOK(t, hs) /\ LiveOK(t, lv)
        /\ SnapshotOK(t, lv, hs, tw, mv)
  BY DEF TxOK
<1>2. t \in Transaction /\ n \in Transaction /\ t.at \in 1 .. Len(t.order) /\ Len(t.order) \in Nat
  BY <1>1 DEF Shape, Transaction, IsMoved
<1>3. r \in Records /\ r \notin Past(t)
  BY <1>1, RecIsNew DEF AllDone
<1>4. Past(n) = Past(t) \cup {r} /\ Current(n) = {} /\ Current(t) = {r}
  <2>1. n.pc \in {"put_ref", "commit", "read_head"}
    BY DEF IsMoved
  <2>. QED
    BY <1>1, <2>1, MovedPast DEF Current
<1>5. DOMAIN t.mine.heads = Past(t) /\ DOMAIN t.mine.rows = Past(t) \cup {r}
  BY <1>1, <1>4 DEF Shape
<1>6. /\ DOMAIN n.mine.heads = Past(t) \cup {r}
      /\ n.mine.heads[r] = [oid |-> t.items[r].entry.oid, seq |-> t.ptr.seq + 1]
      /\ \A z \in Past(t) : n.mine.heads[z] = t.mine.heads[z]
  BY <1>3, <1>5 DEF IsMoved, With
<1>7. hs[r] = t.ptr
  BY <1>1 DEF PtrOK
<1>8. Shape(n, be)
  <2>1. n.at \in 1 .. Len(n.order) /\ (AllDone(n) => n.at = Len(n.order))
          /\ n.pc \in {"put_ref", "commit", "read_head"}
    BY <1>2 DEF IsMoved, AllDone
  <2>5. (n.pc = "put_ref" => n.refs) /\ (n.mine.ref <=> n.refs /\ n.pc = "commit")
    BY <1>1 DEF IsMoved, Shape
  <2>2. Fits(n.pc, n.items[RecOf(n)])
    BY <2>1 DEF Fits
  <2>3. DOMAIN n.mine.rows = Past(n) \cup Current(n)
    BY <1>4, <1>5 DEF IsMoved
  <2>4. be = "mongo" => n.seen # None
    BY <1>1 DEF Shape, IsMoved
  <2>. QED
    BY <1>1, <1>2, <1>4, <1>6, <2>1, <2>2, <2>3, <2>4, <2>5 DEF Shape, IsMoved
<1>9. HeadsOK(n, hs, hist)
  <2>1. ASSUME NEW x \in DOMAIN n.mine.rows PROVE RecordedOK(n, x, hs, hist)
    <3>1. RecordedOK(t, x, hs, hist)
      BY <1>1, <2>1 DEF HeadsOK, IsMoved
    <3>. QED
      BY <3>1, RecordedGrows DEF IsMoved
  <2>2. ASSUME NEW x \in DOMAIN n.mine.heads
        PROVE  /\ n.mine.heads[x] = [oid |-> n.items[x].entry.oid, seq |-> hs[x].seq + 1]
               /\ Key("head", x, 0) \in n.keys
    <3>1. CASE x = r
      BY <1>6, <1>7, <3>1 DEF IsMoved
    <3>2. CASE x \in Past(t)
      BY <1>1, <1>5, <1>6, <3>2 DEF HeadsOK, IsMoved
    <3>. QED
      BY <1>6, <3>1, <3>2
  <2>3. ASSUME NEW x \in Records, Key("head", x, 0) \in n.keys
        PROVE  x \in DOMAIN n.mine.heads \/ (n.seen = None /\ hs[x].seq # 0)
    <3>1. CASE Key("head", x, 0) = Key("head", r, 0)
      BY <1>6, <3>1 DEF Key
    <3>2. CASE Key("head", x, 0) \in t.keys
      BY <1>1, <1>5, <1>6, <3>2 DEF HeadsOK, IsMoved
    <3>. QED
      BY <2>3, <3>1, <3>2 DEF IsMoved
  <2>. QED
    BY <2>1, <2>2, <2>3 DEF HeadsOK
<1>10. PtrOK(n, hs)
  BY DEF IsMoved, PtrOK
<1>11. LiveOK(n, lv)
  <2>1. ASSUME NEW x \in DOMAIN n.mine.rows PROVE WroteOK(n, x, lv)
    <3>1. WroteOK(t, x, lv)
      BY <1>1, <2>1 DEF LiveOK, IsMoved
    <3>. QED
      BY <3>1, WroteGrows DEF IsMoved
  <2>2. n.pc \in {"put_ref", "commit", "read_head"}
    BY DEF IsMoved
  <2>. QED
    BY <2>1, <2>2 DEF LiveOK
<1>12. SnapshotOK(n, lv, hs, tw, mv)
  <2>1. Key("head", r, 0).kind = "head"
    BY DEF Key
  <2>. QED
    BY <1>1, <2>1 DEF SnapshotOK, LiveAsSeen, RecordAsSeen, IsMoved
<1>. QED
  BY <1>8, <1>9, <1>10, <1>11, <1>12 DEF TxOK

(* Nobody else has the key of the HEAD that is moved.                      *)
LEMMA HeadIsFree ==
  ASSUME IInv, NEW p \in Clients, NEW q \in Clients \ {p}, NEW t, t.pc = "next",
         TxOK(t, backend, live, heads, history, twins, moved),
         t.keys \cap tx[q].keys = {}
  PROVE  Key("head", RecOf(t), 0) \notin tx[q].keys
<1> DEFINE r == RecOf(t)
<1>1. SUFFICES ASSUME Key("head", r, 0) \in tx[q].keys PROVE FALSE
  OBVIOUS
<1>2. TxOK(tx[q], backend, live, heads, history, twins, moved)
  BY <1>1, OverFacts DEF IInv, TxsOK
<1>3. Shape(t, backend) /\ Shape(tx[q], backend) /\ HeadsOK(tx[q], heads, history)
        /\ HeadsOK(t, heads, history) /\ PtrOK(t, heads)
  BY <1>2 DEF TxOK
<1>4. r \in Records
  BY <1>3, RecIsNew DEF AllDone
<1>5. Key("row", r, heads[r].seq + 1) \in t.keys
  BY <1>3 DEF HeadsOK, RecordedOK, Shape, Current
<1>6. r \in DOMAIN tx[q].mine.heads \/ (tx[q].seen = None /\ heads[r].seq # 0)
  BY <1>1, <1>3, <1>4 DEF HeadsOK
<1>7. CASE r \in DOMAIN tx[q].mine.heads
  <2>1. r \in DOMAIN tx[q].mine.rows
    BY <1>3, <1>7 DEF Shape
  <2>2. Key("row", r, heads[r].seq + 1) \in tx[q].keys
    BY <1>3, <2>1 DEF HeadsOK, RecordedOK
  <2>. QED
    BY <1>5, <2>2
<1>8. CASE tx[q].seen = None /\ heads[r].seq # 0 /\ r \notin DOMAIN tx[q].mine.heads
  <2>1. t.ptr = heads[r]
    BY <1>3 DEF PtrOK
  <2>2. t.ptr # NoHead
    BY <1>8, <2>1 DEF NoHead
  <2>3. CASE t.seen = None
    <3>1. Key("head", r, 0) \in t.keys
      BY <1>3, <2>2, <2>3 DEF PtrOK
    <3>. QED
      BY <1>1, <3>1
  <2>4. CASE t.seen # None
    <3>1. backend = "mongo"
      BY <1>3, <2>4 DEF Shape
    <3>2. tx[q].keys = {}
      BY <1>3, <1>8, <3>1 DEF Shape
    <3>. QED
      BY <1>1, <3>2
  <2>. QED
    BY <2>3, <2>4
<1>. QED
  BY <1>6, <1>7, <1>8

-----------------------------------------------------------------------------
(***************************************************************************)
(* A statement: it gets its keys, and the item goes on.                    *)
(***************************************************************************)

(* What a statement changes of a transaction t, but for what it writes.    *)
Continues(n, t, w, pc) ==
  /\ n \in Transaction
  /\ n.items = t.items /\ n.order = t.order /\ n.refs = t.refs /\ n.at = t.at
  /\ n.stale = t.stale /\ n.mine.heads = t.mine.heads /\ n.mine.ref = t.mine.ref
  /\ n.keys = t.keys \cup w
  /\ n.pc = pc

(* Where it neither reads HEAD nor takes the snapshot, and its keys are    *)
(* not stale, all but the item at hand stays right.                        *)
LEMMA ContinuesKeeps ==
  ASSUME NEW t, NEW n, NEW w, NEW pc \in {"record", "check", "seed", "put", "next"},
         NEW be, NEW lv, NEW hs, NEW hist, NEW tw, NEW mv,
         TxOK(t, be, lv, hs, hist, tw, mv), Continues(n, t, w, pc),
         n.ptr = t.ptr, n.seen = t.seen,
         t.pc \in {"read_live", "record", "check", "seed", "put"},
         Fits(pc, t.items[RecOf(t)]),
         \A k \in w : k.kind # "head" /\ k \notin t.stale,
         DOMAIN n.mine.rows = Past(t) \cup Current(n),
         \A r \in Past(t) : n.mine.rows[r] = t.mine.rows[r],
         Current(n) # {} => RecordedOK(n, RecOf(t), hs, hist),
         DOMAIN n.mine.live \subseteq DOMAIN n.mine.rows,
         \A r \in Past(t) :
           /\ r \in DOMAIN n.mine.live <=> r \in DOMAIN t.mine.live
           /\ r \in DOMAIN t.mine.live => n.mine.live[r] = t.mine.live[r]
  PROVE  /\ RecOf(n) = RecOf(t) /\ Past(n) = Past(t)
         /\ Shape(n, be) /\ HeadsOK(n, hs, hist) /\ SnapshotOK(n, lv, hs, tw, mv)
         /\ \A r \in Past(t) : WroteOK(n, r, lv)
<1>1. Shape(t, be) /\ HeadsOK(t, hs, hist) /\ LiveOK(t, lv) /\ SnapshotOK(t, lv, hs, tw, mv)
  BY DEF TxOK
<1>2. RecOf(n) = RecOf(t) /\ Past(n) = Past(t)
  BY DEF Continues, RecOf, Past, AllDone
<1>3. Past(t) \subseteq DOMAIN t.mine.rows /\ RecOf(t) \notin Past(t)
  BY <1>1, RecIsNew DEF Shape, AllDone
<1>4. Shape(n, be)
  <2>1. ~AllDone(n) /\ n.pc # "commit" /\ n.pc # "put_ref" /\ t.pc # "commit"
    BY DEF Continues, AllDone
  <2>2. be = "mongo" => n.seen # None
    BY <1>1 DEF Shape
  <2>. QED
    BY <1>1, <1>2, <2>1, <2>2 DEF Shape, Continues
<1>5. HeadsOK(n, hs, hist)
  <2>1. ASSUME NEW r \in Past(t) PROVE RecordedOK(n, r, hs, hist)
    BY <1>1, <1>3, RecordedGrows DEF HeadsOK, Continues
  <2>2. \A r \in DOMAIN n.mine.rows : RecordedOK(n, r, hs, hist)
    BY <1>2, <2>1 DEF Current
  <2>3. \A r \in Records : Key("head", r, 0) \in n.keys => Key("head", r, 0) \in t.keys
    BY DEF Continues, Key
  <2>. QED
    BY <1>1, <2>2, <2>3 DEF HeadsOK, Continues
<1>6. SnapshotOK(n, lv, hs, tw, mv)
  BY <1>1 DEF SnapshotOK, LiveAsSeen, RecordAsSeen, Continues
<1>7. ASSUME NEW r \in Past(t) PROVE WroteOK(n, r, lv)
  <2>1. WroteOK(t, r, lv)
    BY <1>1, <1>3 DEF LiveOK
  <2>. QED
    BY <2>1, WroteGrows DEF Continues
<1>. QED
  BY <1>2, <1>4, <1>5, <1>6, <1>7

(* The record that a statement leaves.                                     *)
After(t, p) == [t EXCEPT !.keys = @ \cup Wanted(p), !.pc = Advance(@, ItemOf(p))]

(* Goes leaves such a transaction, before it moves HEAD.                   *)
LEMMA AfterFields ==
  ASSUME NEW p, NEW t \in Transaction, Wanted(p) \subseteq Keys,
         NEW pc \in Steps \cup {"next"}, pc = Advance(t.pc, ItemOf(p))
  PROVE  /\ Continues(After(t, p), t, Wanted(p), pc)
         /\ After(t, p).ptr = t.ptr /\ After(t, p).seen = t.seen /\ After(t, p).mine = t.mine
<1> DEFINE w == Wanted(p)
<1> DEFINE n == [t EXCEPT !.keys = t.keys \cup w, !.pc = pc]
<1>1. After(t, p) = n
  BY DEF After, Transaction
<1> HIDE DEF w
<1>2. n \in Transaction
  <2>1. t.keys \cup w \in SUBSET Keys
    BY DEF Transaction, w
  <2>. QED
    BY <2>1 DEF Transaction
<1>3. /\ n.keys = t.keys \cup w /\ n.pc = pc
      /\ n.ptr = t.ptr /\ n.seen = t.seen /\ n.mine = t.mine
      /\ n.items = t.items /\ n.order = t.order /\ n.at = t.at /\ n.stale = t.stale
      /\ n.refs = t.refs
  BY DEF Transaction
<1> HIDE DEF n
<1>. QED
  BY <1>1, <1>2, <1>3 DEF Continues, w

(* What a statement wants are keys of its record.                          *)
LEMMA WantedKeys ==
  ASSUME NEW p \in Clients, tx[p].pc \in Steps \ {"put_ref", "commit"}, Shape(tx[p], backend)
  PROVE  /\ Wanted(p) \subseteq Keys
         /\ tx[p].pc # "read_head" => \A k \in Wanted(p) : k.kind # "head"
<1>1. Rec(p) \in Records
  BY RecIsNew DEF Rec, RecOf, AllDone
<1>2. tx[p].ptr.seq + 1 \in Nat
  BY DEF Shape, Transaction, HeadType
<1>3. \A k \in Wanted(p) :
        \/ k = Key("head", Rec(p), 0) /\ tx[p].pc = "read_head"
        \/ k = Key("live", Rec(p), 0)
        \/ k = Key("row", Rec(p), tx[p].ptr.seq + 1)
  BY DEF Wanted
<1>. QED
  BY <1>1, <1>2, <1>3 DEF Key, Keys

(* A statement goes on with what it leaves, or ends the item.              *)
LEMMA GoesStep ==
  ASSUME IInv, NEW p \in Clients, NEW t, tx[p].pc \in Steps, Runs(p), Stay, Goes(p, t),
         t.items = tx[p].items, t.order = tx[p].order, t.at = tx[p].at,
         t.keys = tx[p].keys, t.pc = tx[p].pc,
         NEW n, n = After(t, p),
         Continues(n, t, Wanted(p), Advance(t.pc, ItemOf(p))),
         n.pc = "next" => n.ptr = tx[p].ptr,
         TxOK(n, backend, live, heads, history, twins, moved)
  PROVE  IInv'
<1>1. backend \in {"postgres", "mongo"}
  BY DEF TxOK, Shape
<1>2. \A q \in Clients \ {p} : n.keys \cap tx[q].keys = {}
  BY <1>1, RunsFree DEF Continues, IInv, KeysAreOnes
<1>3. CASE n.pc # "next"
  <2>1. Set(p, n)
    BY <1>3 DEF Goes, After
  <2>. QED
    BY <1>2, <1>3, <2>1, OwnStep
<1>4. CASE n.pc = "next"
  <2> DEFINE m == Moved(n, p)
  <2>1. Set(p, m)
    BY <1>4 DEF Goes, After
  <2>2. IsMoved(m, n)
    BY <1>4, MovedFields DEF TxOK, Continues
  <2> HIDE DEF m
  <2>3. TxOK(m, backend, live, heads, history, twins, moved)
    BY <1>4, <2>2, MovedIsRight
  <2>4. ASSUME NEW q \in Clients \ {p} PROVE m.keys \cap tx[q].keys = {}
    <3>1. n.keys \cap tx[q].keys = {}
      BY <1>2
    <3>2. Key("head", RecOf(n), 0) \notin tx[q].keys
      BY <1>4, <3>1, HeadIsFree
    <3>3. m.keys = n.keys \cup {Key("head", RecOf(n), 0)}
      BY <2>2 DEF IsMoved
    <3>. QED
      BY <3>1, <3>2, <3>3
  <2>5. m.pc # "next"
    BY <2>2 DEF IsMoved
  <2>. QED
    BY <2>1, <2>3, <2>4, <2>5, OwnStep
<1>. QED
  BY <1>3, <1>4

(* NoHead is the only pointer with seq 0.                                  *)
LEMMA NoHeadIsZero ==
  ASSUME IInv, NEW r \in Records, heads[r].seq = 0
  PROVE  heads[r] = NoHead
<1>1. heads[r] \in HeadType /\ heads[r].oid = None
  BY DEF IInv, StoreInv
<1>. QED
  BY <1>1 DEF HeadType, NoHead

(* ReadHead: the pointer is locked where there is one, or the snapshot is  *)
(* taken, of which nothing is stale yet.                                   *)
LEMMA ReadHeadStep ==
  ASSUME IInv, NEW p \in Clients, ReadHead(p)
  PROVE  IInv'
<1> DEFINE u == tx[p]
<1> DEFINE r == RecOf(u)
<1> DEFINE item == u.items[r]
<1> DEFINE seen == IF backend = "mongo" THEN Seen(p) ELSE None
<1> DEFINE ptr == HeadSeen(p, r)
<1>1. u.pc = "read_head" /\ u.pc \in Steps /\ Runs(p) /\ Stay
  BY DEF ReadHead, Statement, Steps
<1>2. TxOK(u, backend, live, heads, history, twins, moved)
  BY <1>1, UnderWay
<1>3. Shape(u, backend) /\ HeadsOK(u, heads, history) /\ LiveOK(u, live)
        /\ SnapshotOK(u, live, heads, twins, moved)
  BY <1>2 DEF TxOK
<1>4. u \in Transaction /\ r \in Records /\ item \in Item /\ ItemOK(item)
        /\ backend \in {"postgres", "mongo"}
  BY <1>1, <1>3, RecIsNew DEF Shape, AllDone
<1>5. Rec(p) = r /\ ItemOf(p) = item
  BY DEF Rec, RecOf, ItemOf
<1>6. CASE ptr.oid # item.expectedHead
  <2>1. Raise(p, "stale_head")
    BY <1>5, <1>6 DEF ReadHead
  <2>. QED
    BY <1>1, <2>1, RaiseStep
<1>7. CASE ptr.oid = item.expectedHead
  <2> DEFINE t == [u EXCEPT !.ptr = ptr, !.seen = seen]
  <2> DEFINE pc == Advance(t.pc, item)
  <2> DEFINE n == After(t, p)
  <2>1. Goes(p, t)
    BY <1>5, <1>7 DEF ReadHead
  <2>2. seen \in Snapshot \cup {None} /\ (u.seen # None => seen = u.seen)
          /\ (u.seen = None /\ backend = "mongo" =>
                 seen = [live |-> live, heads |-> heads, twins |-> twins])
          /\ (seen = None <=> backend = "postgres")
    <3>1. [live |-> live, heads |-> heads, twins |-> twins] \in Snapshot
      BY DEF IInv, StoreInv, Snapshot, HeadType
    <3>. QED
      BY <1>3, <1>4, <3>1, NoneIsApart DEF Seen, Shape, Transaction
  <2>3. ptr = IF seen # None THEN seen.heads[r] ELSE heads[r]
    BY <1>3, <2>2 DEF HeadSeen, Seen, Shape
  <2>4. ptr \in HeadType
    <3>1. heads[r] \in HeadType
      BY <1>4 DEF IInv, StoreInv
    <3>2. seen # None => seen.heads[r] \in HeadType
      BY <1>4, <2>2 DEF Snapshot, HeadType
    <3>. QED
      BY <2>3, <3>1, <3>2
  <2> HIDE DEF seen, ptr
  <2>5. /\ t \in Transaction /\ t.ptr = ptr /\ t.seen = seen /\ t.pc = u.pc /\ t.keys = u.keys
        /\ t.items = u.items /\ t.order = u.order /\ t.at = u.at /\ t.stale = u.stale
        /\ t.mine = u.mine /\ t.refs = u.refs
    BY <1>4, <2>2, <2>4 DEF Transaction
  <2>6. pc \in {"read_live", "record"} /\ Fits(pc, item)
          /\ (pc = "record" => item.expectedLive = None)
    BY <1>1, <2>5 DEF Advance, Fits
  <2>7. Wanted(p) \subseteq Keys
    BY <1>1, <1>3, WantedKeys DEF Steps
  <2>8. Wanted(p) = IF seen = None /\ ptr # NoHead THEN {Key("head", r, 0)} ELSE {}
    BY <1>1, <1>5, <2>2 DEF Wanted, ptr
  <2> HIDE DEF t, pc
  <2>9. Continues(n, t, Wanted(p), pc) /\ n.ptr = ptr /\ n.seen = seen /\ n.mine = u.mine
          /\ n.pc = pc
    <3>1. pc \in Steps
      BY <2>6 DEF Steps
    <3>2. pc = Advance(t.pc, ItemOf(p))
      BY <1>5 DEF pc
    <3>. QED
      BY <2>5, <2>7, <3>1, <3>2, AfterFields DEF Continues
  <2> HIDE DEF n
  <2>10. /\ n \in Transaction /\ n.items = u.items /\ n.order = u.order /\ n.at = u.at
         /\ n.refs = u.refs
         /\ n.stale = u.stale /\ n.mine = u.mine /\ n.keys = u.keys \cup Wanted(p)
         /\ n.seen = seen /\ n.ptr = ptr /\ n.pc = pc
    BY <2>5, <2>9 DEF Continues
  <2>11. RecOf(n) = r /\ Past(n) = Past(u) /\ Current(n) = {} /\ Current(u) = {}
    BY <1>1, <2>6, <2>10 DEF RecOf, Past, Current, AllDone
  <2>12. Shape(n, backend)
    BY <1>1, <1>3, <1>4, <2>2, <2>6, <2>10, <2>11 DEF Shape, AllDone
  <2>13. u.seen # seen => DOMAIN u.mine.rows = {} /\ DOMAIN u.mine.heads = {} /\ u.keys = {}
                          /\ Wanted(p) = {} /\ u.stale = {}
    BY <1>3, <1>4, <2>2, <2>8 DEF Shape
  <2>14. HeadsOK(n, heads, history)
    <3>1. ASSUME NEW x \in DOMAIN n.mine.rows PROVE RecordedOK(n, x, heads, history)
      <4>1. RecordedOK(u, x, heads, history)
        BY <1>3, <2>10, <3>1 DEF HeadsOK
      <4>. QED
        BY <2>10, <2>13, <4>1, RecordedGrows
    <3>2. ASSUME NEW x \in Records, Key("head", x, 0) \in n.keys
          PROVE  x \in DOMAIN n.mine.heads \/ (n.seen = None /\ heads[x].seq # 0)
      <4>1. CASE Key("head", x, 0) \in u.keys
        BY <1>3, <2>10, <2>13, <3>2, <4>1 DEF HeadsOK
      <4>2. CASE Key("head", x, 0) \in Wanted(p)
        <5>1. x = r /\ seen = None /\ ptr # NoHead
          BY <2>8, <4>2 DEF Key
        <5>. QED
          BY <2>3, <2>10, <5>1, NoHeadIsZero
      <4>. QED
        BY <2>10, <3>2, <4>1, <4>2
    <3>. QED
      BY <1>3, <2>10, <3>1, <3>2 DEF HeadsOK
  <2>15. PtrOK(n, heads)
    BY <1>7, <2>3, <2>6, <2>8, <2>10, <2>11 DEF PtrOK
  <2>16. LiveOK(n, live)
    <3>1. ASSUME NEW x \in DOMAIN n.mine.rows PROVE WroteOK(n, x, live)
      <4>1. WroteOK(u, x, live)
        BY <1>1, <1>3, <2>10, <3>1 DEF LiveOK
      <4>. QED
        BY <2>10, <2>13, <4>1, WroteGrows
    <3>. QED
      BY <2>6, <2>10, <2>11, <3>1 DEF LiveOK
  <2>17. SnapshotOK(n, live, heads, twins, moved)
    <3>1. CASE u.seen = seen
      <4>1. \A k \in Wanted(p) : k.kind = "head"
        BY <2>8 DEF Key
      <4>. QED
        BY <1>3, <2>10, <3>1, <4>1 DEF SnapshotOK, LiveAsSeen, RecordAsSeen
    <3>2. CASE u.seen # seen
      <4>1. seen.live = live /\ seen.heads = heads /\ seen.twins = twins
        BY <1>3, <1>4, <2>2, <3>2 DEF Shape
      <4>. QED
        BY <2>10, <2>13, <3>2, <4>1 DEF SnapshotOK, LiveAsSeen, RecordAsSeen
    <3>. QED
      BY <3>1, <3>2
  <2>18. TxOK(n, backend, live, heads, history, twins, moved)
    BY <2>12, <2>14, <2>15, <2>16, <2>17 DEF TxOK
  <2>19. /\ n = After(t, p)
         /\ Continues(n, t, Wanted(p), Advance(t.pc, ItemOf(p)))
         /\ n.pc # "next"
    BY <1>5, <2>6, <2>9 DEF n, pc
  <2>. QED
    BY <1>1, <2>1, <2>5, <2>18, <2>19, GoesStep
<1>. QED
  BY <1>6, <1>7

(* What is known of a statement that runs after the read of HEAD.          *)
LEMMA StatementFacts ==
  ASSUME IInv, NEW p \in Clients, tx[p].pc \in {"read_live", "record", "check", "seed", "put"},
         Runs(p)
  PROVE  LET r == RecOf(tx[p])
             item == tx[p].items[r]
         IN  /\ TxOK(tx[p], backend, live, heads, history, twins, moved)
             /\ Shape(tx[p], backend) /\ tx[p] \in Transaction
             /\ r \in Records /\ item \in Item /\ ItemOK(item)
             /\ Rec(p) = r /\ ItemOf(p) = item
             /\ backend \in {"postgres", "mongo"}
             /\ tx[p].seen = None <=> backend = "postgres"
             /\ LiveSeen(p, r) = LiveIn(tx[p], r, live)
             /\ LiveSeen(p, r) \in Doc \cup {None}
             /\ Wanted(p) \subseteq Keys
             /\ \A k \in Wanted(p) : k.kind # "head" /\ k \notin tx[p].stale
<1> DEFINE r == RecOf(tx[p])
<1>1. tx[p].pc \in Steps
  BY DEF Steps
<1>2. TxOK(tx[p], backend, live, heads, history, twins, moved)
  BY <1>1, UnderWay
<1>3. Shape(tx[p], backend)
  BY <1>2 DEF TxOK
<1>4. /\ tx[p] \in Transaction /\ r \in Records /\ tx[p].items[r] \in Item
      /\ ItemOK(tx[p].items[r]) /\ backend \in {"postgres", "mongo"}
  BY <1>3, RecIsNew DEF Shape, AllDone
<1>5. Rec(p) = r /\ ItemOf(p) = tx[p].items[r]
  BY DEF Rec, RecOf, ItemOf
<1>6. tx[p].seen = None <=> backend = "postgres"
  BY <1>3 DEF Shape
<1>7. LiveSeen(p, r) = LiveIn(tx[p], r, live)
  BY DEF LiveSeen, Seen, LiveIn
<1>8. LiveSeen(p, r) \in Doc \cup {None}
  <2>1. live[r] \in Doc \cup {None}
    BY <1>4 DEF IInv, StoreInv
  <2>2. tx[p].seen # None => tx[p].seen.live[r] \in Doc \cup {None}
    BY <1>4 DEF Transaction, Snapshot
  <2>. QED
    BY <1>7, <2>1, <2>2 DEF LiveIn
<1>9. Wanted(p) \subseteq Keys /\ \A k \in Wanted(p) : k.kind # "head"
  BY <1>1, <1>3, WantedKeys
<1>10. \A k \in Wanted(p) : k \notin tx[p].stale
  <2>1. backend = "postgres" => tx[p].stale = {}
    BY <1>3, <1>6 DEF Shape
  <2>. QED
    BY <1>1, <1>4, <2>1, RunsFree
<1>. QED
  BY <1>2, <1>3, <1>4, <1>5, <1>6, <1>7, <1>8, <1>9, <1>10

(* ReadLive compares the live record, and locks it on postgres.            *)
LEMMA ReadLiveStep ==
  ASSUME IInv, NEW p \in Clients, ReadLive(p)
  PROVE  IInv'
<1> DEFINE u == tx[p]
<1> DEFINE r == RecOf(u)
<1> DEFINE item == u.items[r]
<1> DEFINE doc == LiveSeen(p, r)
<1>1. u.pc = "read_live" /\ u.pc \in Steps /\ Runs(p) /\ Stay
  BY DEF ReadLive, Statement, Steps
<1>2. /\ TxOK(u, backend, live, heads, history, twins, moved) /\ Shape(u, backend)
      /\ u \in Transaction /\ r \in Records /\ item \in Item /\ ItemOK(item)
      /\ Rec(p) = r /\ ItemOf(p) = item /\ backend \in {"postgres", "mongo"}
      /\ u.seen = None <=> backend = "postgres"
      /\ doc = LiveIn(u, r, live) /\ doc \in Doc \cup {None}
      /\ Wanted(p) \subseteq Keys /\ \A k \in Wanted(p) : k.kind # "head" /\ k \notin u.stale
  BY <1>1, StatementFacts
<1>3. \/ \E result \in {"ambiguous", "not_found", "stale_live"} : Raise(p, result)
      \/ doc # None /\ HashDoc(doc) = item.expectedLive /\ Goes(p, u)
  BY <1>2 DEF ReadLive
<1>4. CASE \E result \in {"ambiguous", "not_found", "stale_live"} : Raise(p, result)
  BY <1>1, <1>4, RaiseStep
<1>5. CASE doc # None /\ HashDoc(doc) = item.expectedLive /\ Goes(p, u)
  <2> DEFINE n == After(u, p)
  <2>1. Advance(u.pc, ItemOf(p)) = "record" /\ "record" \in Steps
    BY <1>1 DEF Advance, Steps
  <2>2. Continues(n, u, Wanted(p), "record") /\ n.ptr = u.ptr /\ n.seen = u.seen /\ n.mine = u.mine
    BY <1>2, <2>1, AfterFields
  <2> HIDE DEF n
  <2>3. n.pc = "record" /\ n.items = u.items /\ n.keys = u.keys \cup Wanted(p)
    BY <2>2 DEF Continues
  <2>4. Current(n) = {} /\ Current(u) = {}
    BY <1>1, <2>3 DEF Current
  <2>5. /\ RecOf(n) = r /\ Past(n) = Past(u)
        /\ Shape(n, backend) /\ HeadsOK(n, heads, history)
        /\ SnapshotOK(n, live, heads, twins, moved)
        /\ \A x \in Past(u) : WroteOK(n, x, live)
    <3>1. Fits("record", item)
      BY DEF Fits
    <3>2. DOMAIN n.mine.rows = Past(u) \cup Current(n) /\ DOMAIN n.mine.live \subseteq DOMAIN n.mine.rows
      BY <1>2, <2>2, <2>4 DEF Shape
    <3>. QED
      BY <1>1, <1>2, <2>2, <2>4, <3>1, <3>2, ContinuesKeeps
  <2>6. PtrOK(n, heads)
    <3>1. PtrOK(u, heads)
      BY <1>2 DEF TxOK
    <3>. QED
      BY <1>1, <2>2, <2>3, <2>5, <3>1 DEF PtrOK
  <2>7. ReadOK(n, r, live)
    <3>1. u.seen = None => Key("live", r, 0) \in Wanted(p)
      BY <1>1, <1>2, <1>5 DEF Wanted
    <3>. QED
      BY <1>2, <1>5, <2>2, <2>3, <3>1 DEF ReadOK, LiveIn
  <2>8. LiveOK(n, live)
    <3>1. DOMAIN n.mine.rows = Past(u)
      BY <1>2, <2>2, <2>4 DEF Shape
    <3>. QED
      BY <2>3, <2>5, <2>7, <3>1 DEF LiveOK
  <2>9. TxOK(n, backend, live, heads, history, twins, moved)
    BY <2>5, <2>6, <2>8 DEF TxOK
  <2>. QED
    BY <1>1, <1>5, <2>1, <2>2, <2>3, <2>9, GoesStep DEF n
<1>. QED
  BY <1>3, <1>4, <1>5

(* CheckMissing: a seed looks whether the live record is missing.          *)
LEMMA CheckMissingStep ==
  ASSUME IInv, NEW p \in Clients, CheckMissing(p)
  PROVE  IInv'
<1> DEFINE u == tx[p]
<1> DEFINE r == RecOf(u)
<1> DEFINE item == u.items[r]
<1> DEFINE doc == LiveSeen(p, r)
<1>1. u.pc = "check" /\ u.pc \in Steps /\ Runs(p) /\ Stay
  BY DEF CheckMissing, Statement, Steps
<1>2. /\ TxOK(u, backend, live, heads, history, twins, moved) /\ Shape(u, backend)
      /\ u \in Transaction /\ r \in Records /\ item \in Item /\ ItemOK(item)
      /\ Rec(p) = r /\ ItemOf(p) = item /\ backend \in {"postgres", "mongo"}
      /\ u.seen = None <=> backend = "postgres"
      /\ doc = LiveIn(u, r, live) /\ doc \in Doc \cup {None}
      /\ Wanted(p) \subseteq Keys /\ \A k \in Wanted(p) : k.kind # "head" /\ k \notin u.stale
  BY <1>1, StatementFacts
<1>3. \/ \E result \in {"ambiguous", "stale_live"} : Raise(p, result)
      \/ doc = None /\ ~TwinSeen(p, r) /\ Goes(p, u)
  BY <1>2 DEF CheckMissing
<1>4. CASE \E result \in {"ambiguous", "stale_live"} : Raise(p, result)
  BY <1>1, <1>4, RaiseStep
<1>5. CASE doc = None /\ ~TwinSeen(p, r) /\ Goes(p, u)
  <2> DEFINE n == After(u, p)
  <2>1. Advance(u.pc, ItemOf(p)) = "seed" /\ "seed" \in Steps
    BY <1>1 DEF Advance, Steps
  <2>2. Continues(n, u, Wanted(p), "seed") /\ n.ptr = u.ptr /\ n.seen = u.seen /\ n.mine = u.mine
    BY <1>2, <2>1, AfterFields
  <2> HIDE DEF n
  <2>3. n.pc = "seed" /\ n.items = u.items /\ n.keys = u.keys \cup Wanted(p)
    BY <2>2 DEF Continues
  <2>4. Current(n) = {RecOf(n)} /\ Current(u) = {r} /\ RecOf(n) = r
    BY <1>1, <2>2, <2>3 DEF Current, Continues, RecOf
  <2>5. /\ Past(n) = Past(u)
        /\ Shape(n, backend) /\ HeadsOK(n, heads, history)
        /\ SnapshotOK(n, live, heads, twins, moved)
        /\ \A x \in Past(u) : WroteOK(n, x, live)
    <3>1. Fits("seed", item)
      BY <1>1, <1>2 DEF Fits, Shape
    <3>2. DOMAIN n.mine.rows = Past(u) \cup Current(n) /\ DOMAIN n.mine.live \subseteq DOMAIN n.mine.rows
      BY <1>2, <2>2, <2>4 DEF Shape
    <3>3. RecordedOK(n, r, heads, history)
      <4>1. RecordedOK(u, r, heads, history)
        BY <1>2, <2>4 DEF TxOK, Shape, HeadsOK
      <4>. QED
        BY <2>2, <2>3, <4>1, RecordedGrows
    <3>. QED
      BY <1>1, <1>2, <2>2, <2>4, <3>1, <3>2, <3>3, ContinuesKeeps
  <2>6. PtrOK(n, heads)
    <3>1. PtrOK(u, heads)
      BY <1>2 DEF TxOK
    <3>. QED
      BY <1>1, <2>2, <2>3, <2>4, <3>1 DEF PtrOK
  <2>7. n.seen # None => n.seen.live[r] = None /\ r \notin n.seen.twins
    BY <1>2, <1>5, <2>2 DEF LiveIn, TwinSeen, Seen
  <2>8. LiveOK(n, live)
    <3>1. DOMAIN n.mine.rows = Past(u) \cup {r}
      BY <1>2, <2>2, <2>4 DEF Shape
    <3>2. r \notin DOMAIN n.mine.live
      BY <1>1, <1>2, <2>2 DEF TxOK, LiveOK
    <3>. QED
      BY <2>3, <2>4, <2>5, <2>7, <3>1, <3>2 DEF LiveOK
  <2>9. TxOK(n, backend, live, heads, history, twins, moved)
    BY <2>5, <2>6, <2>8 DEF TxOK
  <2>. QED
    BY <1>1, <1>5, <2>1, <2>2, <2>3, <2>9, GoesStep DEF n
<1>. QED
  BY <1>3, <1>4, <1>5

(* What a statement that writes leaves of the transaction.                 *)
IsButMine(n, t) ==
  /\ n \in Transaction
  /\ n.pc = t.pc /\ n.items = t.items /\ n.order = t.order /\ n.at = t.at
  /\ n.refs = t.refs /\ n.ptr = t.ptr /\ n.seen = t.seen
  /\ n.keys = t.keys /\ n.stale = t.stale
  /\ n.mine.heads = t.mine.heads /\ n.mine.ref = t.mine.ref

LiveWritten(t, r, d) == [t EXCEPT !.mine.live = With(@, r, d)]

(* So does a seed or a put, of a live record,                              *)
LEMMA WritesLive ==
  ASSUME NEW t \in Transaction, NEW r \in Records, NEW d \in Doc
  PROVE  LET w == LiveWritten(t, r, d)
         IN  IsButMine(w, t) /\ w.mine.rows = t.mine.rows /\ w.mine.live = With(t.mine.live, r, d)
<1> DEFINE lv == With(t.mine.live, r, d)
<1> DEFINE mine == [t.mine EXCEPT !.live = lv]
<1> DEFINE n == [t EXCEPT !.mine = mine]
<1>1. LiveWritten(t, r, d) = n
  BY DEF Transaction, LiveWritten
<1>2. lv \in Partial(Records, Doc)
  <2>1. t.mine.live \in Partial(Records, Doc)
    BY DEF Transaction, Writes
  <2>. QED
    BY <2>1, WithIsPartial
<1> HIDE DEF lv
<1>3. /\ mine \in Writes
      /\ mine.live = lv /\ mine.rows = t.mine.rows /\ mine.heads = t.mine.heads
      /\ mine.ref = t.mine.ref
  BY <1>2 DEF Transaction, Writes
<1> HIDE DEF mine
<1>4. /\ n \in Transaction /\ n.mine = mine
      /\ n.pc = t.pc /\ n.items = t.items /\ n.order = t.order /\ n.at = t.at
      /\ n.refs = t.refs /\ n.ptr = t.ptr /\ n.seen = t.seen
      /\ n.keys = t.keys /\ n.stale = t.stale
  BY <1>3 DEF Transaction
<1> HIDE DEF n
<1>. QED
  BY <1>1, <1>3, <1>4 DEF IsButMine, lv

(* and what writes the history of a record.                                *)
LEMMA WritesRows ==
  ASSUME NEW t \in Transaction, NEW r \in Records, NEW rows \in Rows
  PROVE  LET n == [t EXCEPT !.mine.rows = With(@, r, rows)]
         IN  IsButMine(n, t) /\ n.mine.live = t.mine.live /\ n.mine.rows = With(t.mine.rows, r, rows)
<1> DEFINE rs == With(t.mine.rows, r, rows)
<1> DEFINE mine == [t.mine EXCEPT !.rows = rs]
<1> DEFINE n == [t EXCEPT !.mine = mine]
<1>1. [t EXCEPT !.mine.rows = With(@, r, rows)] = n
  BY DEF Transaction
<1>2. rs \in Partial(Records, Rows)
  <2>1. t.mine.rows \in Partial(Records, Rows)
    BY DEF Transaction, Writes
  <2>. QED
    BY <2>1, WithIsPartial
<1> HIDE DEF rs
<1>3. /\ mine \in Writes
      /\ mine.rows = rs /\ mine.live = t.mine.live /\ mine.heads = t.mine.heads
      /\ mine.ref = t.mine.ref
  BY <1>2 DEF Transaction, Writes
<1> HIDE DEF mine
<1>4. /\ n \in Transaction /\ n.mine = mine
      /\ n.pc = t.pc /\ n.items = t.items /\ n.order = t.order /\ n.at = t.at
      /\ n.refs = t.refs /\ n.ptr = t.ptr /\ n.seen = t.seen
      /\ n.keys = t.keys /\ n.stale = t.stale
  BY <1>3 DEF Transaction
<1> HIDE DEF n
<1>. QED
  BY <1>1, <1>3, <1>4 DEF IsButMine, rs

(* The rows an item writes are rows, also of what the history is then.     *)
LEMMA NewRowsAreRows ==
  ASSUME NEW rows \in Rows, NEW n \in Nat, DOMAIN rows = 1 .. n, NEW entry \in Row
  PROVE  /\ NewRows(rows, n + 1, entry) \in Rows
         /\ Over(NewRows(rows, n + 1, entry), rows) \in Rows
         /\ DOMAIN Over(NewRows(rows, n + 1, entry), rows) = 1 .. n + 1
         /\ Over(NewRows(rows, n + 1, entry), rows)[n + 1] = entry
         /\ Over(NewRows(rows, n + 1, entry), rows) =
               [s \in 1 .. n + 1 |->
                  IF s = n + 1 THEN entry
                  ELSE IF s = n THEN CloseRow(rows[s], entry.from) ELSE rows[s]]
<1> DEFINE D == {n + 1, n + 1 - 1} \ {0}
<1> DEFINE new == NewRows(rows, n + 1, entry)
<1>1. \A s \in 1 .. n : rows[s] \in Row
  BY PartialValues DEF Rows
<1>2. \A row \in Row : CloseRow(row, entry.from) \in Row
  <2>1. entry.from \in Nat
    BY DEF Row
  <2>. QED
    BY <2>1 DEF CloseRow, Row
<1>3. D \subseteq 1 .. n + 1 /\ n + 1 \in D /\ \A s \in D : s # n + 1 => s = n /\ s \in 1 .. n
  OBVIOUS
<1>4. new = [s \in D |-> IF s = n + 1 THEN entry ELSE CloseRow(rows[s], entry.from)]
  BY DEF NewRows
<1>5. \A s \in D : (IF s = n + 1 THEN entry ELSE CloseRow(rows[s], entry.from)) \in Row
  BY <1>1, <1>2, <1>3
<1> DEFINE all == [s \in 1 .. n + 1 |->
                    IF s = n + 1 THEN entry
                    ELSE IF s = n THEN CloseRow(rows[s], entry.from) ELSE rows[s]]
<1>6. \A s \in 1 .. n + 1 : all[s] \in Row
  BY <1>1, <1>2
<1>7. Over(new, rows) = all
  <2>1. DOMAIN new = D /\ DOMAIN new \cup DOMAIN rows = 1 .. n + 1
    <3>1. DOMAIN new = D
      BY <1>4
    <3>2. 1 .. n + 1 = (1 .. n) \cup {n + 1}
      OBVIOUS
    <3> HIDE DEF D
    <3>3. D \cup (1 .. n) = 1 .. n + 1
      BY <1>3, <3>2
    <3>. QED
      BY <3>1, <3>3
  <2>2. \A s \in 1 .. n + 1 : (IF s \in D THEN new[s] ELSE rows[s]) = all[s]
    BY <1>3, <1>4
  <2>. QED
    BY <2>1, <2>2 DEF Over
<1>8. new \in Rows
  <2>1. D \in SUBSET Nat
    BY <1>3
  <2>2. new \in [D -> Row]
    <3> HIDE DEF D, new
    <3>. QED
      BY <1>4, <1>5
  <2>. QED
    BY <2>1, <2>2 DEF Rows, Partial
<1>9. all \in Rows
  <2>1. 1 .. n + 1 \in SUBSET Nat /\ all \in [1 .. n + 1 -> Row]
    BY <1>6
  <2>. QED
    BY <2>1 DEF Rows, Partial
<1>. QED
  BY <1>7, <1>8, <1>9

(* Record writes the row of the record at hand, which then is at the HEAD  *)
(* the transaction read: on postgres because HEAD is locked, or there was  *)
(* none and the first row is free; on mongo because the row is not stale.  *)
LEMMA RecordStep ==
  ASSUME IInv, NEW p \in Clients, Record(p)
  PROVE  IInv'
<1> DEFINE u == tx[p]
<1> DEFINE r == RecOf(u)
<1> DEFINE item == u.items[r]
<1> DEFINE seq == u.ptr.seq + 1
<1> DEFINE rows == NewRows(history[r], seq, item.entry)
<1>1. u.pc = "record" /\ u.pc \in Steps /\ Runs(p) /\ Stay
  BY DEF Record, Statement, Steps
<1>2. /\ TxOK(u, backend, live, heads, history, twins, moved) /\ Shape(u, backend)
      /\ u \in Transaction /\ r \in Records /\ item \in Item /\ ItemOK(item)
      /\ Rec(p) = r /\ ItemOf(p) = item /\ backend \in {"postgres", "mongo"}
      /\ u.seen = None <=> backend = "postgres"
      /\ Wanted(p) \subseteq Keys /\ \A k \in Wanted(p) : k.kind # "head" /\ k \notin u.stale
  BY <1>1, StatementFacts
<1>3. PtrOK(u, heads) /\ HeadsOK(u, heads, history) /\ LiveOK(u, live)
        /\ SnapshotOK(u, live, heads, twins, moved)
  BY <1>2 DEF TxOK
<1> DEFINE t == [u EXCEPT !.mine.rows = With(@, r, rows)]
<1>4. \/ Raise(p, "failed")
      \/ seq \notin DOMAIN history[r] /\ Goes(p, t)
  BY <1>2 DEF Record, NewRows
<1>5. CASE Raise(p, "failed")
  BY <1>1, <1>5, RaiseStep
<1>6. CASE seq \notin DOMAIN history[r] /\ Goes(p, t)
  <2>1. /\ history[r] \in Rows /\ DOMAIN history[r] = 1 .. heads[r].seq
        /\ heads[r] \in HeadType /\ heads[r].seq \in Nat
    BY <1>2 DEF IInv, StoreInv, HeadIsLastRow, HeadType
  <2>2. Wanted(p) = {Key("row", r, seq)}
    BY <1>1, <1>2 DEF Wanted
  <2>3. heads[r] = u.ptr
    <3>1. CASE u.seen # None
      <4>1. u.ptr = u.seen.heads[r]
        BY <1>1, <1>3, <3>1 DEF PtrOK
      <4>2. Key("row", r, u.seen.heads[r].seq + 1) \notin u.stale
        BY <1>2, <2>2, <4>1
      <4>. QED
        BY <1>2, <1>3, <3>1, <4>1, <4>2 DEF SnapshotOK, RecordAsSeen
    <3>2. CASE u.seen = None /\ u.ptr # NoHead
      BY <1>1, <1>3, <3>2 DEF PtrOK
    <3>3. CASE u.ptr = NoHead
      <4>1. seq = 1
        BY <3>3 DEF NoHead
      <4>2. heads[r].seq = 0
        BY <1>6, <2>1, <4>1
      <4>. QED
        BY <1>2, <3>3, <4>2, NoHeadIsZero
    <3>. QED
      BY <3>1, <3>2, <3>3
  <2>4. item.entry \in Row
    BY <1>2 DEF Item
  <2>5. rows \in Rows
    BY <2>1, <2>3, <2>4, NewRowsAreRows
  <2> HIDE DEF rows
  <2>6. IsButMine(t, u) /\ t.mine.live = u.mine.live /\ t.mine.rows = With(u.mine.rows, r, rows)
    BY <1>2, <2>5, WritesRows
  <2> HIDE DEF t
  <2> DEFINE pc == Advance(t.pc, item)
  <2> DEFINE n == After(t, p)
  <2>7. t.pc = "record" /\ t \in Transaction
    BY <1>1, <2>6 DEF IsButMine
  <2>8. /\ pc \in {"check", "put", "next"} /\ Fits(pc, item)
        /\ pc = "next" <=> item.newDoc = None
    BY <1>2, <2>7 DEF Advance, Fits, Item
  <2>9. Continues(n, t, Wanted(p), pc) /\ n.ptr = t.ptr /\ n.seen = t.seen /\ n.mine = t.mine
    <3>1. pc \in Steps \cup {"next"} /\ pc = Advance(t.pc, ItemOf(p))
      BY <1>2, <2>8 DEF Steps
    <3> HIDE DEF pc
    <3>. QED
      BY <1>2, <2>7, <3>1, AfterFields
  <2> HIDE DEF n, pc
  <2>10. /\ Continues(n, u, Wanted(p), pc) /\ n.ptr = u.ptr /\ n.seen = u.seen
         /\ n.mine.live = u.mine.live /\ n.mine.rows = With(u.mine.rows, r, rows)
         /\ n.items = u.items /\ n.keys = u.keys \cup Wanted(p) /\ n.pc = pc
    BY <2>6, <2>9 DEF Continues, IsButMine
  <2>11. Past(u) = DOMAIN u.mine.rows /\ r \notin Past(u)
    BY <1>1, <1>2, RecIsNew DEF Shape, Current, AllDone
  <2>12. /\ DOMAIN n.mine.rows = Past(u) \cup {r} /\ n.mine.rows[r] = rows
         /\ \A x \in Past(u) : n.mine.rows[x] = u.mine.rows[x]
    BY <2>10, <2>11 DEF With
  <2>13. RecOf(n) = r /\ Current(n) = {r}
    BY <2>8, <2>10 DEF RecOf, Current, Continues
  <2>14. DOMAIN u.mine.live \subseteq Past(u)
    BY <1>2, <2>11 DEF Shape
  <2>15. RecordedOK(n, r, heads, history)
    <3>1. heads[r].oid = item.expectedHead
      BY <1>1, <1>3, <2>3 DEF PtrOK
    <3>2. Key("row", r, heads[r].seq + 1) \in n.keys
      BY <2>2, <2>3, <2>10
    <3>3. n.mine.rows[r] = NewRows(history[r], heads[r].seq + 1, n.items[r].entry)
      BY <2>3, <2>10, <2>12 DEF rows
    <3>4. n.seen # None => heads[r] = n.seen.heads[r]
      BY <1>1, <1>3, <2>3, <2>10 DEF PtrOK
    <3>. QED
      BY <2>10, <3>1, <3>2, <3>3, <3>4 DEF RecordedOK
  <2>16. /\ Past(n) = Past(u)
         /\ Shape(n, backend) /\ HeadsOK(n, heads, history)
         /\ SnapshotOK(n, live, heads, twins, moved)
         /\ \A x \in Past(u) : WroteOK(n, x, live)
    BY <1>1, <1>2, <2>8, <2>10, <2>12, <2>13, <2>14, <2>15, ContinuesKeeps
  <2>17. PtrOK(n, heads)
    BY <1>1, <1>3, <2>3, <2>10, <2>13 DEF PtrOK
  <2>18. LiveOK(n, live)
    <3>1. item.expectedLive # None => ReadOK(n, r, live)
      <4>1. item.expectedLive # None => ReadOK(u, r, live)
        BY <1>1, <1>3 DEF LiveOK
      <4>. QED
        BY <2>10, <4>1 DEF ReadOK, LiveIn
    <3>2. r \notin DOMAIN n.mine.live
      BY <2>10, <2>11, <2>14
    <3>3. pc = "next" => WroteOK(n, r, live)
      BY <2>8, <2>10, <3>2 DEF WroteOK
    <3>. QED
      BY <2>8, <2>10, <2>12, <2>13, <2>16, <3>1, <3>2, <3>3 DEF LiveOK
  <2>19. TxOK(n, backend, live, heads, history, twins, moved)
    BY <2>16, <2>17, <2>18 DEF TxOK
  <2>20. Continues(n, t, Wanted(p), Advance(t.pc, ItemOf(p)))
    BY <1>2, <2>9 DEF pc
  <2>21. t.items = u.items /\ t.order = u.order /\ t.at = u.at /\ t.keys = u.keys /\ t.pc = u.pc
    BY <2>6 DEF IsButMine
  <2>22. n = After(t, p)
    BY DEF n
  <2>. QED
    BY <1>1, <1>6, <2>10, <2>19, <2>20, <2>21, <2>22, GoesStep
<1>. QED
  BY <1>4, <1>5, <1>6

(* A statement that writes the live record ends the item, which is right   *)
(* if what it wrote is.                                                    *)
LEMMA WriteStep ==
  ASSUME IInv, NEW p \in Clients, tx[p].pc \in {"seed", "put"}, Runs(p), Stay,
         NEW t, Goes(p, t), IsButMine(t, tx[p]), t.mine.rows = tx[p].mine.rows,
         \/ t.mine.live = tx[p].mine.live
         \/ \E d \in Doc : t.mine.live = With(tx[p].mine.live, RecOf(tx[p]), d),
         WroteOK(After(t, p), RecOf(tx[p]), live)
  PROVE  IInv'
<1> DEFINE u == tx[p]
<1> DEFINE r == RecOf(u)
<1> DEFINE item == u.items[r]
<1> DEFINE n == After(t, p)
<1>1. u.pc \in Steps
  BY DEF Steps
<1>2. /\ TxOK(u, backend, live, heads, history, twins, moved) /\ Shape(u, backend)
      /\ u \in Transaction /\ r \in Records /\ item \in Item /\ ItemOK(item)
      /\ Rec(p) = r /\ ItemOf(p) = item /\ backend \in {"postgres", "mongo"}
      /\ Wanted(p) \subseteq Keys /\ \A k \in Wanted(p) : k.kind # "head" /\ k \notin u.stale
  BY StatementFacts
<1>3. Advance(t.pc, ItemOf(p)) = "next" /\ t.pc = u.pc /\ t \in Transaction
  BY DEF Advance, IsButMine
<1>4. Continues(n, t, Wanted(p), "next") /\ n.ptr = t.ptr /\ n.seen = t.seen /\ n.mine = t.mine
  BY <1>2, <1>3, AfterFields
<1>5. WroteOK(n, r, live)
  OBVIOUS
<1> HIDE DEF n
<1>6. /\ Continues(n, u, Wanted(p), "next") /\ n.ptr = u.ptr /\ n.seen = u.seen
      /\ n.mine.rows = u.mine.rows /\ n.items = u.items /\ n.pc = "next"
      /\ n.keys = u.keys \cup Wanted(p) /\ n.mine.live = t.mine.live
  BY <1>4 DEF Continues, IsButMine
<1>7. Current(u) = {r} /\ Current(n) = {r} /\ RecOf(n) = r /\ r \notin Past(u)
  BY <1>2, <1>6, RecIsNew DEF Current, Continues, RecOf, AllDone
<1>8. DOMAIN u.mine.rows = Past(u) \cup {r} /\ DOMAIN u.mine.live \subseteq DOMAIN u.mine.rows
  BY <1>2, <1>7 DEF Shape
<1>9. /\ DOMAIN n.mine.live \subseteq DOMAIN n.mine.rows
      /\ \A x \in Past(u) :
           /\ x \in DOMAIN n.mine.live <=> x \in DOMAIN u.mine.live
           /\ x \in DOMAIN u.mine.live => n.mine.live[x] = u.mine.live[x]
  <2>1. CASE t.mine.live = u.mine.live
    BY <1>6, <1>8, <2>1
  <2>2. ASSUME NEW d \in Doc, t.mine.live = With(u.mine.live, r, d)
        PROVE  <1>9!1 /\ <1>9!2
    BY <1>6, <1>7, <1>8, <2>2 DEF With
  <2>. QED
    BY <2>1, <2>2
<1>10. RecordedOK(n, r, heads, history)
  <2>1. RecordedOK(u, r, heads, history)
    BY <1>2, <1>8 DEF TxOK, HeadsOK
  <2>. QED
    BY <1>6, <2>1, RecordedGrows
<1>11. /\ Past(n) = Past(u)
       /\ Shape(n, backend) /\ HeadsOK(n, heads, history)
       /\ SnapshotOK(n, live, heads, twins, moved)
       /\ \A x \in Past(u) : WroteOK(n, x, live)
  <2>1. Fits("next", item)
    BY DEF Fits
  <2>. QED
    BY <1>2, <1>6, <1>7, <1>8, <1>9, <1>10, <2>1, ContinuesKeeps
<1>12. PtrOK(n, heads)
  <2>1. PtrOK(u, heads)
    BY <1>2 DEF TxOK
  <2>. QED
    BY <1>6, <1>7, <2>1 DEF PtrOK
<1>13. LiveOK(n, live)
  BY <1>5, <1>6, <1>7, <1>8, <1>11 DEF LiveOK
<1>14. TxOK(n, backend, live, heads, history, twins, moved)
  BY <1>11, <1>12, <1>13 DEF TxOK
<1>15. Continues(n, t, Wanted(p), Advance(t.pc, ItemOf(p)))
  BY <1>3, <1>4
<1>16. t.items = u.items /\ t.order = u.order /\ t.at = u.at /\ t.keys = u.keys /\ t.pc = u.pc
  BY DEF IsButMine
<1>17. n = After(t, p)
  BY DEF n
<1>. QED
  BY <1>1, <1>6, <1>14, <1>15, <1>16, <1>17, GoesStep

(* What is written of a document is a document, and has the content the    *)
(* given one has once it is written.                                       *)
LEMMA RuntimeIsDoc ==
  ASSUME NEW d \in Doc
  PROVE  RuntimeDoc(d) \in Doc /\ HashDoc(RuntimeDoc(d)) = RuntimeBody[HashDoc(d)]
BY RuntimeAssumption DEF RuntimeDoc, Doc, HashDoc

(* So is what a put leaves, though part of it was there before.            *)
LEMMA PutIsDoc ==
  ASSUME NEW cur \in Doc, NEW new \in Doc
  PROVE  PutRecord(cur, new) \in Doc /\ HashDoc(PutRecord(cur, new)) = RuntimeBody[HashDoc(new)]
<1>. DEFINE d == RuntimeDoc(new)
<1>1. d \in Doc /\ HashDoc(d) = RuntimeBody[HashDoc(new)]
  BY RuntimeIsDoc
<1>. HIDE DEF d
<1>2. /\ [d EXCEPT !.sec = IF new.sec = None THEN cur.sec ELSE new.sec] \in Doc
      /\ HashDoc([d EXCEPT !.sec = IF new.sec = None THEN cur.sec ELSE new.sec]) = HashDoc(d)
  BY <1>1 DEF Doc, HashDoc
<1>3. PutPostgres(cur, new) \in Doc /\ HashDoc(PutPostgres(cur, new)) = HashDoc(d)
  BY <1>2 DEF PutPostgres, d
<1>4. ASSUME NEW x \in Doc
      PROVE  /\ [x EXCEPT !.ign.fields = cur.ign.fields] \in Doc
             /\ HashDoc([x EXCEPT !.ign.fields = cur.ign.fields]) = HashDoc(x)
  BY DEF Doc, Ignored, HashDoc
<1>5. PutMongo(cur, new) \in Doc /\ HashDoc(PutMongo(cur, new)) = HashDoc(d)
  BY <1>3, <1>4 DEF PutMongo
<1>. QED
  BY <1>1, <1>3, <1>5 DEF PutRecord

(* Seed inserts the live record, where nobody has inserted one: on         *)
(* postgres the key says so, on mongo the snapshot.                        *)
LEMMA SeedStep ==
  ASSUME IInv, NEW p \in Clients, Seed(p)
  PROVE  IInv'
<1> DEFINE u == tx[p]
<1> DEFINE r == RecOf(u)
<1> DEFINE item == u.items[r]
<1> DEFINE doc == RuntimeDoc(item.newDoc)
<1> DEFINE t == Wrote(p)
<1>1. u.pc = "seed" /\ u.pc \in Steps /\ Runs(p) /\ Stay
  BY DEF Seed, Statement, Steps
<1>2. /\ TxOK(u, backend, live, heads, history, twins, moved) /\ Shape(u, backend)
      /\ u \in Transaction /\ r \in Records /\ item \in Item /\ ItemOK(item)
      /\ Rec(p) = r /\ ItemOf(p) = item /\ backend \in {"postgres", "mongo"}
      /\ u.seen = None <=> backend = "postgres"
      /\ Wanted(p) \subseteq Keys
  BY <1>1, StatementFacts
<1>3. \/ Raise(p, "failed")
      \/ (backend = "postgres" => live[r] = None) /\ Goes(p, t)
  BY <1>2 DEF Seed, UniqueId
<1>4. CASE Raise(p, "failed")
  BY <1>1, <1>4, RaiseStep
<1>5. CASE (backend = "postgres" => live[r] = None) /\ Goes(p, t)
  <2>1. item.seed /\ item.newDoc # None /\ item.newDoc \in Doc
    BY <1>1, <1>2 DEF Shape, Fits, ItemOK, Item
  <2>2. NewLive(p) = doc /\ doc \in Doc
    BY <1>2, <2>1, RuntimeIsDoc DEF NewLive
  <2>3. t = LiveWritten(u, r, doc)
    BY <1>2, <2>2 DEF Wrote, LiveWritten
  <2> HIDE DEF t, doc
  <2>4. IsButMine(t, u) /\ t.mine.rows = u.mine.rows
          /\ t.mine.live = With(u.mine.live, r, doc)
    BY <1>2, <2>2, <2>3, WritesLive
  <2> DEFINE n == After(t, p)
  <2>5. t \in Transaction /\ Advance(t.pc, ItemOf(p)) = "next"
    <3>1. t \in Transaction /\ t.pc = "seed"
      BY <1>1, <2>4 DEF IsButMine
    <3>. QED
      BY <3>1 DEF Advance
  <2>6. Continues(n, t, Wanted(p), "next") /\ n.seen = t.seen /\ n.mine = t.mine
    BY <1>2, <2>5, AfterFields
  <2> HIDE DEF n
  <2>7. /\ n.items = u.items /\ n.seen = u.seen /\ n.keys = u.keys \cup Wanted(p)
        /\ n.mine.live = With(u.mine.live, r, doc)
    BY <2>4, <2>6 DEF Continues, IsButMine
  <2>8. r \in DOMAIN n.mine.live /\ n.mine.live[r] = doc
    BY <2>7 DEF With
  <2>9. LiveIn(n, r, live) = None /\ (n.seen # None => r \notin n.seen.twins)
    BY <1>1, <1>2, <1>5, <2>7 DEF TxOK, LiveOK, LiveIn
  <2>10. n.seen = None => Key("live", r, 0) \in n.keys
    <3>1. backend = "postgres" => Key("live", r, 0) \in Wanted(p)
      BY <1>1, <1>2 DEF Wanted, UniqueId
    <3>. QED
      BY <1>2, <2>7, <3>1
  <2>11. WroteOK(n, r, live)
    BY <2>1, <2>7, <2>8, <2>9, <2>10 DEF WroteOK, SeededOK, doc
  <2>. QED
    BY <1>1, <1>5, <2>1, <2>2, <2>4, <2>11, WriteStep DEF n
<1>. QED
  BY <1>3, <1>4, <1>5

(* Put writes what it has to change, and on postgres locks the record in   *)
(* any case.                                                               *)
LEMMA PutStep ==
  ASSUME IInv, NEW p \in Clients, Put(p)
  PROVE  IInv'
<1> DEFINE u == tx[p]
<1> DEFINE r == RecOf(u)
<1> DEFINE item == u.items[r]
<1> DEFINE doc == LiveSeen(p, r)
<1> DEFINE put == PutRecord(doc, item.newDoc)
<1> DEFINE t == IF put = doc THEN u ELSE Wrote(p)
<1>1. u.pc = "put" /\ u.pc \in Steps /\ Runs(p) /\ Stay
  BY DEF Put, Statement, Steps
<1>2. /\ TxOK(u, backend, live, heads, history, twins, moved) /\ Shape(u, backend)
      /\ u \in Transaction /\ r \in Records /\ item \in Item /\ ItemOK(item)
      /\ Rec(p) = r /\ ItemOf(p) = item /\ backend \in {"postgres", "mongo"}
      /\ u.seen = None <=> backend = "postgres"
      /\ doc = LiveIn(u, r, live) /\ doc \in Doc \cup {None}
      /\ Wanted(p) \subseteq Keys
  BY <1>1, StatementFacts
<1>3. item.newDoc \in Doc /\ ~item.seed /\ item.expectedLive # None
  BY <1>1, <1>2 DEF Shape, Fits, ItemOK, Item
<1>4. NewLive(p) = put
  BY <1>2, <1>3 DEF NewLive
<1>5. \/ \E result \in {"ambiguous", "not_found"} : Raise(p, result)
      \/ doc # None /\ Goes(p, t)
  BY <1>2, <1>4 DEF Put
<1>6. CASE \E result \in {"ambiguous", "not_found"} : Raise(p, result)
  BY <1>1, <1>6, RaiseStep
<1>7. CASE doc # None /\ Goes(p, t)
  <2>1. doc \in Doc /\ put \in Doc
    BY <1>2, <1>3, <1>7, PutIsDoc
  <2>2. ReadOK(u, r, live) /\ r \notin DOMAIN u.mine.live
    BY <1>1, <1>2, <1>3 DEF TxOK, LiveOK
  <2>3. /\ IsButMine(t, u) /\ t.mine.rows = u.mine.rows
        /\ t.mine.live = IF put = doc THEN u.mine.live ELSE With(u.mine.live, r, put)
    <3>1. CASE put = doc
      BY <1>2, <3>1 DEF IsButMine
    <3>2. CASE put # doc
      <4>1. t = LiveWritten(u, r, put)
        BY <1>2, <1>4, <3>2 DEF Wrote, LiveWritten
      <4> HIDE DEF put, t
      <4>. QED
        BY <1>2, <2>1, <3>2, <4>1, WritesLive
    <3>. QED
      BY <3>1, <3>2
  <2>4. (put # doc \/ backend = "postgres") => Key("live", r, 0) \in Wanted(p)
    BY <1>1, <1>2, <1>4, <2>1 DEF Wanted
  <2> HIDE DEF t
  <2> DEFINE n == After(t, p)
  <2>5. t \in Transaction /\ Advance(t.pc, ItemOf(p)) = "next"
    BY <1>1, <2>3 DEF IsButMine, Advance
  <2>6. Continues(n, t, Wanted(p), "next") /\ n.seen = t.seen /\ n.mine = t.mine
    BY <1>2, <2>5, AfterFields
  <2> HIDE DEF n
  <2>7. /\ n.items = u.items /\ n.seen = u.seen /\ n.keys = u.keys \cup Wanted(p)
        /\ n.mine.live = IF put = doc THEN u.mine.live ELSE With(u.mine.live, r, put)
    BY <2>3, <2>6 DEF Continues, IsButMine
  <2>8. LiveIn(n, r, live) = doc /\ ReadOK(n, r, live)
    BY <1>2, <2>2, <2>7 DEF LiveIn, ReadOK
  <2>9. r \in DOMAIN n.mine.live =>
          put # doc /\ n.mine.live[r] = put /\ Key("live", r, 0) \in n.keys
    BY <2>2, <2>4, <2>7 DEF With
  <2>10. r \notin DOMAIN n.mine.live => put = doc
    BY <2>7 DEF With
  <2>11. n.seen = None => doc = live[r]
    BY <1>2, <2>7 DEF LiveIn
  <2>12. PutOK(n, r, live)
    BY <2>7, <2>8, <2>9, <2>10, <2>11 DEF PutOK
  <2>13. WroteOK(n, r, live)
    BY <1>3, <2>7, <2>12, NoneIsApart DEF WroteOK
  <2>. QED
    BY <1>1, <1>7, <2>1, <2>3, <2>13, WriteStep DEF n
<1>. QED
  BY <1>5, <1>6, <1>7

(* PutRef marks the pull request, which nobody else is at, once the items  *)
(* are done.                                                               *)
LEMMA PutRefStep ==
  ASSUME IInv, NEW p \in Clients, PutRef(p)
  PROVE  IInv'
<1> DEFINE u == tx[p]
<1> DEFINE key == Key("ref", None, 0)
<1> DEFINE mine == [u.mine EXCEPT !.ref = TRUE]
<1> DEFINE n == [u EXCEPT !.keys = u.keys \cup {key}, !.mine = mine, !.pc = "commit"]
<1>1. u.pc = "put_ref" /\ u.pc \in Steps /\ Runs(p) /\ Stay
  BY DEF PutRef, Statement, Steps
<1>2. TxOK(u, backend, live, heads, history, twins, moved)
  BY <1>1, UnderWay
<1>3. Shape(u, backend) /\ HeadsOK(u, heads, history) /\ LiveOK(u, live) /\ u \in Transaction
        /\ SnapshotOK(u, live, heads, twins, moved) /\ backend \in {"postgres", "mongo"}
  BY <1>2 DEF TxOK, Shape
<1>4. Wanted(p) = {key}
  BY <1>1 DEF Wanted
<1>5. Set(p, n)
  BY <1>3, <1>4 DEF PutRef, Transaction, Writes
<1>6. key \in Keys /\ key.kind = "ref" /\ \A r : key # Key("head", r, 0)
  BY DEF Key, Keys
<1>7. \A q \in Clients \ {p} : key \notin tx[q].keys
  BY <1>1, <1>3, <1>4, RunsFree
<1>8. key \notin u.stale
  <2>1. backend = "postgres" => u.stale = {}
    BY <1>3 DEF Shape
  <2>. QED
    BY <1>1, <1>3, <1>4, <2>1, RunsFree
<1> HIDE DEF key
<1>9. mine \in Writes /\ mine.live = u.mine.live /\ mine.heads = u.mine.heads
        /\ mine.rows = u.mine.rows /\ mine.ref = TRUE
  BY <1>3 DEF Transaction, Writes
<1> HIDE DEF mine
<1>10. /\ n \in Transaction /\ n.mine = mine /\ n.pc = "commit" /\ n.keys = u.keys \cup {key}
       /\ n.items = u.items /\ n.order = u.order /\ n.refs = u.refs /\ n.at = u.at
       /\ n.ptr = u.ptr /\ n.seen = u.seen /\ n.stale = u.stale
  BY <1>3, <1>6, <1>9 DEF Transaction, Steps
<1> HIDE DEF n
<1>11. Past(n) = Past(u) /\ Current(n) = {} /\ Current(u) = {} /\ RecOf(n) = RecOf(u)
  BY <1>1, <1>10 DEF Past, Current, AllDone, RecOf
<1>12. Shape(n, backend)
  <2>1. u.refs /\ u.at = Len(u.order)
    BY <1>1, <1>3 DEF Shape, AllDone
  <2>2. Fits(n.pc, n.items[RecOf(n)])
    BY <1>10 DEF Fits
  <2>3. backend = "mongo" => n.seen # None
    BY <1>1, <1>3, <1>10 DEF Shape
  <2>. QED
    BY <1>3, <1>9, <1>10, <1>11, <2>1, <2>2, <2>3 DEF Shape
<1>13. HeadsOK(n, heads, history)
  <2>1. ASSUME NEW r \in DOMAIN n.mine.rows PROVE RecordedOK(n, r, heads, history)
    <3>1. RecordedOK(u, r, heads, history)
      BY <1>3, <1>9, <1>10, <2>1 DEF HeadsOK
    <3>. QED
      BY <1>9, <1>10, <3>1, RecordedGrows
  <2>. QED
    BY <1>3, <1>6, <1>9, <1>10, <2>1 DEF HeadsOK
<1>14. PtrOK(n, heads)
  BY <1>10 DEF PtrOK
<1>15. LiveOK(n, live)
  <2>1. ASSUME NEW r \in DOMAIN n.mine.rows PROVE WroteOK(n, r, live)
    <3>1. WroteOK(u, r, live)
      BY <1>1, <1>3, <1>9, <1>10, <2>1 DEF LiveOK
    <3>. QED
      BY <1>9, <1>10, <3>1, WroteGrows
  <2>. QED
    BY <1>10, <2>1 DEF LiveOK
<1>16. SnapshotOK(n, live, heads, twins, moved)
  BY <1>3, <1>8, <1>10 DEF SnapshotOK, LiveAsSeen, RecordAsSeen
<1>17. TxOK(n, backend, live, heads, history, twins, moved) /\ n.pc # "next"
  BY <1>10, <1>12, <1>13, <1>14, <1>15, <1>16 DEF TxOK
<1>18. \A q \in Clients \ {p} : n.keys \cap tx[q].keys = {}
  BY <1>7, <1>10 DEF IInv, KeysAreOnes
<1>. QED
  BY <1>1, <1>5, <1>17, <1>18, OwnStep

-----------------------------------------------------------------------------
(***************************************************************************)
(* A transaction that begins, or begins again.                             *)
(***************************************************************************)
IsFresh(n, items, order, refs) ==
  /\ n \in Transaction
  /\ n.pc = "read_head" /\ n.items = items /\ n.order = order /\ n.refs = refs /\ n.at = 1
  /\ n.seen = None /\ n.mine = NoWrites /\ n.keys = {} /\ n.stale = {}

(* Both ways it is made.                                                   *)
LEMMA NoTxFields ==
  ASSUME NEW items \in Partial(Records, Item), NEW order \in Seq(Records),
         NEW refs \in BOOLEAN, NEW tries \in Nat
  PROVE  /\ IsFresh([NoTx EXCEPT !.pc = "read_head", !.items = items, !.order = order,
                                 !.refs = refs], items, order, refs)
         /\ IsFresh([NoTx EXCEPT !.pc = "read_head", !.items = items, !.order = order,
                                 !.refs = refs, !.tries = tries], items, order, refs)
<1> DEFINE a == [NoTx EXCEPT !.pc = "read_head", !.items = items, !.order = order,
                             !.refs = refs]
<1> DEFINE b == [NoTx EXCEPT !.pc = "read_head", !.items = items, !.order = order,
                             !.refs = refs, !.tries = tries]
<1>1. NoHead \in HeadType
  BY DEF NoHead, HeadType
<1>2. NoWrites \in Writes
  BY EmptyIsPartial DEF NoWrites, Writes
<1>3. a \in Transaction
  BY <1>1, <1>2 DEF NoTx, Transaction, Steps
<1>4. b \in Transaction
  BY <1>1, <1>2 DEF NoTx, Transaction, Steps
<1>5. /\ a.pc = "read_head" /\ a.items = items /\ a.order = order /\ a.refs = refs /\ a.at = 1
      /\ a.seen = None /\ a.mine = NoWrites /\ a.keys = {} /\ a.stale = {}
  BY DEF NoTx
<1>6. /\ b.pc = "read_head" /\ b.items = items /\ b.order = order /\ b.refs = refs /\ b.at = 1
      /\ b.seen = None /\ b.mine = NoWrites /\ b.keys = {} /\ b.stale = {}
  BY DEF NoTx
<1>. QED
  BY <1>3, <1>4, <1>5, <1>6 DEF IsFresh

(* It has nothing that could be wrong yet.                                 *)
LEMMA FreshIsRight ==
  ASSUME NEW n, NEW items \in Partial(Records, Item), NEW order \in Seq(Records),
         NEW refs, IsFresh(n, items, order, refs), order # <<>>,
         \A i, j \in 1 .. Len(order) : order[i] = order[j] => i = j,
         DOMAIN items = {order[i] : i \in 1 .. Len(order)},
         \A r \in DOMAIN items : ItemOK(items[r]),
         NEW be \in {"postgres", "mongo"},
         NEW lv, NEW hs, NEW hist, NEW tw, NEW mv
  PROVE  n.keys = {} /\ n.pc # "next" /\ TxOK(n, be, lv, hs, hist, tw, mv)
<1>1. /\ n.pc = "read_head" /\ n.items = items /\ n.order = order /\ n.at = 1
      /\ n.seen = None /\ n.mine = NoWrites /\ n.keys = {} /\ n.stale = {}
  BY DEF IsFresh
<1>2. /\ DOMAIN NoWrites.live = {} /\ DOMAIN NoWrites.heads = {} /\ DOMAIN NoWrites.rows = {}
      /\ NoWrites.ref = FALSE
  BY EmptyIsPartial DEF NoWrites
<1>3. n \in Transaction
  BY DEF IsFresh
<1>4. Len(order) \in Nat /\ 1 \in 1 .. Len(order)
  OBVIOUS
<1>5. Past(n) = {}
  BY <1>1, <1>4 DEF Past, AllDone
<1>6. Current(n) = {}
  BY <1>1 DEF Current
<1>7. Fits(n.pc, n.items[RecOf(n)])
  BY <1>1 DEF Fits
<1>8. Shape(n, be)
  BY <1>1, <1>2, <1>3, <1>4, <1>5, <1>6, <1>7 DEF Shape, AllDone
<1>9. HeadsOK(n, hs, hist)
  BY <1>1, <1>2 DEF HeadsOK
<1>10. PtrOK(n, hs)
  BY <1>1 DEF PtrOK
<1>11. LiveOK(n, lv)
  BY <1>1, <1>2 DEF LiveOK
<1>12. SnapshotOK(n, lv, hs, tw, mv)
  BY <1>1 DEF SnapshotOK
<1>. QED
  BY <1>1, <1>8, <1>9, <1>10, <1>11, <1>12 DEF TxOK

(* What a call of apply or apply_many may be given.                        *)
LEMMA CallStep ==
  ASSUME IInv, NEW p \in Clients, NEW items \in Partial(Records, Item),
         NEW order \in Seq(Records), order # <<>>, NEW refs \in BOOLEAN,
         \A i, j \in 1 .. Len(order) : order[i] = order[j] => i = j,
         DOMAIN items = {order[i] : i \in 1 .. Len(order)},
         \A r \in DOMAIN items : ItemOK(items[r]),
         Call(p, order, items, refs)
  PROVE  IInv'
<1>1. Stay
  BY DEF Call, Stay
<1>2. CASE backend = "standalone"
  <2>1. Set(p, Ended(p, "atomicity_unavailable"))
    BY <1>2 DEF Call
  <2>. QED
    BY <1>1, <2>1, RaiseStep DEF Raise
<1>3. CASE backend # "standalone"
  <2> DEFINE n == [NoTx EXCEPT !.pc = "read_head", !.items = items, !.order = order,
                               !.refs = refs]
  <2>1. Set(p, n)
    BY <1>3 DEF Call
  <2>2. backend \in {"postgres", "mongo"}
    BY <1>3 DEF IInv, StoreInv, Backends
  <2>3. IsFresh(n, items, order, refs)
    BY NoTxFields
  <2> HIDE DEF n
  <2>4. n.keys = {} /\ n.pc # "next"
          /\ TxOK(n, backend, live, heads, history, twins, moved)
    BY <2>2, <2>3, FreshIsRight
  <2>. QED
    BY <1>1, <2>1, <2>4, OwnStep
<1>. QED
  BY <1>2, <1>3

(* The items the callers make: what adopt and what commit or restore write.*)
LEMMA CallsAreItems ==
  ASSUME IInv, NEW r \in Records, NEW d \in Doc, NEW op \in OpNames
  PROVE  /\ live[r] # None => RecordOnly(r) \in Item /\ ItemOK(RecordOnly(r))
         /\ RecordAndWrite(r, d, op) \in Item /\ ItemOK(RecordAndWrite(r, d, op))
<1>1. live[r] \in Doc \cup {None} /\ heads[r] \in HeadType
  BY DEF IInv, StoreInv
<1>2. heads[r].oid \in Bodies \cup {None}
  BY <1>1 DEF HeadType
<1>3. \A e \in Doc : HashDoc(e) \in Bodies /\ HashDoc(e) # None /\ StoredDoc(e) \in Doc
  BY NoneAssumption DEF HashDoc, StoredDoc, Doc
<1>4. ASSUME live[r] # None PROVE RecordOnly(r) \in Item /\ ItemOK(RecordOnly(r))
  <2>1. live[r] \in Doc
    BY <1>1, <1>4
  <2> DEFINE entry == [oid |-> HashDoc(live[r]), parent |-> heads[r].oid,
                       doc |-> StoredDoc(live[r]), op |-> "adopt", from |-> 0, to |-> None]
  <2>2. entry \in Row
    BY <1>2, <1>3, <2>1 DEF Row, OpNames
  <2> HIDE DEF entry
  <2>3. RecordOnly(r) = [newDoc |-> None, entry |-> entry, expectedHead |-> heads[r].oid,
                         expectedLive |-> None, seed |-> FALSE]
    BY DEF RecordOnly, entry
  <2>. QED
    BY <1>2, <2>2, <2>3 DEF Item, ItemOK
<1>5. RecordAndWrite(r, d, op) \in Item /\ ItemOK(RecordAndWrite(r, d, op))
  <2> DEFINE entry == [oid |-> HashDoc(d), parent |-> heads[r].oid,
                       doc |-> StoredDoc(d), op |-> op, from |-> 0, to |-> None]
  <2> DEFINE expected == IF live[r] = None THEN None ELSE HashDoc(live[r])
  <2>1. entry \in Row
    BY <1>2, <1>3 DEF Row, OpNames
  <2> DEFINE seed == live[r] = None
  <2>2. expected \in Bodies \cup {None} /\ (expected = None <=> seed) /\ seed \in BOOLEAN
    BY <1>1, <1>3
  <2> HIDE DEF entry, expected, seed
  <2> DEFINE item == [newDoc |-> d, entry |-> entry, expectedHead |-> heads[r].oid,
                      expectedLive |-> expected, seed |-> seed]
  <2>3. RecordAndWrite(r, d, op) = item
    BY DEF RecordAndWrite, entry, expected, seed
  <2>4. item \in Item
    BY <1>2, <2>1, <2>2 DEF Item
  <2>5. item.newDoc = d /\ item.expectedLive = expected /\ item.seed = seed
    OBVIOUS
  <2> HIDE DEF item
  <2>6. ItemOK(item)
    BY <2>2, <2>5, NoneIsApart DEF ItemOK
  <2>. QED
    BY <2>3, <2>4, <2>6
<1>. QED
  BY <1>4, <1>5

(* apply.                                                                  *)
LEMMA ApplyOneStep ==
  ASSUME IInv, NEW p \in Clients, ApplyOne(p)
  PROVE  IInv'
<1>1. PICK r \in Busy : \E item \in Calls(r) : Call(p, <<r>>, [x \in {r} |-> item], FALSE)
  BY DEF ApplyOne
<1>2. PICK item \in Calls(r) : Call(p, <<r>>, [x \in {r} |-> item], FALSE)
  BY <1>1
<1>3. r \in Records
  BY AttemptAssumption
<1>4. item \in Item /\ ItemOK(item)
  <2>1. \/ live[r] # None /\ item = RecordOnly(r)
        \/ \E d \in Doc, op \in OpNames : item = RecordAndWrite(r, d, op)
    BY DEF Calls, OpNames
  <2>2. CASE live[r] # None /\ item = RecordOnly(r)
    <3>1. live[r] \in Doc
      BY <1>3, <2>2 DEF IInv, StoreInv
    <3>. QED
      BY <1>3, <2>2, <3>1, CallsAreItems DEF OpNames
  <2>3. ASSUME NEW d \in Doc, NEW op \in OpNames, item = RecordAndWrite(r, d, op) PROVE item \in Item /\ ItemOK(item)
    BY <1>3, <2>3, CallsAreItems
  <2>. QED
    BY <2>1, <2>2, <2>3
<1> DEFINE items == [x \in {r} |-> item]
<1>5. items \in Partial(Records, Item)
  <2>1. {r} \in SUBSET Records /\ items \in [{r} -> Item]
    BY <1>3, <1>4
  <2> HIDE DEF items
  <2>. QED
    BY <2>1 DEF Partial
<1>6. DOMAIN items = {r} /\ items[r] = item
  OBVIOUS
<1>7. <<r>> \in Seq(Records) /\ Len(<<r>>) = 1 /\ <<r>>[1] = r /\ <<r>> # <<>>
  BY <1>3
<1> HIDE DEF items
<1>8. Call(p, <<r>>, items, FALSE)
  BY <1>2 DEF items
<1>9. DOMAIN items = {<<r>>[i] : i \in 1 .. Len(<<r>>)}
  BY <1>6, <1>7
<1>10. \A i, j \in 1 .. Len(<<r>>) : <<r>>[i] = <<r>>[j] => i = j
  BY <1>7
<1>11. \A x \in DOMAIN items : ItemOK(items[x])
  BY <1>4, <1>6
<1>. QED
  BY <1>5, <1>7, <1>8, <1>9, <1>10, <1>11, CallStep

(* apply_many takes every record once: as many places as records, and no   *)
(* record at two of them.                                                  *)
LEMMA ApplySeveralStep ==
  ASSUME IInv, NEW p \in Clients, ApplySeveral(p)
  PROVE  IInv'
<1>1. PICK order \in SetToSeqs(Records), d \in Doc :
        /\ Cardinality(Records) > 1
        /\ Call(p, order, [r \in Records |-> RecordAndWrite(r, d, "merge")], TRUE)
  BY DEF ApplySeveral
<1> DEFINE n == Cardinality(Records)
<1> DEFINE items == [r \in Records |-> RecordAndWrite(r, d, "merge")]
<1>2. n \in Nat /\ n > 1 /\ IsFiniteSet(Records)
  BY <1>1, RecordsAssumption, FS_CardinalityType
<1>3. order \in [1 .. n -> Records] /\ \A i, j \in 1 .. n : i # j => order[i] # order[j]
  BY DEF SetToSeqs
<1>4. order \in Surjection(1 .. n, Records)
  <2>1. order \in Injection(1 .. n, Records)
    BY <1>3 DEF Injection, IsInjective
  <2>2. Cardinality(1 .. n) = n
    <3>1. 1 \in Int /\ n \in Int
      BY <1>2
    <3>2. Cardinality(1 .. n) = IF 1 > n THEN 0 ELSE n - 1 + 1
      BY <3>1, FS_Interval
    <3>. QED
      BY <1>2, <3>2
  <2>. QED
    BY <1>2, <2>1, <2>2, FS_Injection
<1>5. order \in Seq(Records) /\ Len(order) = n /\ order # <<>>
  BY <1>2, <1>3
<1>6. \A r \in Records : RecordAndWrite(r, d, "merge") \in Item /\ ItemOK(RecordAndWrite(r, d, "merge"))
  BY CallsAreItems DEF OpNames
<1>7. items \in Partial(Records, Item)
  <2>1. items \in [Records -> Item] /\ Records \in SUBSET Records
    BY <1>6
  <2>. QED
    BY <2>1 DEF Partial
<1>8. DOMAIN items = {order[i] : i \in 1 .. Len(order)}
  BY <1>3, <1>4, <1>5 DEF Surjection
<1>9. \A i, j \in 1 .. Len(order) : order[i] = order[j] => i = j
  BY <1>3, <1>5
<1>10. \A r \in DOMAIN items : ItemOK(items[r])
  BY <1>6
<1>. QED
  BY <1>1, <1>5, <1>7, <1>8, <1>9, <1>10, CallStep

(* The database aborts a transaction, which is tried again or given up.    *)
LEMMA AbortStep ==
  ASSUME IInv, NEW p \in Clients, Abort(p)
  PROVE  IInv'
<1> DEFINE u == tx[p]
<1>1. u.pc \in Steps /\ Stay
  BY DEF Abort, Running
<1>2. TxOK(u, backend, live, heads, history, twins, moved)
  BY <1>1, UnderWay
<1>3. CASE Set(p, Ended(p, "failed"))
  BY <1>1, <1>3, RaiseStep DEF Raise
<1>4. CASE Set(p, Again(p))
  <2> DEFINE n == Again(p)
  <2>1. u \in Transaction /\ Shape(u, backend)
    BY <1>2 DEF TxOK, Shape
  <2>2. u.items \in Partial(Records, Item) /\ u.order \in Seq(Records) /\ u.tries + 1 \in Nat
          /\ u.refs \in BOOLEAN
    BY <2>1 DEF Transaction
  <2>3. IsFresh(n, u.items, u.order, u.refs)
    BY <2>2, NoTxFields DEF Again
  <2> HIDE DEF n
  <2>4. u.order # <<>>
    BY <2>1 DEF Shape
  <2>5. n.keys = {} /\ n.pc # "next"
          /\ TxOK(n, backend, live, heads, history, twins, moved)
    BY <2>1, <2>2, <2>3, <2>4, FreshIsRight DEF Shape
  <2>. QED
    BY <1>1, <1>4, <2>5, OwnStep DEF n
<1>. QED
  BY <1>3, <1>4 DEF Abort

(* A client dies, and the database rolls its transaction back.             *)
LEMMA DieStep ==
  ASSUME IInv, NEW p \in Clients, Die(p)
  PROVE  IInv'
BY RaiseStep DEF Die

-----------------------------------------------------------------------------
(***************************************************************************)
(* The steps that change the store.                                        *)
(***************************************************************************)

(* What others wrote is stale to a transaction that has its snapshot.      *)
LEMMA OutdatedFields ==
  ASSUME NEW t \in Transaction, NEW ks \in SUBSET Keys
  PROVE  LET n == Outdated(t, ks)
         IN  /\ n \in Transaction
             /\ n.pc = t.pc /\ n.items = t.items /\ n.order = t.order /\ n.at = t.at
             /\ n.refs = t.refs
             /\ n.ptr = t.ptr /\ n.seen = t.seen /\ n.mine = t.mine /\ n.keys = t.keys
             /\ n.stale = IF t.seen # None THEN t.stale \cup ks ELSE t.stale
<1> DEFINE n == [t EXCEPT !.stale = t.stale \cup ks]
<1>1. CASE t.seen = None
  BY <1>1 DEF Outdated
<1>2. CASE t.seen # None
  <2>1. Outdated(t, ks) = n
    BY <1>2 DEF Outdated, Transaction
  <2>2. t.stale \cup ks \in SUBSET Keys
    BY DEF Transaction
  <2>3. /\ n \in Transaction
        /\ n.pc = t.pc /\ n.items = t.items /\ n.order = t.order /\ n.at = t.at
        /\ n.refs = t.refs
        /\ n.ptr = t.ptr /\ n.seen = t.seen /\ n.mine = t.mine /\ n.keys = t.keys
        /\ n.stale = t.stale \cup ks
    BY <2>2 DEF Transaction
  <2> HIDE DEF n
  <2>. QED
    BY <1>2, <2>1, <2>3
<1>. QED
  BY <1>1, <1>2

(* It has the keys it had.                                                 *)
LEMMA OutdatedKeys ==
  ASSUME IInv, NEW p \in Clients, NEW ks \in SUBSET Keys
  PROVE  Outdated(tx[p], ks).keys = tx[p].keys
<1>1. CASE OverOK(tx[p])
  <2>1. Outdated(tx[p], ks) = tx[p]
    BY <1>1, OverFacts
  <2>. QED
    BY <2>1
<1>2. CASE tx[p] \in Transaction
  BY <1>2, OutdatedFields
<1>. QED
  BY <1>1, <1>2 DEF IInv, TxsOK, TxOK, Shape

(* A change of the store that leaves alone what t has a key of, and that   *)
(* is stale to t where it changes what t has in its snapshot.              *)
Spares(t, n, lv, hs, hist, tw, mv, lv2, hs2, hist2, tw2, mv2) ==
  /\ \A r \in Records : Key("live", r, 0) \in t.keys /\ t.seen = None => lv2[r] = lv[r]
  /\ \A r \in Records : Key("row", r, hs[r].seq + 1) \in t.keys =>
       hs2[r] = hs[r] /\ hist2[r] = hist[r]
  /\ \A r \in Records : Key("head", r, 0) \in t.keys => hs2[r] = hs[r]
  /\ t.seen # None => \A r \in Records :
       /\ lv[r] # None /\ Key("live", r, 0) \notin n.stale => lv2[r] = lv[r]
       /\ Key("row", r, hs[r].seq + 1) \notin n.stale =>
            /\ hs2[r] = hs[r]
            /\ r \in tw2 => r \in tw
            /\ r \notin mv2 => r \notin mv /\ lv2[r] = lv[r]
  /\ \A k \in t.keys : k.kind # "head" => k \notin n.stale

(* Such a change leaves the transaction right.                             *)
LEMMA SparedIsRight ==
  ASSUME NEW t, NEW ks \in SUBSET Keys, NEW be, NEW lv \in [Records -> Doc \cup {None}],
         NEW hs, NEW hist, NEW tw, NEW mv,
         NEW lv2, NEW hs2, NEW hist2, NEW tw2, NEW mv2,
         TxOK(t, be, lv, hs, hist, tw, mv),
         Spares(t, Outdated(t, ks), lv, hs, hist, tw, mv, lv2, hs2, hist2, tw2, mv2)
  PROVE  TxOK(Outdated(t, ks), be, lv2, hs2, hist2, tw2, mv2)
<1> DEFINE n == Outdated(t, ks)
<1>1. Shape(t, be) /\ HeadsOK(t, hs, hist) /\ PtrOK(t, hs) /\ LiveOK(t, lv)
        /\ SnapshotOK(t, lv, hs, tw, mv) /\ t \in Transaction
  BY DEF TxOK, Shape
<1>2. /\ n \in Transaction
      /\ n.pc = t.pc /\ n.items = t.items /\ n.order = t.order /\ n.at = t.at
      /\ n.refs = t.refs
             /\ n.refs = t.refs
      /\ n.ptr = t.ptr /\ n.seen = t.seen /\ n.mine = t.mine /\ n.keys = t.keys
      /\ n.stale = IF t.seen # None THEN t.stale \cup ks ELSE t.stale
  BY <1>1, OutdatedFields
<1>3. Spares(t, n, lv, hs, hist, tw, mv, lv2, hs2, hist2, tw2, mv2)
  OBVIOUS
<1> HIDE DEF n
<1>4. RecOf(n) = RecOf(t) /\ Past(n) = Past(t) /\ Current(n) = Current(t)
  BY <1>2 DEF RecOf, Past, Current, AllDone
<1>5. Shape(n, be)
  BY <1>1, <1>2, <1>4 DEF Shape, AllDone
<1>6. DOMAIN t.mine.rows \subseteq Records /\ DOMAIN t.mine.heads \subseteq DOMAIN t.mine.rows
  <2>1. t.mine.rows \in Partial(Records, Rows)
    BY <1>1 DEF Transaction, Writes
  <2>. QED
    BY <1>1, <2>1, PartialValues DEF Shape
<1>7. \A r \in DOMAIN t.mine.rows : hs2[r] = hs[r] /\ hist2[r] = hist[r]
  BY <1>1, <1>3, <1>6 DEF HeadsOK, RecordedOK, Spares
<1>8. HeadsOK(n, hs2, hist2)
  <2>1. ASSUME NEW r \in DOMAIN n.mine.rows PROVE RecordedOK(n, r, hs2, hist2)
    <3>1. RecordedOK(t, r, hs, hist) /\ hs2[r] = hs[r] /\ hist2[r] = hist[r]
      BY <1>1, <1>2, <1>7, <2>1 DEF HeadsOK
    <3>. QED
      BY <1>2, <3>1 DEF RecordedOK
  <2>2. ASSUME NEW r \in DOMAIN n.mine.heads
        PROVE  /\ n.mine.heads[r] = [oid |-> n.items[r].entry.oid, seq |-> hs2[r].seq + 1]
               /\ Key("head", r, 0) \in n.keys
    BY <1>1, <1>2, <1>6, <1>7, <2>2 DEF HeadsOK
  <2>3. ASSUME NEW r \in Records, Key("head", r, 0) \in n.keys
        PROVE  r \in DOMAIN n.mine.heads \/ (n.seen = None /\ hs2[r].seq # 0)
    BY <1>1, <1>2, <1>3, <2>3 DEF HeadsOK, Spares
  <2>. QED
    BY <2>1, <2>2, <2>3 DEF HeadsOK
<1>9. PtrOK(n, hs2)
  <2>1. SUFFICES ASSUME t.pc \in {"read_live", "record", "check", "seed", "put", "next"}
                 PROVE  PtrOK(n, hs2)
    BY <1>2 DEF PtrOK
  <2>2. RecOf(t) \in Records
    BY <1>1, <2>1, RecIsNew DEF AllDone
  <2>3. Key("head", RecOf(t), 0) \in t.keys => hs2[RecOf(t)] = hs[RecOf(t)]
    BY <1>3, <2>2 DEF Spares
  <2>4. t.pc \in {"check", "seed", "put", "next"} => hs2[RecOf(t)] = hs[RecOf(t)]
    BY <1>1, <1>7 DEF Shape, Current
  <2>. QED
    BY <1>1, <1>2, <1>4, <2>3, <2>4 DEF PtrOK
<1>10. ASSUME NEW r \in Records, ReadOK(t, r, lv) PROVE ReadOK(n, r, lv2)
  BY <1>2, <1>3, <1>10 DEF ReadOK, LiveIn, Spares
<1>11. ASSUME NEW r \in Records, WroteOK(t, r, lv) PROVE WroteOK(n, r, lv2)
  <2>1. t.seen = None /\ Key("live", r, 0) \in t.keys => lv2[r] = lv[r]
    BY <1>3 DEF Spares
  <2>2. SeededOK(t, r, lv) => SeededOK(n, r, lv2)
    BY <1>2, <2>1 DEF SeededOK, LiveIn
  <2>3. PutOK(t, r, lv) => PutOK(n, r, lv2)
    BY <1>2, <1>10, <2>1 DEF PutOK, ReadOK, LiveIn
  <2>. QED
    BY <1>2, <1>11, <2>2, <2>3 DEF WroteOK
<1>12. LiveOK(n, lv2)
  <2>1. t.pc \in {"record", "put"} => RecOf(t) \in Records
    BY <1>1, RecIsNew DEF AllDone
  <2>. QED
    BY <1>1, <1>2, <1>4, <1>6, <1>10, <1>11, <2>1 DEF LiveOK
<1>13. SnapshotOK(n, lv2, hs2, tw2, mv2)
  <2>1. ASSUME t.seen # None, NEW r \in Records
        PROVE  LiveAsSeen(n, r, lv2) /\ RecordAsSeen(n, r, lv2, hs2, tw2, mv2)
    <3>1. LiveAsSeen(t, r, lv) /\ RecordAsSeen(t, r, lv, hs, tw, mv)
      BY <1>1, <2>1 DEF SnapshotOK
    <3>2. t.stale \subseteq n.stale
      BY <1>2
    <3>3. LiveAsSeen(n, r, lv2)
      BY <1>2, <1>3, <2>1, <3>1, <3>2 DEF LiveAsSeen, Spares
    <3>4. RecordAsSeen(n, r, lv2, hs2, tw2, mv2)
      BY <1>2, <1>3, <2>1, <3>1, <3>2 DEF RecordAsSeen, Spares
    <3>. QED
      BY <3>3, <3>4
  <2>2. \A k \in n.keys : k.kind # "head" => k \notin n.stale
    BY <1>2, <1>3 DEF Spares
  <2>. QED
    BY <1>2, <2>1, <2>2 DEF SnapshotOK
<1>. QED
  BY <1>5, <1>8, <1>9, <1>12, <1>13 DEF TxOK, n

(* The application writes a record that nobody has locked.                 *)
LEMMA OutsideStep ==
  ASSUME IInv, NEW r \in Busy, NEW d \in Doc \cup {None}, Outside(r, d)
  PROVE  IInv'
<1> DEFINE k == Key("live", r, 0)
<1>1. /\ r \in Records /\ r \notin moved \cup twins
      /\ \A p \in Clients : k \notin tx[p].keys
      /\ live' = [live EXCEPT ![r] = d] /\ UNCHANGED <<heads, history, clock, backend, twins>>
      /\ moved' = moved \cup {r}
      /\ tx' = [p \in Clients |-> Outdated(tx[p], {k})]
  BY AttemptAssumption DEF Outside, RawWrite, Fixed
<1>2. k \in Keys
  BY <1>1 DEF Key, Keys
<1>3. live \in [Records -> Doc \cup {None}] /\ live' \in [Records -> Doc \cup {None}]
        /\ \A x \in Records : x # r => live'[x] = live[x]
  BY <1>1 DEF IInv, StoreInv
<1>4. StoreInv'
  BY <1>1, <1>3 DEF IInv, StoreInv, HeadIsLastRow, OnlyInsertsMakeTwins
<1> HIDE DEF k
<1>5. ASSUME NEW p \in Clients
      PROVE  \/ OverOK(tx'[p])
             \/ tx'[p].pc # "next"
                 /\ TxOK(tx'[p], backend, live', heads', history', twins', moved')
  <2>1. tx'[p] = Outdated(tx[p], {k})
    BY <1>1
  <2>2. CASE OverOK(tx[p])
    BY <2>1, <2>2, OverFacts
  <2>3. CASE ~OverOK(tx[p])
    <3> DEFINE t == tx[p]
    <3>1. t.pc # "next" /\ TxOK(t, backend, live, heads, history, twins, moved)
      BY <2>3 DEF IInv, TxsOK
    <3>2. t \in Transaction /\ SnapshotOK(t, live, heads, twins, moved)
      BY <3>1 DEF TxOK, Shape
    <3>3. /\ Outdated(t, {k}).pc = t.pc
          /\ Outdated(t, {k}).stale = IF t.seen # None THEN t.stale \cup {k} ELSE t.stale
      BY <1>2, <3>2, OutdatedFields
    <3>4. ASSUME NEW x \in Records
          PROVE  /\ Key("live", x, 0) \in t.keys => x # r
                 /\ Key("live", x, 0) # k => x # r
      BY <1>1 DEF k
    <3>5. Spares(t, Outdated(t, {k}), live, heads, history, twins, moved,
                 live', heads', history', twins', moved')
      <4>1. \A x \in t.keys : x.kind # "head" => x \notin Outdated(t, {k}).stale
        BY <1>1, <3>2, <3>3 DEF SnapshotOK
      <4>. QED
        BY <1>1, <1>3, <3>3, <3>4, <4>1 DEF Spares
    <3> HIDE DEF t
    <3>6. TxOK(Outdated(t, {k}), backend, live', heads', history', twins', moved')
      BY <1>2, <1>3, <3>1, <3>5, SparedIsRight
    <3>. QED
      BY <2>1, <3>1, <3>3, <3>6 DEF t
  <2>. QED
    BY <2>2, <2>3
<1>6. TxsOK'
  <2>1. DOMAIN tx' = Clients
    BY <1>1
  <2>. QED
    BY <1>1, <1>5, <2>1 DEF TxsOK
<1>7. KeysAreOnes'
  <2>1. \A p \in Clients : tx'[p].keys = tx[p].keys
    <3>1. ASSUME NEW p \in Clients PROVE tx'[p].keys = tx[p].keys
      <4>1. tx'[p] = Outdated(tx[p], {k})
        BY <1>1
      <4>. QED
        BY <1>2, <4>1, OutdatedKeys
    <3>. QED
      BY <3>1
  <2>. QED
    BY <2>1 DEF IInv, KeysAreOnes
<1>. QED
  BY <1>4, <1>6, <1>7 DEF IInv

(* The seeds of t whose record was inserted meanwhile.                     *)
Overtaken(t, lv) == {r \in DOMAIN t.mine.live : t.items[r].seed /\ lv[r] # None}

(* The history of a record with one version more.                          *)
NextRows(rows, n, entry) ==
  [s \in 1 .. n + 1 |->
     IF s = n + 1 THEN entry
     ELSE IF s = n THEN CloseRow(rows[s], entry.from) ELSE rows[s]]

(* What a commit does to the record r of an item.                          *)
Commits(t, r) ==
  /\ heads'[r] = [oid |-> t.items[r].entry.oid, seq |-> heads[r].seq + 1]
  /\ history'[r] = NextRows(history[r], heads[r].seq, t.items[r].entry)
  /\ live'[r] = IF r \in DOMAIN t.mine.live \ Overtaken(t, live) THEN t.mine.live[r] ELSE live[r]

(* ... and what the invariant says of the record then.                     *)
CommitsRight(t, r) ==
  /\ r \in Records /\ t.items[r] \in Item /\ ItemOK(t.items[r])
  /\ RecordedOK(t, r, heads, history) /\ WroteOK(t, r, live)
  /\ Key("head", r, 0) \in t.keys /\ Key("row", r, heads[r].seq + 1) \in t.keys
  /\ r \in DOMAIN t.mine.live => t.mine.live[r] \in Doc
  /\ history[r] \in Rows /\ DOMAIN history[r] = 1 .. heads[r].seq /\ heads[r].seq \in Nat

(* A commit does what its items come to, record by record.                 *)
LEMMA CommitFacts ==
  ASSUME IInv, NEW p \in Clients, Commit(p)
  PROVE  LET u == tx[p]
         IN  /\ u.pc = "commit" /\ TxOK(u, backend, live, heads, history, twins, moved)
             /\ Shape(u, backend) /\ u \in Transaction
             /\ DOMAIN u.items \subseteq Records /\ DOMAIN u.items # {}
             /\ DOMAIN u.mine.rows = DOMAIN u.items /\ DOMAIN u.mine.live \subseteq DOMAIN u.items
             /\ \A r \in DOMAIN u.items : Commits(u, r) /\ CommitsRight(u, r)
             /\ \A r \in Records \ DOMAIN u.items :
                  heads'[r] = heads[r] /\ history'[r] = history[r] /\ live'[r] = live[r]
             /\ DOMAIN live' = Records /\ DOMAIN heads' = Records /\ DOMAIN history' = Records
             /\ twins' = twins \cup Overtaken(u, live)
             /\ UNCHANGED <<clock, backend, moved>>
             /\ \E result \in {"applied", "lost"} :
                  tx' = [q \in Clients |->
                    IF q = p THEN Ended(p, result) ELSE Outdated(tx[q], u.keys)]
<1> DEFINE u == tx[p]
<1>1. u.pc = "commit" /\ u.pc \in Steps
  BY DEF Commit, Steps
<1>2. TxOK(u, backend, live, heads, history, twins, moved)
  BY <1>1, UnderWay
<1>3. Shape(u, backend) /\ HeadsOK(u, heads, history) /\ LiveOK(u, live) /\ u \in Transaction
  BY <1>2 DEF TxOK, Shape
<1>4. /\ u.items \in Partial(Records, Item) /\ u.mine.live \in Partial(Records, Doc)
      /\ u.order \in Seq(Records)
  BY <1>3 DEF Transaction, Writes
<1>5. Past(u) = DOMAIN u.items /\ Current(u) = {}
  BY <1>1, <1>3 DEF Past, Current, Shape, AllDone
<1>6. /\ DOMAIN u.mine.rows = DOMAIN u.items /\ DOMAIN u.mine.heads = DOMAIN u.items
      /\ DOMAIN u.mine.live \subseteq DOMAIN u.items
      /\ DOMAIN u.items \subseteq Records /\ DOMAIN u.items # {}
  <2>1. RecOf(u) \in DOMAIN u.items
    BY <1>3 DEF Shape, RecOf
  <2>. QED
    BY <1>3, <1>4, <1>5, <2>1, PartialValues DEF Shape
<1>7. /\ live' = [r \in Records |->
           IF r \in DOMAIN u.mine.live \ Overtaken(u, live) THEN u.mine.live[r] ELSE live[r]]
      /\ heads' = Over(u.mine.heads, heads)
      /\ history' = [r \in Records |->
           IF r \in DOMAIN u.mine.rows THEN Over(u.mine.rows[r], history[r]) ELSE history[r]]
      /\ twins' = twins \cup Overtaken(u, live)
      /\ UNCHANGED <<clock, backend, moved>>
      /\ \E result \in {"applied", "lost"} :
           tx' = [q \in Clients |->
             IF q = p THEN Ended(p, result) ELSE Outdated(tx[q], u.keys)]
  BY DEF Commit, Overtaken, Fixed
<1>8. DOMAIN heads = Records
  BY DEF IInv, StoreInv
<1>9. /\ DOMAIN heads' = Records
      /\ \A r \in Records : heads'[r] = IF r \in DOMAIN u.items THEN u.mine.heads[r] ELSE heads[r]
  <2>1. DOMAIN u.mine.heads \cup DOMAIN heads = Records
    BY <1>6, <1>8
  <2>. QED
    BY <1>6, <1>7, <2>1 DEF Over
<1>10. ASSUME NEW r \in DOMAIN u.items PROVE Commits(u, r) /\ CommitsRight(u, r)
  <2>1. r \in Records /\ u.items[r] \in Item /\ ItemOK(u.items[r])
    BY <1>3, <1>4, <1>6, PartialValues DEF Shape
  <2>2. RecordedOK(u, r, heads, history) /\ WroteOK(u, r, live)
    BY <1>1, <1>3, <1>6 DEF HeadsOK, LiveOK
  <2>3. Key("head", r, 0) \in u.keys
          /\ u.mine.heads[r] = [oid |-> u.items[r].entry.oid, seq |-> heads[r].seq + 1]
    BY <1>3, <1>6 DEF HeadsOK
  <2>4. history[r] \in Rows /\ DOMAIN history[r] = 1 .. heads[r].seq /\ heads[r].seq \in Nat
    BY <2>1 DEF IInv, StoreInv, HeadIsLastRow, HeadType
  <2>5. u.items[r].entry \in Row
    BY <2>1 DEF Item
  <2>6. history'[r] = NextRows(history[r], heads[r].seq, u.items[r].entry)
    <3>1. history'[r] = Over(NewRows(history[r], heads[r].seq + 1, u.items[r].entry), history[r])
      BY <1>6, <1>7, <2>1, <2>2 DEF RecordedOK
    <3> DEFINE rows == history[r]
    <3> DEFINE n == heads[r].seq
    <3> DEFINE entry == u.items[r].entry
    <3>2. rows \in Rows /\ n \in Nat /\ DOMAIN rows = 1 .. n /\ entry \in Row
      BY <2>4, <2>5
    <3> HIDE DEF rows, n, entry
    <3>3. Over(NewRows(rows, n + 1, entry), rows) = NextRows(rows, n, entry)
      BY <3>2, NewRowsAreRows DEF NextRows
    <3>. QED
      BY <3>1, <3>3 DEF rows, n, entry
  <2>7. r \in DOMAIN u.mine.live => u.mine.live[r] \in Doc
    BY <1>4, PartialValues
  <2>8. Commits(u, r)
    BY <1>7, <1>9, <2>1, <2>3, <2>6 DEF Commits
  <2>9. CommitsRight(u, r)
    BY <2>1, <2>2, <2>3, <2>4, <2>7 DEF CommitsRight, RecordedOK
  <2>. QED
    BY <2>8, <2>9
<1>11. ASSUME NEW r \in Records \ DOMAIN u.items
       PROVE  heads'[r] = heads[r] /\ history'[r] = history[r] /\ live'[r] = live[r]
  BY <1>6, <1>7, <1>9
<1>12. DOMAIN live' = Records /\ DOMAIN history' = Records
  BY <1>7
<1>. QED
  BY <1>1, <1>2, <1>3, <1>6, <1>7, <1>9, <1>10, <1>11, <1>12

(* Only the application makes a seed come too late, and not on postgres.   *)
LEMMA OvertakenIsMoved ==
  ASSUME IInv, NEW p \in Clients, Commit(p)
  PROVE  /\ Overtaken(tx[p], live) \subseteq moved
         /\ backend # "mongo" => Overtaken(tx[p], live) = {}
<1> DEFINE u == tx[p]
<1>1. TxOK(u, backend, live, heads, history, twins, moved) /\ Shape(u, backend)
        /\ SnapshotOK(u, live, heads, twins, moved)
  BY CommitFacts DEF TxOK
<1>2. ASSUME NEW r \in Overtaken(u, live) PROVE r \in moved /\ backend = "mongo"
  <2>1. r \in DOMAIN u.mine.live /\ u.items[r].seed /\ live[r] # None /\ r \in DOMAIN u.items
    BY CommitFacts DEF Overtaken
  <2>2. CommitsRight(u, r)
    BY <2>1, CommitFacts
  <2>3. SeededOK(u, r, live)
    BY <2>1, <2>2 DEF CommitsRight, WroteOK, ItemOK
  <2>4. u.seen # None /\ u.seen.live[r] = None
    BY <2>1, <2>3 DEF SeededOK, LiveIn
  <2>5. backend = "mongo"
    BY <1>1, <2>4 DEF Shape
  <2>6. heads[r] = u.seen.heads[r] /\ Key("row", r, heads[r].seq + 1) \in u.keys
    BY <2>2, <2>4 DEF CommitsRight, RecordedOK
  <2>7. Key("row", r, u.seen.heads[r].seq + 1) \notin u.stale
    <3>1. Key("row", r, heads[r].seq + 1).kind = "row"
      BY DEF Key
    <3>. QED
      BY <1>1, <2>6, <3>1 DEF SnapshotOK
  <2>8. RecordAsSeen(u, r, live, heads, twins, moved)
    BY <1>1, <2>2, <2>4 DEF SnapshotOK, CommitsRight
  <2>. QED
    BY <2>1, <2>4, <2>5, <2>7, <2>8 DEF RecordAsSeen
<1>. QED
  BY <1>2

(* A commit keeps the store right.                                         *)
LEMMA CommitKeepsStore ==
  ASSUME IInv, NEW p \in Clients, Commit(p)
  PROVE  StoreInv'
<1> DEFINE u == tx[p]
<1>1. ASSUME NEW r \in Records
      PROVE  /\ live'[r] \in Doc \cup {None} /\ heads'[r] \in HeadType /\ history'[r] \in Rows
             /\ heads'[r].oid = None <=> heads'[r].seq = 0
             /\ DOMAIN history'[r] = 1 .. heads'[r].seq
             /\ heads'[r].oid = IF heads'[r].seq = 0 THEN None ELSE history'[r][heads'[r].seq].oid
  <2>1. /\ live[r] \in Doc \cup {None} /\ heads[r] \in HeadType /\ history[r] \in Rows
        /\ heads[r].oid = None <=> heads[r].seq = 0
        /\ DOMAIN history[r] = 1 .. heads[r].seq
        /\ heads[r].oid = IF heads[r].seq = 0 THEN None ELSE history[r][heads[r].seq].oid
    BY DEF IInv, StoreInv, HeadIsLastRow
  <2>2. CASE r \notin DOMAIN u.items
    <3>1. heads'[r] = heads[r] /\ history'[r] = history[r] /\ live'[r] = live[r]
      BY <2>2, CommitFacts
    <3>. QED
      BY <2>1, <3>1
  <2>3. CASE r \in DOMAIN u.items
    <3> DEFINE n == heads[r].seq
    <3> DEFINE entry == u.items[r].entry
    <3>1. Commits(u, r) /\ CommitsRight(u, r)
      BY <2>3, CommitFacts
    <3>2. n \in Nat /\ entry \in Row /\ entry.oid \in Bodies
      BY <3>1 DEF CommitsRight, Item, Row
    <3>3. heads'[r] = [oid |-> entry.oid, seq |-> n + 1] /\ history'[r] = NextRows(history[r], n, entry)
      BY <3>1 DEF Commits
    <3>4. live'[r] \in Doc \cup {None}
      BY <2>1, <3>1 DEF Commits, CommitsRight
    <3> HIDE DEF n, entry
    <3>5. NextRows(history[r], n, entry) \in Rows
      BY <2>1, <3>2, NewRowsAreRows DEF NextRows, n
    <3>6. DOMAIN NextRows(history[r], n, entry) = 1 .. n + 1
            /\ NextRows(history[r], n, entry)[n + 1] = entry
      BY <3>2 DEF NextRows
    <3>7. heads'[r] \in HeadType /\ heads'[r].oid = entry.oid /\ heads'[r].seq = n + 1
      BY <3>2, <3>3 DEF HeadType
    <3>8. entry.oid # None /\ n + 1 # 0
      BY <3>2, NoneIsApart
    <3>. QED
      BY <3>3, <3>4, <3>5, <3>6, <3>7, <3>8
  <2>. QED
    BY <2>2, <2>3
<1>2. DOMAIN live' = Records /\ DOMAIN heads' = Records /\ DOMAIN history' = Records
        /\ UNCHANGED <<clock, backend, moved>> /\ twins' = twins \cup Overtaken(u, live)
  BY CommitFacts
<1>3. live' = [r \in Records |-> live'[r]]
  BY DEF Commit
<1>4. history' = [r \in Records |-> history'[r]]
  BY DEF Commit
<1>5. heads' = [r \in Records |-> heads'[r]]
  <2>1. heads' = Over(u.mine.heads, heads)
    BY DEF Commit
  <2>. QED
    BY <1>2, <2>1 DEF Over
<1>6. /\ live' \in [Records -> Doc \cup {None}] /\ heads' \in [Records -> HeadType]
      /\ history' \in [Records -> Rows]
  BY <1>1, <1>3, <1>4, <1>5
<1>7. Overtaken(u, live) \subseteq moved /\ (backend # "mongo" => Overtaken(u, live) = {})
  BY OvertakenIsMoved
<1>8. HeadIsLastRow'
  BY <1>1 DEF HeadIsLastRow
<1>9. \A r \in Records : heads'[r].oid = None <=> heads'[r].seq = 0
  BY <1>1
<1>10. twins' \subseteq Records /\ OnlyInsertsMakeTwins' /\ (backend' # "mongo" => twins' = {})
  BY <1>2, <1>7 DEF IInv, StoreInv, OnlyInsertsMakeTwins
<1>. QED
  BY <1>2, <1>6, <1>8, <1>9, <1>10 DEF IInv, StoreInv

(* What another transaction has a key of is not what the commit changes,   *)
(* and what it changes is stale to that transaction.                       *)
LEMMA CommitSpares ==
  ASSUME IInv, NEW p \in Clients, NEW q \in Clients \ {p}, Commit(p), tx[q] \in Transaction,
         TxOK(tx[q], backend, live, heads, history, twins, moved)
  PROVE  Spares(tx[q], Outdated(tx[q], tx[p].keys), live, heads, history, twins, moved,
                live', heads', history', twins', moved')
<1> DEFINE u == tx[p]
<1> DEFINE t == tx[q]
<1> DEFINE n == Outdated(t, u.keys)
<1>1. u.keys \in SUBSET Keys /\ Shape(u, backend) /\ Shape(t, backend)
        /\ SnapshotOK(t, live, heads, twins, moved) /\ u.pc = "commit"
  BY CommitFacts DEF TxOK, Transaction
<1>2. n.stale = IF t.seen # None THEN t.stale \cup u.keys ELSE t.stale
  BY <1>1, OutdatedFields
<1>3. u.keys \cap t.keys = {}
  BY DEF IInv, KeysAreOnes
<1>4. ASSUME NEW r \in DOMAIN u.items
      PROVE  Key("head", r, 0) \in u.keys /\ Key("row", r, heads[r].seq + 1) \in u.keys
  BY CommitFacts DEF CommitsRight
<1>5. ASSUME NEW r \in Records \ DOMAIN u.items
      PROVE  /\ heads'[r] = heads[r] /\ history'[r] = history[r] /\ live'[r] = live[r]
             /\ r \in twins' => r \in twins
  BY CommitFacts DEF Overtaken
<1>6. ASSUME NEW r \in Records, live'[r] # live[r]
      PROVE  \/ Key("live", r, 0) \in u.keys
             \/ backend = "mongo" /\ live[r] = None
  <2>1. r \in DOMAIN u.items
    BY <1>5, <1>6
  <2>2. Commits(u, r) /\ CommitsRight(u, r)
    BY <2>1, CommitFacts
  <2>3. r \in DOMAIN u.mine.live \ Overtaken(u, live)
    BY <1>6, <2>2 DEF Commits
  <2>4. CASE u.items[r].seed
    <3>1. live[r] = None
      BY <2>3, <2>4 DEF Overtaken
    <3>2. SeededOK(u, r, live)
      BY <2>2, <2>3, <2>4 DEF CommitsRight, WroteOK
    <3>3. u.seen = None => Key("live", r, 0) \in u.keys
      BY <3>2 DEF SeededOK
    <3>4. u.seen # None => backend = "mongo"
      BY <1>1 DEF Shape
    <3>. QED
      BY <3>1, <3>3, <3>4
  <2>5. CASE ~u.items[r].seed
    <3>1. PutOK(u, r, live)
      BY <2>2, <2>3, <2>5 DEF CommitsRight, WroteOK
    <3>. QED
      BY <2>3, <3>1 DEF PutOK
  <2>. QED
    BY <2>4, <2>5
<1>7. t.seen # None <=> backend = "mongo" /\ t.seen # None
  BY <1>1 DEF Shape
<1>8. ASSUME NEW r \in Records, Key("live", r, 0) \in t.keys, t.seen = None
      PROVE  live'[r] = live[r]
  <2>1. backend = "postgres"
    BY <1>1, <1>8 DEF Shape
  <2>. QED
    BY <1>3, <1>6, <1>8, <2>1
<1>9. ASSUME NEW r \in Records, Key("row", r, heads[r].seq + 1) \in t.keys
      PROVE  heads'[r] = heads[r] /\ history'[r] = history[r]
  BY <1>3, <1>4, <1>5, <1>9
<1>10. ASSUME NEW r \in Records, Key("head", r, 0) \in t.keys
       PROVE  heads'[r] = heads[r]
  BY <1>3, <1>4, <1>5, <1>10
<1>11. ASSUME t.seen # None, NEW r \in Records
       PROVE  /\ live[r] # None /\ Key("live", r, 0) \notin n.stale => live'[r] = live[r]
              /\ Key("row", r, heads[r].seq + 1) \notin n.stale =>
                   /\ heads'[r] = heads[r]
                   /\ r \in twins' => r \in twins
                   /\ r \notin moved' => r \notin moved /\ live'[r] = live[r]
  <2>1. u.keys \subseteq n.stale
    BY <1>2, <1>11
  <2>2. moved' = moved
    BY CommitFacts
  <2> HIDE DEF n
  <2>. QED
    BY <1>4, <1>5, <1>6, <2>1, <2>2
<1>12. \A k \in t.keys : k.kind # "head" => k \notin n.stale
  BY <1>1, <1>2, <1>3 DEF SnapshotOK
<1> HIDE DEF n, t, u
<1>13. Spares(t, n, live, heads, history, twins, moved, live', heads', history', twins', moved')
  BY <1>8, <1>9, <1>10, <1>11, <1>12 DEF Spares
<1>. QED
  BY <1>13 DEF t, u, n

(* Commit ends the transaction, and is right for all others.               *)
LEMMA CommitStep ==
  ASSUME IInv, NEW p \in Clients, Commit(p)
  PROVE  IInv'
<1> DEFINE ks == tx[p].keys
<1>1. PICK result \in {"applied", "lost"} :
        tx' = [q \in Clients |-> IF q = p THEN Ended(p, result) ELSE Outdated(tx[q], ks)]
  BY CommitFacts
<1>2. ks \in SUBSET Keys /\ backend' = backend
  BY CommitFacts DEF Transaction
<1>3. OverOK(tx'[p]) /\ tx'[p].keys = {}
  BY <1>1, EndedIsOver
<1>4. ASSUME NEW q \in Clients \ {p}
      PROVE  \/ OverOK(tx'[q])
             \/ tx'[q].pc # "next"
                 /\ TxOK(tx'[q], backend, live', heads', history', twins', moved')
  <2>1. tx'[q] = Outdated(tx[q], ks)
    BY <1>1
  <2>2. CASE OverOK(tx[q])
    BY <2>1, <2>2, OverFacts
  <2>3. CASE ~OverOK(tx[q])
    <3>1. tx[q].pc # "next" /\ TxOK(tx[q], backend, live, heads, history, twins, moved)
      BY <2>3 DEF IInv, TxsOK
    <3>2. tx[q] \in Transaction
      BY <3>1 DEF TxOK, Shape
    <3>3. Spares(tx[q], Outdated(tx[q], ks), live, heads, history, twins, moved,
                 live', heads', history', twins', moved')
      BY <3>1, <3>2, CommitSpares
    <3>4. live \in [Records -> Doc \cup {None}]
      BY DEF IInv, StoreInv
    <3>5. Outdated(tx[q], ks).pc = tx[q].pc
      BY <1>2, <3>2, OutdatedFields
    <3> HIDE DEF ks
    <3>6. TxOK(Outdated(tx[q], ks), backend, live', heads', history', twins', moved')
      BY <1>2, <3>1, <3>3, <3>4, SparedIsRight
    <3>. QED
      BY <2>1, <3>1, <3>5, <3>6
  <2>. QED
    BY <2>2, <2>3
<1>5. TxsOK'
  <2>1. DOMAIN tx' = Clients
    BY <1>1
  <2>. QED
    BY <1>2, <1>3, <1>4, <2>1 DEF TxsOK
<1>6. KeysAreOnes'
  <2>1. ASSUME NEW q \in Clients PROVE tx'[q].keys \subseteq tx[q].keys
    <3>1. q # p => tx'[q].keys = tx[q].keys
      <4>1. q # p => tx'[q] = Outdated(tx[q], ks)
        BY <1>1
      <4>. QED
        BY <1>2, <4>1, OutdatedKeys
    <3>. QED
      BY <1>3, <3>1
  <2>. QED
    BY <2>1 DEF IInv, KeysAreOnes
<1>7. StoreInv'
  BY CommitKeepsStore
<1>. QED
  BY <1>5, <1>6, <1>7 DEF IInv

-----------------------------------------------------------------------------
(***************************************************************************)
(* The invariant.                                                          *)
(***************************************************************************)

(* Before the first call the store is what cfgit has found or imported.    *)
LEMMA InitIInv == TxInit => IInv
<1> SUFFICES ASSUME TxInit PROVE IInv
  OBVIOUS
<1>1. PICK first \in [Records -> Bodies \cup {None}] :
        /\ \A r \in Records \ Busy : live[r] # None /\ first[r] = HashDoc(live[r])
        /\ heads = [r \in Records |->
             IF first[r] = None THEN NoHead ELSE [oid |-> first[r], seq |-> 1]]
        /\ history = [r \in Records |->
             IF first[r] = None THEN [s \in {} |-> None]
             ELSE [s \in {1} |->
               [oid |-> first[r], parent |-> None,
                doc |-> StoredDoc(CHOOSE d \in Doc : HashDoc(d) = first[r]),
                op |-> "import", from |-> 0, to |-> None]]]
  BY DEF TxInit
<1>2. ASSUME NEW r \in Records
      PROVE  /\ heads[r] \in HeadType /\ history[r] \in Rows
             /\ heads[r].oid = None <=> heads[r].seq = 0
             /\ DOMAIN history[r] = 1 .. heads[r].seq
             /\ heads[r].oid = IF heads[r].seq = 0 THEN None ELSE history[r][heads[r].seq].oid
  <2>1. CASE first[r] = None
    <3>1. heads[r] = NoHead /\ history[r] = [s \in {} |-> None]
      BY <1>1, <2>1
    <3>2. [s \in {} |-> None] \in Rows
      <4>1. [s \in {} |-> None] \in [{} -> Row] /\ {} \in SUBSET Nat
        OBVIOUS
      <4>. QED
        BY <4>1 DEF Rows, Partial
    <3>. QED
      BY <3>1, <3>2 DEF NoHead, HeadType
  <2>2. CASE first[r] # None
    <3> DEFINE doc == StoredDoc(CHOOSE d \in Doc : HashDoc(d) = first[r])
    <3> DEFINE row == [oid |-> first[r], parent |-> None, doc |-> doc,
                       op |-> "import", from |-> 0, to |-> None]
    <3>1. heads[r] = [oid |-> first[r], seq |-> 1] /\ history[r] = [s \in {1} |-> row]
      BY <1>1, <2>2
    <3>2. first[r] \in Bodies
      BY <1>1, <2>2
    <3>3. \E d \in Doc : HashDoc(d) = first[r]
      <4>1. PICK i \in Ignored : TRUE
        BY OneIgnored
      <4>2. [body |-> first[r], ign |-> i, sec |-> None] \in Doc
        BY <3>2 DEF Doc
      <4>. QED
        BY <4>2 DEF HashDoc
    <3>4. doc \in Doc
      BY <3>3 DEF StoredDoc, Doc
    <3> HIDE DEF doc
    <3>5. row \in Row /\ row.oid = first[r]
      BY <3>2, <3>4 DEF Row, OpNames
    <3> HIDE DEF row
    <3>6. [s \in {1} |-> row] \in Rows
      <4>1. [s \in {1} |-> row] \in [{1} -> Row] /\ {1} \in SUBSET Nat
        BY <3>5
      <4>. QED
        BY <4>1 DEF Rows, Partial
    <3>7. heads[r] \in HeadType /\ heads[r].seq = 1 /\ heads[r].oid = first[r]
      BY <3>1, <3>2 DEF HeadType
    <3>8. DOMAIN history[r] = {1} /\ history[r][1] = row
      BY <3>1
    <3>. QED
      BY <2>2, <3>1, <3>5, <3>6, <3>7, <3>8
  <2>. QED
    BY <2>1, <2>2
<1>3. heads \in [Records -> HeadType] /\ history \in [Records -> Rows]
  <2>1. heads = [r \in Records |-> heads[r]]
    BY <1>1
  <2>2. history = [r \in Records |-> history[r]]
    BY <1>1
  <2>. QED
    BY <1>2, <2>1, <2>2
<1>4. StoreInv
  <2>1. HeadIsLastRow /\ \A r \in Records : heads[r].oid = None <=> heads[r].seq = 0
    BY <1>2 DEF HeadIsLastRow
  <2>. QED
    BY <1>3, <2>1 DEF TxInit, StoreInv, OnlyInsertsMakeTwins
<1>5. \A p \in Clients : OverOK(tx[p]) /\ tx[p].keys = {}
  BY DEF TxInit, NoTx, OverOK
<1>6. TxsOK
  BY <1>5 DEF TxInit, TxsOK
<1>7. KeysAreOnes
  BY <1>5 DEF KeysAreOnes
<1>. QED
  BY <1>4, <1>6, <1>7 DEF IInv

(* Every step keeps it.                                                    *)
LEMMA NextIInv == IInv /\ [TxNext]_txVars => IInv'
<1> SUFFICES ASSUME IInv, [TxNext]_txVars PROVE IInv'
  OBVIOUS
<1>1. CASE UNCHANGED txVars
  BY <1>1 DEF txVars, storeVars, IInv, StoreInv, HeadIsLastRow, OnlyInsertsMakeTwins, TxsOK,
              KeysAreOnes
<1>2. ASSUME NEW p \in Clients, ApplyOne(p) PROVE IInv'
  BY <1>2, ApplyOneStep
<1>3. ASSUME NEW p \in Clients, ApplySeveral(p) PROVE IInv'
  BY <1>3, ApplySeveralStep
<1>4. ASSUME NEW p \in Clients, ReadHead(p) PROVE IInv'
  BY <1>4, ReadHeadStep
<1>5. ASSUME NEW p \in Clients, ReadLive(p) PROVE IInv'
  BY <1>5, ReadLiveStep
<1>6. ASSUME NEW p \in Clients, Record(p) PROVE IInv'
  BY <1>6, RecordStep
<1>7. ASSUME NEW p \in Clients, CheckMissing(p) PROVE IInv'
  BY <1>7, CheckMissingStep
<1>8. ASSUME NEW p \in Clients, Seed(p) PROVE IInv'
  BY <1>8, SeedStep
<1>9. ASSUME NEW p \in Clients, Put(p) PROVE IInv'
  BY <1>9, PutStep
<1>10. ASSUME NEW p \in Clients, Commit(p) PROVE IInv'
  BY <1>10, CommitStep
<1>11. ASSUME NEW p \in Clients, Abort(p) PROVE IInv'
  BY <1>11, AbortStep
<1>12. ASSUME NEW p \in Clients, Die(p) PROVE IInv'
  BY <1>12, DieStep
<1>13. ASSUME NEW r \in Busy, NEW d \in Doc \cup {None}, Outside(r, d) PROVE IInv'
  BY <1>13, OutsideStep
<1>14. ASSUME NEW p \in Clients, PutRef(p) PROVE IInv'
  BY <1>14, PutRefStep
<1>. QED
  BY <1>1, <1>2, <1>3, <1>4, <1>5, <1>6, <1>7, <1>8, <1>9, <1>10, <1>11, <1>12, <1>13, <1>14
     DEF TxNext, Work

(* The invariant holds of every reachable state.                           *)
THEOREM Invariance == TxSpec => []IInv
<1>. QED
  BY InitIInv, NextIInv, PTL DEF TxSpec

(* HeadIsLastRow: whatever statements interleave, the rows of a record are *)
(* numbered without a gap and HEAD is at the last of them.                 *)
THEOREM HeadsStayLast == TxSpec => []HeadIsLastRow
<1>1. IInv => HeadIsLastRow
  BY DEF IInv, StoreInv
<1>. QED
  BY <1>1, Invariance, PTL

(* OnlyInsertsMakeTwins: on neither database do two transactions insert    *)
(* the same missing record; a record has two documents only where the      *)
(* application inserted one.                                               *)
THEOREM TwinsAreInserts == TxSpec => []OnlyInsertsMakeTwins
<1>1. IInv => OnlyInsertsMakeTwins
  BY DEF IInv, StoreInv
<1>. QED
  BY <1>1, Invariance, PTL

-----------------------------------------------------------------------------
(***************************************************************************)
(* What the statements of the transactions come to.                        *)
(***************************************************************************)

(* Where no seed was overtaken, every item of the commit could be applied  *)
(* in the present store, and is.                                           *)
LEMMA CommitAppliesItem ==
  ASSUME IInv, NEW p \in Clients, Commit(p), Overtaken(tx[p], live) = {},
         NEW r \in DOMAIN tx[p].items
  PROVE  LET e == Effective(p)[r]
         IN  /\ CanApply(r, e)
             /\ live'[r] = LiveAfter(r, e)
             /\ history'[r] = HistoryAfter(r, e)
             /\ heads'[r] = HeadAfter(r, e)
<1> DEFINE u == tx[p]
<1> DEFINE item == u.items[r]
<1> DEFINE e == Effective(p)[r]
<1> DEFINE kept == backend = "mongo" /\ r \notin DOMAIN u.mine.live
<1>1. /\ Commits(u, r) /\ CommitsRight(u, r) /\ Shape(u, backend)
      /\ SnapshotOK(u, live, heads, twins, moved)
  BY CommitFacts DEF TxOK
<1>2. r \in Records /\ item \in Item /\ ItemOK(item) /\ RecordedOK(u, r, heads, history)
        /\ WroteOK(u, r, live) /\ DOMAIN history[r] = 1 .. heads[r].seq /\ heads[r].seq \in Nat
  BY <1>1 DEF CommitsRight
<1>3. e = IF kept THEN [item EXCEPT !.newDoc = None, !.expectedLive = None] ELSE item
  BY DEF Effective
<1>4. /\ e.entry = item.entry /\ e.expectedHead = item.expectedHead /\ e.seed = item.seed
      /\ e.newDoc = IF kept THEN None ELSE item.newDoc
      /\ e.expectedLive = IF kept THEN None ELSE item.expectedLive
  BY <1>2, <1>3 DEF Item
<1>5. live'[r] = IF r \in DOMAIN u.mine.live THEN u.mine.live[r] ELSE live[r]
  BY <1>1 DEF Commits
<1>6. ASSUME ReadOK(u, r, live), r \in DOMAIN u.mine.live => Key("live", r, 0) \in u.keys, ~kept
      PROVE  live[r] \in Doc /\ HashDoc(live[r]) = item.expectedLive /\ LiveIn(u, r, live) = live[r]
  <2>1. CASE u.seen = None
    BY <1>6, <2>1 DEF ReadOK, LiveIn
  <2>2. CASE u.seen # None
    <3>1. backend = "mongo"
      BY <1>1, <2>2 DEF Shape
    <3>2. Key("live", r, 0) \in u.keys
      BY <1>6, <3>1
    <3>3. Key("live", r, 0) \notin u.stale
      <4>1. Key("live", r, 0).kind # "head"
        BY DEF Key
      <4>. QED
        BY <1>1, <3>2, <4>1 DEF SnapshotOK
    <3>4. u.seen.live[r] \in Doc /\ HashDoc(u.seen.live[r]) = item.expectedLive
      BY <1>6, <2>2 DEF ReadOK, LiveIn
    <3>5. live[r] = u.seen.live[r]
      BY <1>1, <1>2, <2>2, <3>3, <3>4, NoneIsApart DEF SnapshotOK, LiveAsSeen
    <3>. QED
      BY <2>2, <3>4, <3>5 DEF LiveIn
  <2>. QED
    BY <2>1, <2>2
<1>7. HeadFresh(r, e) /\ SeqFree(r)
  BY <1>2, <1>4 DEF HeadFresh, SeqFree, RecordedOK
<1>8. heads'[r] = HeadAfter(r, e)
  BY <1>1, <1>4 DEF Commits, HeadAfter
<1>9. history'[r] = HistoryAfter(r, e)
  <2> DEFINE n == heads[r].seq
  <2>1. history'[r] = NextRows(history[r], n, e.entry)
    BY <1>1, <1>4 DEF Commits
  <2>2. DOMAIN history[r] \cup {n + 1} = 1 .. n + 1
    BY <1>2
  <2>. QED
    BY <2>1, <2>2 DEF NextRows, HistoryAfter
<1>10. LiveFresh(r, e) /\ Writable(r, e) /\ live'[r] = LiveAfter(r, e)
  <2>1. CASE kept
    BY <1>4, <1>5, <2>1 DEF LiveFresh, Writable, LiveAfter
  <2>2. CASE ~kept /\ item.newDoc = None
    <3>1. r \notin DOMAIN u.mine.live
      BY <1>2, <2>2 DEF WroteOK
    <3>. QED
      BY <1>2, <1>4, <1>5, <2>2, <3>1 DEF LiveFresh, Writable, LiveAfter, ItemOK
  <2>3. CASE ~kept /\ item.newDoc # None /\ item.seed
    <3>1. r \in DOMAIN u.mine.live /\ u.mine.live[r] = RuntimeDoc(item.newDoc)
      BY <1>2, <2>3 DEF WroteOK, SeededOK
    <3>2. live[r] = None
      BY <2>3, <3>1 DEF Overtaken
    <3>3. item.expectedLive = None
      BY <1>2, <2>3 DEF ItemOK
    <3>. QED
      BY <1>4, <1>5, <2>3, <3>1, <3>2, <3>3 DEF LiveFresh, Writable, LiveAfter
  <2>4. CASE ~kept /\ item.newDoc # None /\ ~item.seed
    <3>1. PutOK(u, r, live)
      BY <1>2, <2>4 DEF WroteOK
    <3>2. live[r] \in Doc /\ HashDoc(live[r]) = item.expectedLive /\ LiveIn(u, r, live) = live[r]
      BY <1>6, <2>4, <3>1 DEF PutOK
    <3>3. live'[r] = PutRecord(live[r], item.newDoc)
      <4>1. CASE r \in DOMAIN u.mine.live
        BY <1>5, <3>1, <3>2, <4>1 DEF PutOK
      <4>2. CASE r \notin DOMAIN u.mine.live
        <5>1. u.seen = None
          BY <1>1, <2>4, <4>2 DEF Shape
        <5>. QED
          BY <1>5, <3>1, <4>2, <5>1 DEF PutOK
      <4>. QED
        BY <4>1, <4>2
    <3>. QED
      BY <1>4, <2>4, <3>2, <3>3, NoneIsApart DEF LiveFresh, Writable, LiveAfter
  <2>. QED
    BY <2>1, <2>2, <2>3, <2>4
<1>. QED
  BY <1>7, <1>8, <1>9, <1>10 DEF CanApply

(* A commit is apply_many of its items, unless it makes a twin.            *)
LEMMA CommitIsApplyMany ==
  ASSUME IInv, NEW p \in Clients, Commit(p), twins' = twins
  PROVE  ApplyMany(Effective(p))
<1> DEFINE u == tx[p]
<1> DEFINE items == Effective(p)
<1>1. Overtaken(u, live) = {}
  <2>1. ASSUME NEW r \in Overtaken(u, live) PROVE FALSE
    <3>1. r \in twins
      BY CommitFacts
    <3>2. r \in DOMAIN u.mine.live /\ u.items[r].seed /\ r \in DOMAIN u.items
      BY CommitFacts DEF Overtaken
    <3>3. CommitsRight(u, r) /\ SnapshotOK(u, live, heads, twins, moved)
      BY <3>2, CommitFacts DEF TxOK
    <3>4. SeededOK(u, r, live) /\ RecordedOK(u, r, heads, history)
      BY <3>2, <3>3 DEF CommitsRight, WroteOK, ItemOK
    <3>5. backend = "mongo" /\ u.seen # None
      BY <2>1, <3>4, OvertakenIsMoved DEF SeededOK, LiveIn, Overtaken
    <3>6. Key("row", r, u.seen.heads[r].seq + 1) \notin u.stale
      <4>1. Key("row", r, heads[r].seq + 1).kind = "row"
        BY DEF Key
      <4>. QED
        BY <3>3, <3>4, <3>5, <4>1 DEF SnapshotOK, RecordedOK
    <3>7. r \in u.seen.twins
      BY <3>1, <3>3, <3>5, <3>6 DEF SnapshotOK, RecordAsSeen, CommitsRight
    <3>. QED
      BY <3>4, <3>5, <3>7 DEF SeededOK
  <2>. QED
    BY <2>1
<1>2. DOMAIN items = DOMAIN u.items
  BY DEF Effective
<1>3. \A r \in DOMAIN items :
        /\ CanApply(r, items[r]) /\ live'[r] = LiveAfter(r, items[r])
        /\ history'[r] = HistoryAfter(r, items[r]) /\ heads'[r] = HeadAfter(r, items[r])
  BY <1>1, <1>2, CommitAppliesItem
<1> HIDE DEF items
<1>4. \A r \in Records \ DOMAIN items :
        heads'[r] = heads[r] /\ history'[r] = history[r] /\ live'[r] = live[r]
  BY <1>2, CommitFacts
<1>5. live' = [r \in Records |-> live'[r]] /\ history' = [r \in Records |-> history'[r]]
  BY DEF Commit
<1>6. heads' = [r \in Records |-> heads'[r]]
  <2>1. heads' = Over(u.mine.heads, heads) /\ DOMAIN heads' = Records
    BY CommitFacts DEF Commit
  <2>. QED
    BY <2>1 DEF Over
<1>7. live' = [r \in Records |->
                IF r \in DOMAIN items THEN LiveAfter(r, items[r]) ELSE live[r]]
  BY <1>3, <1>4, <1>5
<1>8. history' = [r \in Records |->
                   IF r \in DOMAIN items THEN HistoryAfter(r, items[r]) ELSE history[r]]
  BY <1>3, <1>4, <1>5
<1>9. heads' = [r \in Records |->
                 IF r \in DOMAIN items THEN HeadAfter(r, items[r]) ELSE heads[r]]
  BY <1>3, <1>4, <1>6
<1>10. AllCanApply(items) /\ UNCHANGED clock
  BY <1>3, CommitFacts DEF AllCanApply
<1>. QED
  BY <1>7, <1>8, <1>9, <1>10 DEF ApplyMany, items

(* Every other statement leaves the store alone.                           *)
LEMMA OnlyCommitsWrite ==
  ASSUME IInv, [TxNext]_txVars
  PROVE  \/ UNCHANGED <<live, heads, history, ref>>
         \/ \E p \in Clients : Commit(p)
         \/ \E r \in Records : RawWrite(r, live'[r]) /\ UNCHANGED ref
<1>1. CASE UNCHANGED txVars
  BY <1>1 DEF txVars, storeVars
<1>2. ASSUME NEW p \in Clients, ApplyOne(p) \/ ApplySeveral(p)
      PROVE  UNCHANGED <<live, heads, history, ref>>
  BY <1>2 DEF ApplyOne, ApplySeveral, Call, Stay, storeVars
<1>3. ASSUME NEW p \in Clients, Work(p) \/ Die(p), ~Commit(p)
      PROVE  UNCHANGED <<live, heads, history, ref>>
  BY <1>3 DEF Work, Die, ReadHead, ReadLive, Record, CheckMissing, Seed, Put, PutRef, Abort,
              Statement, Stay, storeVars
<1>4. ASSUME NEW r \in Busy, NEW d \in Doc \cup {None}, Outside(r, d)
      PROVE  \/ UNCHANGED <<live, heads, history, ref>>
             \/ \E x \in Records : RawWrite(x, live'[x]) /\ UNCHANGED ref
  <2>1. r \in Records /\ live' = [live EXCEPT ![r] = d] /\ UNCHANGED <<heads, history, clock>>
    BY <1>4, AttemptAssumption DEF Outside, RawWrite
  <2>2. live'[r] = d
    BY <2>1 DEF IInv, StoreInv
  <2>. QED
    BY <1>4, <2>1, <2>2 DEF Outside
<1>. QED
  BY <1>1, <1>2, <1>3, <1>4 DEF TxNext, Work

(* ApplyIsAtomic: for any number of transactions on either database, their *)
(* statements come to steps of Store's ApplyMany, decided on the store as  *)
(* it is at the commit.                                                    *)
THEOREM ApplyIsOneStep == TxSpec => ApplyIsAtomic
<1>1. ASSUME IInv, [TxNext]_txVars
      PROVE  [\/ UNCHANGED stored
              \/ \E p \in Clients :
                   /\ tx[p].pc = "commit" /\ ApplyMany(Effective(p))
                   /\ ref' = IF tx[p].refs THEN p ELSE ref
              \/ \E r \in Records : RawWrite(r, live'[r]) /\ UNCHANGED ref
              \/ twins' # twins]_txVars
  <2>1. ASSUME NEW p \in Clients, Commit(p), twins' = twins
        PROVE  /\ tx[p].pc = "commit" /\ ApplyMany(Effective(p))
               /\ ref' = IF tx[p].refs THEN p ELSE ref
    <3>1. tx[p].pc = "commit" /\ ref' = IF tx[p].mine.ref THEN p ELSE ref
      BY <2>1 DEF Commit
    <3>2. Shape(tx[p], backend)
      BY <1>1, <3>1, UnderWay DEF Steps, TxOK
    <3>3. tx[p].mine.ref <=> tx[p].refs
      BY <3>1, <3>2 DEF Shape
    <3>. QED
      BY <1>1, <2>1, <3>1, <3>3, CommitIsApplyMany
  <2>. QED
    BY <1>1, <2>1, OnlyCommitsWrite DEF stored
<1>. QED
  BY <1>1, Invariance, PTL DEF TxSpec, ApplyIsAtomic

(* A commit moves a HEAD.                                                  *)
LEMMA CommitMovesHead ==
  ASSUME IInv, NEW p \in Clients, Commit(p)
  PROVE  heads' # heads
<1>1. PICK r \in DOMAIN tx[p].items : TRUE
  BY CommitFacts
<1>2. Commits(tx[p], r) /\ CommitsRight(tx[p], r)
  BY CommitFacts
<1>3. heads'[r].seq = heads[r].seq + 1 /\ heads[r].seq \in Nat
  BY <1>2 DEF Commits, CommitsRight
<1>. QED
  BY <1>3

(* A statement that goes on does not end the call.                         *)
LEMMA GoesOn ==
  ASSUME DOMAIN tx = Clients, NEW p \in Clients, NEW t, "pc" \in DOMAIN t, Goes(p, t)
  PROVE  tx'[p].pc # "done"
<1> DEFINE next == [t EXCEPT !.keys = @ \cup Wanted(p), !.pc = Advance(@, ItemOf(p))]
<1>1. tx'[p] = IF next.pc = "next" THEN Moved(next, p) ELSE next
  BY DEF Goes, Set
<1>2. "pc" \in DOMAIN next /\ next.pc # "done"
  <2>1. Advance(t.pc, ItemOf(p)) # "done"
    BY DEF Advance
  <2>. QED
    BY <2>1
<1> HIDE DEF next
<1>3. Moved(next, p).pc # "done"
  BY <1>2 DEF Moved
<1>. QED
  BY <1>1, <1>2, <1>3

(* The answers of a call that has not been applied.                        *)
Refused ==
  {"lost", "failed", "stale_head", "stale_live", "not_found", "ambiguous",
   "atomicity_unavailable"}

(* An error ends the call with one of them.                                *)
LEMMA RaiseRefuses ==
  ASSUME DOMAIN tx = Clients, NEW p \in Clients, NEW result \in Refused, Raise(p, result)
  PROVE  tx'[p].result \in Refused
<1>1. tx'[p] = Ended(p, result)
  BY DEF Raise, Set
<1>2. Ended(p, result).result = result
  BY DEF Ended, NoTx
<1>. QED
  BY <1>1, <1>2

(* A step of a transaction that is not its commit changes nothing that is  *)
(* stored, and if it ends the call it refuses it.                          *)
LEMMA QuietStep ==
  ASSUME IInv, NEW p \in Clients,
         ApplyOne(p) \/ ApplySeveral(p) \/ Die(p) \/ Work(p), ~Commit(p)
  PROVE  /\ stored' = stored
         /\ \A q \in Clients \ {p} : tx'[q] = tx[q]
         /\ tx'[p].pc = "done" => tx'[p].result \in Refused
<1>1. DOMAIN tx = Clients
  BY DEF IInv, TxsOK
<1>2. tx[p].pc \in Steps => "pc" \in DOMAIN tx[p]
  <2>1. tx[p].pc \in Steps => tx[p] \in Transaction
    BY UnderWay DEF TxOK, Shape
  <2>. QED
    BY <2>1 DEF Transaction
<1>3. ASSUME ApplyOne(p) \/ ApplySeveral(p)
      PROVE  /\ Stay /\ \E t : Set(p, t)
             /\ tx'[p].pc = "done" => tx'[p].result \in Refused
  <2>1. PICK order, items, refs : Call(p, order, items, refs)
    BY <1>3 DEF ApplyOne, ApplySeveral
  <2>2. CASE backend = "standalone"
    <3>1. Raise(p, "atomicity_unavailable") /\ Stay
      BY <2>1, <2>2 DEF Call, Raise
    <3>. QED
      BY <1>1, <3>1, RaiseRefuses DEF Refused, Raise
  <2>3. CASE backend # "standalone"
    <3> DEFINE n == [NoTx EXCEPT !.pc = "read_head", !.items = items, !.order = order,
                                 !.refs = refs]
    <3>1. Set(p, n) /\ Stay
      BY <2>1, <2>3 DEF Call
    <3>2. n.pc = "read_head"
      BY DEF NoTx
    <3> HIDE DEF n
    <3>. QED
      BY <1>1, <3>1, <3>2 DEF Set
  <2>. QED
    BY <2>2, <2>3
<1>4. ASSUME Die(p)
      PROVE  /\ Stay /\ \E t : Set(p, t)
             /\ tx'[p].pc = "done" => tx'[p].result \in Refused
  <2>1. Raise(p, "lost") /\ Stay
    BY <1>4 DEF Die
  <2>. QED
    BY <1>1, <2>1, RaiseRefuses DEF Refused, Raise
<1>5. ASSUME NEW result \in Refused, Raise(p, result)
      PROVE  (\E t : Set(p, t)) /\ tx'[p].result \in Refused
  BY <1>1, <1>5, RaiseRefuses DEF Raise
<1>6. ASSUME NEW t, "pc" \in DOMAIN t, Goes(p, t)
      PROVE  (\E n : Set(p, n)) /\ tx'[p].pc # "done"
  BY <1>1, <1>6, GoesOn DEF Goes
<1>7. ASSUME ReadHead(p)
      PROVE  /\ Stay /\ \E t : Set(p, t)
             /\ tx'[p].pc = "done" => tx'[p].result \in Refused
  <2> DEFINE t == [tx[p] EXCEPT !.ptr = HeadSeen(p, Rec(p)),
                                !.seen = IF backend = "mongo" THEN Seen(p) ELSE None]
  <2>1. Stay /\ tx[p].pc \in Steps /\ (Raise(p, "stale_head") \/ Goes(p, t))
    BY <1>7 DEF ReadHead, Statement, Steps
  <2>2. "pc" \in DOMAIN t
    BY <1>2, <2>1
  <2> HIDE DEF t
  <2>. QED
    BY <1>5, <1>6, <2>1, <2>2 DEF Refused
<1>8. ASSUME ReadLive(p) \/ CheckMissing(p)
      PROVE  /\ Stay /\ \E t : Set(p, t)
             /\ tx'[p].pc = "done" => tx'[p].result \in Refused
  <2>1. /\ Stay /\ tx[p].pc \in Steps
        /\ \/ Raise(p, "ambiguous") \/ Raise(p, "not_found") \/ Raise(p, "stale_live")
           \/ Goes(p, tx[p])
    BY <1>8 DEF ReadLive, CheckMissing, Statement, Steps
  <2>. QED
    BY <1>2, <1>5, <1>6, <2>1 DEF Refused
<1>9. ASSUME Record(p)
      PROVE  /\ Stay /\ \E t : Set(p, t)
             /\ tx'[p].pc = "done" => tx'[p].result \in Refused
  <2>1. PICK rows : /\ Stay /\ tx[p].pc \in Steps
                    /\ \/ Raise(p, "failed")
                       \/ Goes(p, [tx[p] EXCEPT !.mine.rows = With(@, Rec(p), rows)])
    BY <1>9 DEF Record, Statement, Steps
  <2> DEFINE t == [tx[p] EXCEPT !.mine.rows = With(@, Rec(p), rows)]
  <2>2. "pc" \in DOMAIN t /\ (Raise(p, "failed") \/ Goes(p, t))
    BY <1>2, <2>1
  <2> HIDE DEF t
  <2>. QED
    BY <1>5, <1>6, <2>1, <2>2 DEF Refused
<1>10. ASSUME Seed(p) \/ Put(p)
       PROVE  /\ Stay /\ \E t : Set(p, t)
              /\ tx'[p].pc = "done" => tx'[p].result \in Refused
  <2>1. /\ Stay /\ tx[p].pc \in Steps
        /\ \/ Raise(p, "failed") \/ Raise(p, "ambiguous") \/ Raise(p, "not_found")
           \/ Goes(p, tx[p]) \/ Goes(p, Wrote(p))
    BY <1>10 DEF Seed, Put, Statement, Steps
  <2>2. "pc" \in DOMAIN tx[p] /\ "pc" \in DOMAIN Wrote(p)
    BY <1>2, <2>1 DEF Wrote
  <2>. QED
    BY <1>5, <1>6, <2>1, <2>2 DEF Refused
<1>11. ASSUME PutRef(p)
       PROVE  /\ Stay /\ \E t : Set(p, t)
              /\ tx'[p].pc = "done" => tx'[p].result \in Refused
  <2> DEFINE t == [tx[p] EXCEPT !.keys = @ \cup Wanted(p), !.mine.ref = TRUE, !.pc = "commit"]
  <2>1. Stay /\ tx[p].pc \in Steps /\ Set(p, t)
    BY <1>11 DEF PutRef, Statement, Steps
  <2>2. t.pc = "commit"
    BY <1>2, <2>1
  <2> HIDE DEF t
  <2>. QED
    BY <1>1, <2>1, <2>2 DEF Set
<1>12. ASSUME Abort(p)
       PROVE  /\ Stay /\ \E t : Set(p, t)
              /\ tx'[p].pc = "done" => tx'[p].result \in Refused
  <2>1. Stay /\ (Raise(p, "failed") \/ Set(p, Again(p)))
    BY <1>12 DEF Abort, Raise
  <2>2. Again(p).pc = "read_head"
    BY DEF Again, NoTx
  <2>3. Set(p, Again(p)) => tx'[p] = Again(p)
    BY <1>1 DEF Set
  <2>. QED
    BY <1>5, <2>1, <2>2, <2>3 DEF Refused
<1>13. /\ Stay /\ \E t : Set(p, t)
       /\ tx'[p].pc = "done" => tx'[p].result \in Refused
  BY <1>3, <1>4, <1>7, <1>8, <1>9, <1>10, <1>11, <1>12 DEF Work
<1>14. stored' = stored
  BY <1>13 DEF Stay, stored, storeVars
<1>15. \A q \in Clients \ {p} : tx'[q] = tx[q]
  BY <1>1, <1>13 DEF Set
<1>. QED
  BY <1>13, <1>14, <1>15

(* A call that has not answered has written nothing yet.                   *)
WroteAtEnd ==
  /\ wrote \in [Clients -> Nat]
  /\ \A p \in Clients : tx[p].pc # "done" => wrote[p] = 0

(* What an answer says of what the call wrote.                             *)
Answered(p) ==
  tx[p].pc # "done" /\ tx'[p].pc = "done" =>
    wrote'[p] \in CASE tx'[p].result = "applied" -> {1}
                    [] tx'[p].result = "lost" -> {0, 1}
                    [] OTHER -> {0}

(* A step that writes nothing answers with a refusal.                      *)
LEMMA QuietAnswer ==
  ASSUME IInv, WroteAtEnd, NEW p \in Clients,
         ApplyOne(p) \/ ApplySeveral(p) \/ Die(p) \/ Work(p), ~Commit(p), Counted(p)
  PROVE  WroteAtEnd' /\ \A q \in Clients : Answered(q)
<1>1. /\ stored' = stored
      /\ \A q \in Clients \ {p} : tx'[q] = tx[q]
      /\ tx'[p].pc = "done" => tx'[p].result \in Refused
  BY QuietStep
<1>2. wrote' = wrote
  BY <1>1 DEF Counted
<1>3. tx[p].pc # "done"
  BY DEF ApplyOne, ApplySeveral, Call, Die, Running, Steps, Work, ReadHead, ReadLive, Record,
         CheckMissing, Seed, Put, PutRef, Abort, Statement
<1>4. WroteAtEnd'
  BY <1>1, <1>2, <1>3 DEF WroteAtEnd
<1>5. Answered(p)
  BY <1>1, <1>2, <1>3 DEF WroteAtEnd, Answered, Refused
<1>6. \A q \in Clients \ {p} : Answered(q)
  BY <1>1 DEF Answered
<1>. QED
  BY <1>4, <1>5, <1>6

(* A commit writes, once.                                                  *)
LEMMA CommitAnswer ==
  ASSUME IInv, WroteAtEnd, NEW p \in Clients, Commit(p), Counted(p)
  PROVE  WroteAtEnd' /\ \A q \in Clients : Answered(q)
<1>1. PICK result \in {"applied", "lost"} :
        tx' = [q \in Clients |->
          IF q = p THEN Ended(p, result) ELSE Outdated(tx[q], tx[p].keys)]
  BY DEF Commit
<1>2. tx[p].pc = "commit" /\ wrote[p] = 0 /\ wrote \in [Clients -> Nat]
  BY DEF Commit, WroteAtEnd
<1>3. stored' # stored
  BY CommitMovesHead DEF stored
<1>4. wrote' = [wrote EXCEPT ![p] = 1]
  BY <1>2, <1>3 DEF Counted
<1>5. tx'[p].pc = "done" /\ tx'[p].result = result
  <2>1. Ended(p, result).pc = "done" /\ Ended(p, result).result = result
    BY DEF Ended, NoTx
  <2>. QED
    BY <1>1, <2>1
<1>6. \A q \in Clients \ {p} : tx'[q].pc = tx[q].pc
  BY <1>1 DEF Outdated
<1>7. WroteAtEnd'
  BY <1>2, <1>4, <1>5, <1>6 DEF WroteAtEnd
<1>8. Answered(p)
  BY <1>2, <1>4, <1>5 DEF Answered
<1>9. \A q \in Clients \ {p} : Answered(q)
  BY <1>6 DEF Answered
<1>. QED
  BY <1>7, <1>8, <1>9

(* Any step does.                                                          *)
LEMMA StepAnswers ==
  ASSUME IInv, WroteAtEnd, [TxNext]_txVars
  PROVE  WroteAtEnd' /\ \A p \in Clients : Answered(p)
<1>1. CASE UNCHANGED txVars
  BY <1>1 DEF txVars, WroteAtEnd, Answered
<1>2. ASSUME NEW p \in Clients, Work(p)
      PROVE  WroteAtEnd' /\ \A q \in Clients : Answered(q)
  <2>1. Counted(p)
    BY <1>2 DEF Work
  <2>. QED
    BY <1>2, <2>1, QuietAnswer, CommitAnswer
<1>3. ASSUME NEW p \in Clients, ApplyOne(p) \/ ApplySeveral(p) \/ Die(p), Counted(p)
      PROVE  WroteAtEnd' /\ \A q \in Clients : Answered(q)
  BY <1>3, QuietAnswer, CommitAnswer
<1>4. ASSUME NEW r \in Busy, NEW d \in Doc \cup {None}, Outside(r, d), UNCHANGED wrote
      PROVE  WroteAtEnd' /\ \A q \in Clients : Answered(q)
  <2>1. \A q \in Clients : tx'[q].pc = tx[q].pc
    BY <1>4 DEF Outside, Outdated
  <2>. QED
    BY <1>4, <2>1 DEF WroteAtEnd, Answered
<1>. QED
  BY <1>1, <1>2, <1>3, <1>4 DEF TxNext

(* AnswerIsTrue: who is refused has written nothing in any statement of    *)
(* any attempt, and nobody has written twice, whatever he is told.         *)
THEOREM AnswersAreTrue == TxSpec => AnswerIsTrue
<1>1. TxInit => WroteAtEnd
  BY DEF TxInit, WroteAtEnd
<1>2. IInv /\ WroteAtEnd /\ [TxNext]_txVars => WroteAtEnd'
  BY StepAnswers
<1>3. IInv /\ WroteAtEnd /\ [TxNext]_txVars =>
        [\A p \in Clients : tx[p].pc # "done" /\ tx'[p].pc = "done" =>
           wrote'[p] \in CASE tx'[p].result = "applied" -> {1}
                           [] tx'[p].result = "lost" -> {0, 1}
                           [] OTHER -> {0}]_txVars
  BY StepAnswers DEF Answered
<1>. QED
  BY <1>1, <1>2, <1>3, Invariance, PTL DEF TxSpec, AnswerIsTrue
=============================================================================
