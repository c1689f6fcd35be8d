---------------------------- MODULE EngineProofs ----------------------------
(***************************************************************************)
(* Proofs about Engine, for any records, clients, contents and bounds.     *)
(***************************************************************************)
EXTENDS Engine, SequenceTheorems, WellFoundedInduction, TLAPS

(***************************************************************************)
(* The inductive invariant.  Of a client: what it remembers of its reads,  *)
(* although the store has moved on since.  Its HEAD was HEAD once, so it   *)
(* is a row of the history, and its verdict was none.                      *)
(***************************************************************************)
SeenHead(q) ==
  \/ q.head = NoHead
  \/ /\ q.head.seq \in 1 .. heads[q.rec].seq
     /\ history[q.rec][q.head.seq].oid = q.head.oid

HasRead(q) == q.pc \in {"entry", "apply"} \/ (q.pc = "read_head" /\ q.op # "import")

ClientOK(q) ==
  q.pc \notin {"idle", "done"} =>
    /\ q.rec \in Records /\ q.op \in OpNames \ {"merge"}
    /\ q.op = "import" => ~Exists(q.head)
    /\ q.pc = "resolve" => q.op = "restore"
    /\ Writes(q.op) /\ q.pc # "resolve" => q.doc \in Doc
    /\ HasRead(q) => q.live \in Doc /\ (~Writes(q.op) => q.doc = q.live)
    /\ SeenHead(q)
    /\ q.pc \in {"entry", "apply"} =>
         /\ q.op \in {"commit", "adopt"} => HashDoc(q.doc) # q.head.oid
         /\ Writes(q.op) /\ Exists(q.head) => HashDoc(q.live) = q.head.oid
    /\ q.pc = "apply" => q.from \in 0 .. MaxClock

StoreInv ==
  /\ HeadIsLastRow
  /\ ParentChain
  /\ IntervalsAbut
  /\ NoEmptyVersion
  /\ NoSecretInHistory

ClientsOK == \A c \in Clients : ClientOK(req[c])

IInv == TypeOK /\ StoreInv /\ ClientsOK

-----------------------------------------------------------------------------
(***************************************************************************)
(* Lemmas about the store.                                                 *)
(***************************************************************************)

(* get_head returns the pointer: its row exists and has its oid.           *)
LEMMA GetHeadIsPointer ==
  ASSUME StoreTypeOK, HeadIsLastRow, NEW r \in Records
  PROVE  GetHead(r) = heads[r]
<1>1. heads[r] = [oid |-> heads[r].oid, seq |-> heads[r].seq] /\ heads[r].seq \in Nat
  BY DEF StoreTypeOK
<1>2. CASE heads[r].seq = 0
  BY <1>1, <1>2 DEF GetHead, HeadIsLastRow, NoHead
<1>3. CASE heads[r].seq # 0
  <2>1. heads[r].seq \in 1 .. heads[r].seq
    BY <1>1, <1>3
  <2>. QED
    BY <1>1, <1>3, <2>1 DEF GetHead, HeadIsLastRow
<1>. QED
  BY <1>2, <1>3

(* What is written of a document is a document, and has the content the    *)
(* given one has once it is written.                                       *)
LEMMA RuntimeIsDoc ==
  ASSUME NEW d \in Doc
  PROVE  RuntimeDoc(d) \in Doc /\ HashDoc(RuntimeDoc(d)) = RuntimeBody[HashDoc(d)]
BY RuntimeAssumption DEF RuntimeDoc, Doc, HashDoc

(* So is what a put leaves, though part of it was there before.            *)
LEMMA PutIsDoc ==
  ASSUME NEW cur \in Doc, NEW new \in Doc
  PROVE  PutRecord(cur, new) \in Doc /\ HashDoc(PutRecord(cur, new)) = RuntimeBody[HashDoc(new)]
<1>. DEFINE d == RuntimeDoc(new)
<1>1. d \in Doc /\ HashDoc(d) = RuntimeBody[HashDoc(new)]
  BY RuntimeIsDoc
<1>. HIDE DEF d
<1>2. /\ [d EXCEPT !.sec = IF new.sec = None THEN cur.sec ELSE new.sec] \in Doc
      /\ HashDoc([d EXCEPT !.sec = IF new.sec = None THEN cur.sec ELSE new.sec]) = HashDoc(d)
  BY <1>1 DEF Doc, HashDoc
<1>3. PutPostgres(cur, new) \in Doc /\ HashDoc(PutPostgres(cur, new)) = HashDoc(d)
  BY <1>2 DEF PutPostgres, d
<1>4. ASSUME NEW x \in Doc
      PROVE  /\ [x EXCEPT !.ign.fields = cur.ign.fields] \in Doc
             /\ HashDoc([x EXCEPT !.ign.fields = cur.ign.fields]) = HashDoc(x)
  BY DEF Doc, Ignored, HashDoc
<1>5. PutMongo(cur, new) \in Doc /\ HashDoc(PutMongo(cur, new)) = HashDoc(d)
  BY <1>3, <1>4 DEF PutMongo
<1>. QED
  BY <1>1, <1>3, <1>5 DEF PutRecord

(* What stored_doc keeps is a document without its secrets, with the same  *)
(* hash; a document and a hash are never None.                             *)
LEMMA StoredIsDoc ==
  ASSUME NEW d \in Doc
  PROVE  StoredDoc(d) \in Doc /\ StoredDoc(d).sec = None /\ HashDoc(StoredDoc(d)) = HashDoc(d)
         /\ HashDoc(d) \in Bodies /\ d # None /\ HashDoc(d) # None
BY NoneAssumption, DocAssumption DEF StoredDoc, Doc, HashDoc

(* A closed row differs in its valid_to alone.                             *)
LEMMA ClosedRow ==
  ASSUME NEW row \in Row, row.to = None, NEW at \in Nat,
         NEW closed, closed = CloseRow(row, at)
  PROVE  /\ closed \in Row
         /\ closed.to = at
         /\ closed.oid = row.oid /\ closed.parent = row.parent /\ closed.doc = row.doc
         /\ closed.op = row.op /\ closed.from = row.from
BY DEF CloseRow, Row

(* The history after a transaction: the old rows, HEAD's closed, and one   *)
(* more.                                                                   *)
LEMMA ApplyHistory ==
  ASSUME StoreTypeOK, HeadIsLastRow, NEW r \in Records, NEW item, Apply(r, item)
  PROVE  /\ heads[r].seq \in Nat
         /\ DOMAIN history' = Records
         /\ \A x \in Records \ {r} : history'[x] = history[x] /\ heads'[x] = heads[x]
         /\ heads'[r] = [oid |-> item.entry.oid, seq |-> heads[r].seq + 1]
         /\ DOMAIN history'[r] = 1 .. (heads[r].seq + 1)
         /\ history'[r][heads[r].seq + 1] = item.entry
         /\ \A s \in 1 .. heads[r].seq : history'[r][s] =
              IF s = heads[r].seq THEN CloseRow(history[r][s], item.entry.from)
              ELSE history[r][s]
<1>1. heads[r].seq \in Nat /\ DOMAIN history = Records /\ DOMAIN heads = Records
  BY DEF StoreTypeOK
<1>2. DOMAIN history[r] = 1 .. heads[r].seq
  BY DEF HeadIsLastRow
<1>3. /\ history'[r] = HistoryAfter(r, item)
      /\ heads'[r] = [oid |-> item.entry.oid, seq |-> heads[r].seq + 1]
  BY <1>1 DEF Apply, HeadAfter
<1>4. /\ DOMAIN history' = Records
      /\ \A x \in Records \ {r} : history'[x] = history[x] /\ heads'[x] = heads[x]
  BY <1>1 DEF Apply
<1>5. /\ DOMAIN history'[r] = 1 .. (heads[r].seq + 1)
      /\ history'[r][heads[r].seq + 1] = item.entry
      /\ \A s \in 1 .. heads[r].seq : history'[r][s] =
           IF s = heads[r].seq THEN CloseRow(history[r][s], item.entry.from)
           ELSE history[r][s]
  BY <1>1, <1>2, <1>3 DEF HistoryAfter
<1>. QED
  BY <1>1, <1>3, <1>4, <1>5

(* The same, row by row: of an old row only valid_to can have changed.     *)
LEMMA ApplyOldRows ==
  ASSUME StoreTypeOK, HeadIsLastRow, IntervalsAbut,
         NEW r \in Records, NEW item, item.entry.from \in Nat, Apply(r, item),
         NEW s \in 1 .. heads[r].seq, NEW old, old = history[r][s],
         NEW new, new = history'[r][s]
  PROVE  /\ old \in Row
         /\ new \in Row
         /\ new.to = IF s = heads[r].seq THEN item.entry.from ELSE old.to
         /\ new.oid = old.oid /\ new.parent = old.parent /\ new.doc = old.doc
         /\ new.op = old.op /\ new.from = old.from
<1>1. s \in DOMAIN history[r] /\ old \in Row
  BY DEF HeadIsLastRow, StoreTypeOK
<1>2. new = IF s = heads[r].seq THEN CloseRow(old, item.entry.from) ELSE old
  <2>1. \A x \in 1 .. heads[r].seq : history'[r][x] =
          IF x = heads[r].seq THEN CloseRow(history[r][x], item.entry.from) ELSE history[r][x]
    BY ApplyHistory
  <2>. QED
    BY <2>1
<1>3. s = heads[r].seq => old.to = None
  BY <1>1 DEF IntervalsAbut
<1>. QED
  BY <1>1, <1>2, <1>3, ClosedRow

-----------------------------------------------------------------------------
(***************************************************************************)
(* The transaction of a client.                                            *)
(***************************************************************************)

(* What a client in phase "apply" asks for.                                *)
LEMMA ItemShape ==
  ASSUME TypeOK, NEW c \in Clients, ClientOK(req[c]), req[c].pc = "apply",
         NEW entry, entry = Item(req[c]).entry
  PROVE  /\ req[c].rec \in Records
         /\ entry \in Row
         /\ entry.oid = HashDoc(req[c].doc)
         /\ entry.parent = req[c].head.oid
         /\ entry.doc.sec = None
         /\ entry.op = req[c].op
         /\ entry.from = req[c].from
         /\ entry.from \in Nat
         /\ entry.to = None
<1>. DEFINE q == req[c]
<1>1. q \in Request
  BY DEF TypeOK
<1>2. /\ q.rec \in Records /\ q.op \in OpNames /\ q.doc \in Doc /\ q.from \in 0 .. MaxClock
  BY DEF ClientOK, HasRead
<1>3. /\ StoredDoc(q.doc) \in Doc /\ StoredDoc(q.doc).sec = None
      /\ HashDoc(StoredDoc(q.doc)) = HashDoc(q.doc) /\ HashDoc(q.doc) \in Bodies
  BY <1>2, StoredIsDoc
<1>4. q.head.oid \in Bodies \cup {None} /\ q.from \in Nat
  BY <1>1, <1>2, ClockAssumption DEF Request
<1>5. entry = [oid |-> HashDoc(StoredDoc(q.doc)), parent |-> q.head.oid,
               doc |-> StoredDoc(q.doc), op |-> q.op, from |-> q.from, to |-> None]
  BY DEF Item
<1>. QED
  BY <1>2, <1>3, <1>4, <1>5 DEF Row

(* What the adapter does with it.                                          *)
LEMMA ApplyTypeOK ==
  ASSUME TypeOK, HeadIsLastRow, IntervalsAbut, NEW c \in Clients, ClientOK(req[c]),
         req[c].pc = "apply", Apply(req[c].rec, Item(req[c]))
  PROVE  StoreTypeOK'
<1>. DEFINE q == req[c]  r == q.rec  item == Item(q)  n == heads[r].seq
<1>1. r \in Records /\ item.entry \in Row /\ item.entry.from \in Nat
  BY ItemShape DEF Row
<1>2. StoreTypeOK
  BY DEF TypeOK
<1>3. live' \in [Records -> Doc \cup {None}]
  <2>1. q.doc \in Doc
    BY DEF ClientOK, HasRead
  <2>2. LiveAfter(r, item) \in Doc \cup {None}
    <3>1. CASE item.newDoc = None
      BY <1>1, <1>2, <3>1 DEF LiveAfter, StoreTypeOK
    <3>2. CASE item.newDoc # None
      <4>1. item.newDoc = q.doc /\ item.seed = FALSE
        BY <3>2 DEF Item
      <4>2. live[r] \in Doc
        BY <1>1, <1>2, <3>2, <4>1 DEF Apply, CanApply, Writable, StoreTypeOK
      <4>. QED
        BY <2>1, <3>2, <4>1, <4>2, PutIsDoc DEF LiveAfter
    <3>. QED
      BY <3>1, <3>2
  <2>. QED
    BY <1>1, <1>2, <2>2 DEF Apply, StoreTypeOK
<1>4. heads' \in [Records -> [oid : Bodies \cup {None}, seq : Nat]]
  <2>1. HeadAfter(r, item) \in [oid : Bodies \cup {None}, seq : Nat]
    BY <1>1, <1>2 DEF HeadAfter, StoreTypeOK, Row
  <2>. QED
    BY <1>1, <1>2, <2>1 DEF Apply, StoreTypeOK
<1>5. /\ n \in Nat
      /\ DOMAIN history' = Records
      /\ \A x \in Records \ {r} : history'[x] = history[x]
      /\ DOMAIN history'[r] = 1 .. (n + 1)
      /\ history'[r][n + 1] = item.entry
  BY <1>1, <1>2, ApplyHistory
<1>6. ASSUME NEW x \in Records, NEW s \in DOMAIN history'[x]
      PROVE  s \in Nat \ {0} /\ history'[x][s] \in Row
  <2>1. CASE x # r
    BY <1>2, <1>5, <2>1 DEF StoreTypeOK
  <2>2. CASE x = r /\ s = n + 1
    BY <1>1, <1>5, <2>2
  <2>3. CASE x = r /\ s \in 1 .. n
    BY <1>1, <1>2, <1>5, <2>3, ApplyOldRows
  <2>. QED
    BY <1>5, <2>1, <2>2, <2>3
<1>. QED
  BY <1>2, <1>3, <1>4, <1>5, <1>6 DEF StoreTypeOK, Apply

(* The step a client's transaction makes: the history of record r, of n    *)
(* rows, gains the row e.                                                  *)
OldRow(r, n, e, s) ==
  /\ history[r][s] \in Row
  /\ history'[r][s] \in Row
  /\ history'[r][s].to = IF s = n THEN e.from ELSE history[r][s].to
  /\ history'[r][s].oid = history[r][s].oid
  /\ history'[r][s].parent = history[r][s].parent
  /\ history'[r][s].doc = history[r][s].doc
  /\ history'[r][s].op = history[r][s].op
  /\ history'[r][s].from = history[r][s].from

Gains(r, n, e) ==
  /\ heads[r].seq = n /\ heads'[r].seq = n + 1
  /\ heads[r].oid = e.parent /\ heads'[r].oid = e.oid
  /\ DOMAIN history[r] = 1 .. n /\ DOMAIN history'[r] = 1 .. (n + 1)
  /\ history'[r][n + 1] = e
  /\ e.to = None
  /\ \A x \in Records \ {r} : history'[x] = history[x] /\ heads'[x] = heads[x]
  /\ \A s \in 1 .. n : OldRow(r, n, e, s)

(* The transaction of a client gives the record it is about one more row.  *)
LEMMA ApplyGains ==
  ASSUME TypeOK, StoreInv, NEW c \in Clients, ClientOK(req[c]), req[c].pc = "apply",
         NEW r, r = req[c].rec, NEW e, e = Item(req[c]).entry, NEW n, n = heads[r].seq,
         Apply(r, Item(req[c]))
  PROVE  r \in Records /\ n \in Nat /\ e \in Row /\ Gains(r, n, e)
<1>1. /\ r \in Records /\ e \in Row /\ e.to = None /\ e.from \in Nat
      /\ e.parent = req[c].head.oid
  BY ItemShape
<1>2. StoreTypeOK /\ HeadIsLastRow /\ IntervalsAbut
  BY DEF TypeOK, StoreInv
<1>3. e.parent = heads[r].oid
  BY <1>1 DEF Apply, CanApply, HeadFresh, Item
<1>4. ASSUME NEW s \in 1 .. n
      PROVE  OldRow(r, n, e, s)
  <2>. DEFINE old == history[r][s]  new == history'[r][s]  item == Item(req[c])
  <2>1. /\ old \in Row /\ new \in Row
        /\ new.to = IF s = heads[r].seq THEN item.entry.from ELSE old.to
        /\ new.oid = old.oid /\ new.parent = old.parent /\ new.doc = old.doc
        /\ new.op = old.op /\ new.from = old.from
    <3>. HIDE DEF old, new, item
    <3>1. s \in 1 .. heads[r].seq /\ item.entry.from \in Nat /\ Apply(r, item)
      BY <1>1, <1>4 DEF item
    <3>2. old = history[r][s] /\ new = history'[r][s]
      BY DEF old, new
    <3>. QED
      BY <1>1, <1>2, <3>1, <3>2, ApplyOldRows
  <2>. QED
    BY <2>1 DEF OldRow
<1>5. /\ n \in Nat
      /\ \A x \in Records \ {r} : history'[x] = history[x] /\ heads'[x] = heads[x]
      /\ heads'[r] = [oid |-> e.oid, seq |-> n + 1]
      /\ DOMAIN history'[r] = 1 .. (n + 1)
      /\ history'[r][n + 1] = e
  BY <1>1, <1>2, ApplyHistory
<1>6. DOMAIN history[r] = 1 .. n
  BY <1>1, <1>2 DEF HeadIsLastRow
<1>7. heads[r].seq = n /\ heads'[r].seq = n + 1 /\ heads'[r].oid = e.oid
  BY <1>5
<1>. QED
  BY <1>1, <1>3, <1>4, <1>5, <1>6, <1>7 DEF Gains

(* Such a step keeps the invariant of the store, part by part, if the row  *)
(* is no empty version and has no secret.                                  *)
LEMMA GainsStoreInv ==
  ASSUME StoreTypeOK, StoreInv, NEW r \in Records, NEW n \in Nat, NEW e \in Row,
         Gains(r, n, e), e.doc.sec = None,
         e.op \in {"commit", "adopt"} => e.oid # e.parent
  PROVE  StoreInv'
<1>1. HeadIsLastRow'
  <2>. SUFFICES ASSUME NEW x \in Records
                PROVE  /\ DOMAIN history'[x] = 1 .. heads'[x].seq
                       /\ heads'[x].oid =
                            IF heads'[x].seq = 0 THEN None ELSE history'[x][heads'[x].seq].oid
    BY DEF HeadIsLastRow
  <2>1. CASE x = r
    BY <2>1 DEF Gains
  <2>2. CASE x # r
    BY <2>2 DEF Gains, StoreInv, HeadIsLastRow
  <2>. QED
    BY <2>1, <2>2
<1>2. ParentChain'
  <2>. SUFFICES ASSUME NEW x \in Records, NEW s \in DOMAIN history'[x]
                PROVE  history'[x][s].parent = IF s = 1 THEN None ELSE history'[x][s - 1].oid
    BY DEF ParentChain
  <2>1. CASE x # r
    BY <2>1 DEF Gains, StoreInv, ParentChain
  <2>2. CASE x = r /\ s = n + 1
    <3>1. e.parent = IF n = 0 THEN None ELSE history[r][n].oid
      BY DEF Gains, StoreInv, HeadIsLastRow
    <3>2. n # 0 => OldRow(r, n, e, n)
      BY DEF Gains
    <3>3. s = n + 1 /\ s - 1 = n /\ (s = 1 <=> n = 0) /\ history'[r][s] = e
      BY <2>2 DEF Gains
    <3>4. n # 0 => history'[r][n].oid = history[r][n].oid
      BY <3>2 DEF OldRow
    <3>. QED
      BY <2>2, <3>1, <3>3, <3>4
  <2>3. CASE x = r /\ s \in 1 .. n
    <3>1. OldRow(r, n, e, s)
      BY <2>3 DEF Gains
    <3>2. s # 1 => OldRow(r, n, e, s - 1)
      BY <2>3 DEF Gains
    <3>3. history[r][s].parent = IF s = 1 THEN None ELSE history[r][s - 1].oid
      BY <2>3 DEF Gains, StoreInv, ParentChain
    <3>. QED
      BY <2>3, <3>1, <3>2, <3>3 DEF OldRow
  <2>. QED
    BY <2>1, <2>2, <2>3 DEF Gains
<1>3. IntervalsAbut'
  <2>. SUFFICES ASSUME NEW x \in Records, NEW s \in DOMAIN history'[x]
                PROVE  history'[x][s].to =
                         IF s = heads'[x].seq THEN None ELSE history'[x][s + 1].from
    BY DEF IntervalsAbut
  <2>1. CASE x # r
    BY <2>1 DEF Gains, StoreInv, IntervalsAbut
  <2>2. CASE x = r /\ s = n + 1
    BY <2>2 DEF Gains
  <2>3. CASE x = r /\ s \in 1 .. n /\ s = n
    <3>1. OldRow(r, n, e, s) /\ heads'[r].seq # s /\ history'[r][s + 1] = e
      BY <2>3 DEF Gains
    <3>. QED
      BY <2>3, <3>1 DEF OldRow
  <2>4. CASE x = r /\ s \in 1 .. n /\ s # n
    <3>1. OldRow(r, n, e, s) /\ OldRow(r, n, e, s + 1) /\ heads'[r].seq # s
      BY <2>4 DEF Gains
    <3>2. history[r][s].to = history[r][s + 1].from
      BY <2>4 DEF Gains, StoreInv, IntervalsAbut
    <3>. QED
      BY <2>4, <3>1, <3>2 DEF OldRow
  <2>. QED
    BY <2>1, <2>2, <2>3, <2>4 DEF Gains
<1>4. ASSUME NEW x \in Records, NEW s \in DOMAIN history'[x]
      PROVE  /\ history'[x][s].doc.sec = None
             /\ history'[x][s].op \in {"commit", "adopt"} =>
                  history'[x][s].oid # history'[x][s].parent
  <2>1. CASE x # r
    BY <1>4, <2>1 DEF Gains, StoreInv, NoSecretInHistory, NoEmptyVersion
  <2>2. CASE x = r /\ s = n + 1
    BY <2>2 DEF Gains
  <2>3. CASE x = r /\ s \in 1 .. n
    <3>1. OldRow(r, n, e, s)
      BY <2>3 DEF Gains
    <3>2. /\ history[r][s].doc.sec = None
          /\ history[r][s].op \in {"commit", "adopt"} =>
               history[r][s].oid # history[r][s].parent
      BY <2>3 DEF Gains, StoreInv, NoSecretInHistory, NoEmptyVersion
    <3>. QED
      BY <2>3, <3>1, <3>2 DEF OldRow
  <2>. QED
    BY <1>4, <2>1, <2>2, <2>3 DEF Gains
<1>5. NoSecretInHistory' /\ NoEmptyVersion'
  BY <1>4 DEF NoSecretInHistory, NoEmptyVersion
<1>. QED
  BY <1>1, <1>2, <1>3, <1>5 DEF StoreInv

(* A client's transaction is such a step.                                  *)
LEMMA ApplyStoreInv ==
  ASSUME TypeOK, StoreInv, NEW c \in Clients, ClientOK(req[c]), req[c].pc = "apply",
         Apply(req[c].rec, Item(req[c]))
  PROVE  StoreInv'
<1>1. PICK r, e, n : r = req[c].rec /\ e = Item(req[c]).entry /\ n = heads[r].seq
  OBVIOUS
<1>2. r \in Records /\ n \in Nat /\ e \in Row /\ Gains(r, n, e)
  BY <1>1, ApplyGains
<1>3. /\ e.oid = HashDoc(req[c].doc) /\ e.parent = req[c].head.oid
      /\ e.doc.sec = None /\ e.op = req[c].op /\ e.from = req[c].from
  BY <1>1, ItemShape
<1>4. e.op \in {"commit", "adopt"} => e.oid # e.parent
  BY <1>3 DEF ClientOK
<1>5. StoreTypeOK
  BY DEF TypeOK
<1>. QED
  BY <1>2, <1>3, <1>4, <1>5, GainsStoreInv

-----------------------------------------------------------------------------
(***************************************************************************)
(* The other steps of a client leave the store alone.                      *)
(***************************************************************************)

(* What a client remembers stays true while histories only grow.           *)
Grows ==
  \A r \in Records :
    /\ heads'[r].seq \in Nat /\ heads[r].seq <= heads'[r].seq
    /\ \A s \in 1 .. heads[r].seq : history'[r][s].oid = history[r][s].oid

(* As long as histories only grow, a client that does not move goes on     *)
(* remembering rightly what it has read.                                   *)
LEMMA MemoryStable ==
  ASSUME TypeOK, Grows, NEW x \in Clients, ClientOK(req[x]), req'[x] = req[x]
  PROVE  ClientOK(req[x])'
<1>. DEFINE q == req[x]  h == q.head
<1>1. q \in Request /\ h.seq \in Nat
  BY DEF TypeOK, Request
<1>2. CASE q.pc \in {"idle", "done"}
  BY <1>2 DEF ClientOK
<1>3. CASE q.pc \notin {"idle", "done"}
  <2>1. q.rec \in Records /\ SeenHead(q)
    BY <1>3 DEF ClientOK
  <2>2. heads[q.rec].seq \in Nat /\ heads'[q.rec].seq \in Nat
        /\ heads[q.rec].seq <= heads'[q.rec].seq
    BY <2>1 DEF Grows, TypeOK, StoreTypeOK
  <2>3. SeenHead(q)'
    <3>1. CASE h = NoHead
      BY <3>1 DEF SeenHead
    <3>2. CASE h # NoHead
      <4>1. h.seq \in 1 .. heads[q.rec].seq /\ history[q.rec][h.seq].oid = h.oid
        BY <2>1, <3>2 DEF SeenHead
      <4>2. h.seq \in 1 .. heads'[q.rec].seq
        BY <1>1, <2>2, <4>1
      <4>3. history'[q.rec][h.seq].oid = h.oid
        BY <2>1, <4>1 DEF Grows
      <4>. QED
        BY <4>2, <4>3 DEF SeenHead
    <3>. QED
      BY <3>1, <3>2
  <2>4. /\ q.rec \in Records /\ q.op \in OpNames
        /\ q.pc = "resolve" => q.op = "restore"
        /\ Writes(q.op) /\ q.pc # "resolve" => q.doc \in Doc
        /\ HasRead(q) => q.live \in Doc /\ (~Writes(q.op) => q.doc = q.live)
        /\ q.pc \in {"entry", "apply"} =>
             /\ q.op \in {"commit", "adopt"} => HashDoc(q.doc) # q.head.oid
             /\ Writes(q.op) /\ Exists(q.head) => HashDoc(q.live) = q.head.oid
        /\ q.pc = "apply" => q.from \in 0 .. MaxClock
    BY <1>3 DEF ClientOK
  <2>. QED
    BY <2>3, <2>4 DEF ClientOK, HasRead
<1>. QED
  BY <1>2, <1>3

(* A step that changes one request, to one that remembers rightly, and     *)
(* nothing else.                                                           *)
LEMMA RequestStep ==
  ASSUME IInv, UNCHANGED storeVars, NEW c \in Clients, NEW q \in Request, ClientOK(q),
         req' = [req EXCEPT ![c] = q]
  PROVE  IInv'
<1>1. TypeOK'
  BY DEF IInv, TypeOK, StoreTypeOK, storeVars
<1>2. StoreInv'
  BY DEF IInv, StoreInv, storeVars, HeadIsLastRow, ParentChain, IntervalsAbut,
         NoEmptyVersion, NoSecretInHistory
<1>3. Grows
  BY DEF IInv, TypeOK, StoreTypeOK, Grows, storeVars
<1>4. ASSUME NEW x \in Clients PROVE ClientOK(req[x])'
  <2>1. CASE x = c
    <3>1. req'[x] = q
      BY <2>1 DEF IInv, TypeOK
    <3>. QED
      BY <3>1 DEF ClientOK, SeenHead, HasRead, storeVars
  <2>2. CASE x # c
    <3>1. req'[x] = req[x]
      BY <2>2 DEF IInv, TypeOK
    <3>. QED
      BY <1>3, <3>1, MemoryStable DEF IInv, ClientsOK
  <2>. QED
    BY <2>1, <2>2
<1>5. ClientsOK'
  BY <1>4 DEF ClientsOK
<1>. QED
  BY <1>1, <1>2, <1>5 DEF IInv

(* In particular the end of an operation.                                  *)
LEMMA FinishStep ==
  ASSUME IInv, UNCHANGED storeVars, NEW c \in Clients, NEW result \in Results,
         Finish(c, result)
  PROVE  IInv'
<1>. DEFINE q == [Idle EXCEPT !.pc = "done", !.op = req[c].op, !.ref = req[c].ref,
                              !.result = result]
<1>1. req[c] \in Request
  BY DEF IInv, TypeOK
<1>2. q \in Request /\ q.pc = "done"
  BY <1>1 DEF Request, Idle, NoHead, Phases
<1>3. ClientOK(q)
  BY <1>2 DEF ClientOK
<1>. QED
  BY <1>2, <1>3, RequestStep DEF Finish

(* Calling an operation.                                                   *)
LEMMA CallStep ==
  ASSUME IInv, NEW c \in Clients, Call(c)
  PROVE  IInv'
<1>1. ASSUME NEW r \in Records, NEW q0 \in Request, Start(c, r, q0),
             q0.pc = IF q0.op = "import" THEN "read_head"
                     ELSE IF q0.op = "restore" THEN "resolve" ELSE "read_live",
             q0.op \in OpNames \ {"merge"}, q0.head = NoHead,
             q0.op = "commit" => q0.doc \in Doc
      PROVE  IInv'
  <2>. DEFINE q == [q0 EXCEPT !.rec = r]
  <2>1. /\ q \in Request /\ q.rec = r /\ q.pc = q0.pc /\ q.op = q0.op /\ q.head = q0.head
        /\ q.doc = q0.doc
    BY <1>1 DEF Request
  <2>2. ClientOK(q)
    BY <1>1, <2>1 DEF ClientOK, HasRead, SeenHead, Writes, OpNames, Exists, NoHead
  <2>. QED
    BY <1>1, <2>1, <2>2, RequestStep DEF Start
<1>2. PICK r \in Records :
        \/ StartImport(c, r)
        \/ StartAdopt(c, r)
        \/ \E d \in Doc : StartCommit(c, r, d)
        \/ \E k \in RefKinds : StartRestore(c, r, k)
  BY DEF Call
<1>3. CASE StartImport(c, r)
  BY <1>1, <1>3 DEF StartImport, Idle, NoHead, Request, OpNames, Phases
<1>4. CASE StartAdopt(c, r)
  BY <1>1, <1>4 DEF StartAdopt, Idle, NoHead, Request, OpNames, Phases
<1>5. ASSUME NEW d \in Doc, StartCommit(c, r, d) PROVE IInv'
  BY <1>1, <1>5 DEF StartCommit, Idle, NoHead, Request, OpNames, Phases
<1>6. ASSUME NEW k \in RefKinds, StartRestore(c, r, k) PROVE IInv'
  BY <1>1, <1>6 DEF StartRestore, Idle, NoHead, Request, OpNames, Phases
<1>. QED
  BY <1>2, <1>3, <1>4, <1>5, <1>6

(* resolve_ref finds a document.                                           *)
LEMMA ResolveStep ==
  ASSUME IInv, NEW c \in Clients, ResolveRef(c)
  PROVE  IInv'
<1>. DEFINE q0 == req[c]  r == q0.rec
<1>1. q0 \in Request /\ ClientOK(q0) /\ q0.pc = "resolve" /\ r \in Records /\ q0.op = "restore"
  BY DEF IInv, TypeOK, ClientsOK, ResolveRef, ClientOK
<1>2. UNCHANGED storeVars
  BY DEF ResolveRef
<1>3. ASSUME NEW d \in Resolved(c), req' = [req EXCEPT ![c].pc = "read_live", ![c].doc = d]
      PROVE  IInv'
  <2>1. d \in Doc
    <3>1. \A s \in DOMAIN history[r] : history[r][s].doc \in Doc
      BY <1>1 DEF IInv, TypeOK, StoreTypeOK, Row
    <3>2. Exists(GetHead(r)) => GetHead(r).seq \in DOMAIN history[r]
      BY DEF Exists, GetHead, NoHead
    <3>3. live[r] \in Doc \cup {None}
      BY <1>1 DEF IInv, TypeOK, StoreTypeOK
    <3>. QED
      BY <1>3, <3>1, <3>2, <3>3 DEF Resolved
  <2>. DEFINE q == [q0 EXCEPT !.pc = "read_live", !.doc = d]
  <2>2. q \in Request
    BY <1>1, <2>1 DEF Request, Phases
  <2>3. ClientOK(q)
    BY <1>1, <2>1, <2>2 DEF ClientOK, HasRead, SeenHead, Request
  <2>4. req' = [req EXCEPT ![c] = q]
    BY <1>1, <1>3 DEF IInv, TypeOK
  <2>. QED
    BY <1>2, <2>2, <2>3, <2>4, RequestStep
<1>4. ASSUME Finish(c, "not_found") PROVE IInv'
  BY <1>2, <1>4, FinishStep DEF Results
<1>. QED
  BY <1>3, <1>4 DEF ResolveRef

(* get_record.                                                             *)
LEMMA ReadLiveStep ==
  ASSUME IInv, NEW c \in Clients, ReadLive(c)
  PROVE  IInv'
<1>. DEFINE q0 == req[c]  doc == live[q0.rec]
<1>1. q0 \in Request /\ ClientOK(q0) /\ q0.pc = "read_live" /\ q0.rec \in Records
  BY DEF IInv, TypeOK, ClientsOK, ReadLive, ClientOK
<1>2. UNCHANGED storeVars
  BY DEF ReadLive
<1>3. CASE doc = None
  <2>1. Finish(c, IF q0.op = "import" THEN "missing" ELSE "not_found")
    BY <1>3 DEF ReadLive
  <2>. QED
    BY <1>2, <2>1, FinishStep DEF Results
<1>4. CASE doc # None
  <2>. DEFINE q == [q0 EXCEPT !.pc = IF q0.op = "import" THEN "entry" ELSE "read_head",
                              !.live = doc, !.doc = IF Writes(q0.op) THEN q0.doc ELSE doc]
  <2>1. doc \in Doc
    BY <1>1, <1>4 DEF IInv, TypeOK, StoreTypeOK
  <2>2. q \in Request
    <3>. DEFINE pc == IF q0.op = "import" THEN "entry" ELSE "read_head"
                kept == IF Writes(q0.op) THEN q0.doc ELSE doc
    <3>1. pc \in Phases
      BY DEF Phases
    <3>2. q0.doc \in Doc \cup {None}
      BY <1>1 DEF Request
    <3>3. kept \in Doc \cup {None}
      BY <2>1, <3>2
    <3>. HIDE DEF doc, q0, pc, kept
    <3>4. [q0 EXCEPT !.pc = pc, !.live = doc, !.doc = kept] \in Request
      BY <1>1, <2>1, <3>1, <3>3 DEF Request
    <3>. QED
      BY <3>4 DEF pc, kept
  <2>3. ClientOK(q)
    <3>. HIDE DEF doc, q0
    <3>. QED
      BY <1>1, <2>1, <2>2 DEF ClientOK, HasRead, SeenHead, Request, Writes
  <2>4. req' = [req EXCEPT ![c] = q]
    BY <1>4 DEF ReadLive
  <2>. QED
    BY <1>2, <2>2, <2>3, <2>4, RequestStep
<1>. QED
  BY <1>3, <1>4

(* get_head, and a verdict that lets the operation go on.                  *)
LEMMA ReadHeadStep ==
  ASSUME IInv, NEW c \in Clients, ReadHead(c)
  PROVE  IInv'
<1>. DEFINE q0 == req[c]  head == GetHead(q0.rec)
<1>1. q0 \in Request /\ ClientOK(q0) /\ q0.pc = "read_head" /\ q0.rec \in Records
  BY DEF IInv, TypeOK, ClientsOK, ReadHead, ClientOK
<1>2. UNCHANGED storeVars
  BY DEF ReadHead
<1>3. ASSUME NEW v, v = Verdict(q0, head), v # None, Finish(c, v) PROVE IInv'
  <2>1. v \in Results
    BY <1>3 DEF Verdict, Results
  <2>. QED
    BY <1>2, <1>3, <2>1, FinishStep
<1>4. ASSUME NEW h, h = head, Verdict(q0, h) = None,
             NEW pc, pc = IF q0.op = "import" THEN "read_live" ELSE "entry",
             req' = [req EXCEPT ![c] = [q0 EXCEPT !.pc = pc, !.head = h]]
      PROVE  IInv'
  <2>. DEFINE q == [q0 EXCEPT !.pc = pc, !.head = h]
  <2>1. h = heads[q0.rec] /\ h \in [oid : Bodies \cup {None}, seq : Nat]
    BY <1>1, <1>4, GetHeadIsPointer DEF IInv, TypeOK, StoreTypeOK, StoreInv
  <2>2. h = NoHead \/ (h.seq \in 1 .. heads[q0.rec].seq /\ history[q0.rec][h.seq].oid = h.oid)
    BY <1>1, <2>1 DEF IInv, StoreInv, HeadIsLastRow, NoHead
  <2>3. q \in Request
    <3>1. pc \in Phases
      BY <1>4 DEF Phases
    <3>. QED
      BY <1>1, <2>1, <3>1 DEF Request
  <2>4. /\ q.pc = pc /\ q.head = h /\ q.rec = q0.rec /\ q.op = q0.op /\ q.doc = q0.doc
        /\ q.live = q0.live
    BY <1>1 DEF Request
  <2>5. /\ q0.op \in OpNames \ {"merge"}
        /\ Writes(q0.op) => q0.doc \in Doc
        /\ q0.op # "import" => q0.live \in Doc /\ (~Writes(q0.op) => q0.doc = q0.live)
    BY <1>1 DEF ClientOK, HasRead
  <2>6. q0.op # "import" =>
          /\ q0.op \in {"commit", "adopt"} => HashDoc(q0.doc) # h.oid
          /\ Writes(q0.op) /\ Exists(h) => HashDoc(q0.live) = h.oid
    <3>1. ASSUME q0.op = "adopt" PROVE HashDoc(q0.doc) # h.oid
      <4>1. q0.doc = q0.live /\ q0.live \in Doc
        BY <2>5, <3>1 DEF Writes
      <4>2. CASE Exists(h)
        BY <1>4, <3>1, <4>1, <4>2, ResultAssumption DEF Verdict, Writes, Results
      <4>3. CASE ~Exists(h)
        BY <2>1, <2>2, <4>1, <4>3, StoredIsDoc DEF Exists, NoHead
      <4>. QED
        BY <4>2, <4>3
    <3>2. ASSUME Writes(q0.op), Exists(h) PROVE HashDoc(q0.live) = h.oid
      BY <1>4, <3>2, ResultAssumption DEF Verdict, Writes, Results
    <3>3. ASSUME q0.op = "commit" PROVE HashDoc(q0.doc) # h.oid
      <4>1. q0.doc \in Doc
        BY <2>5, <3>3 DEF Writes
      <4>2. CASE Exists(h)
        BY <1>4, <3>2, <3>3, <4>2, ResultAssumption DEF Verdict, Writes, Results
      <4>3. CASE ~Exists(h)
        BY <2>1, <2>2, <4>1, <4>3, StoredIsDoc DEF Exists, NoHead
      <4>. QED
        BY <4>2, <4>3
    <3>. QED
      BY <3>1, <3>2, <3>3
  <2>7. q0.op = "import" => ~Exists(h)
    BY <1>4, ResultAssumption DEF Verdict, Writes, Results
  <2>8. ClientOK(q)
    BY <1>1, <1>4, <2>2, <2>4, <2>5, <2>6, <2>7 DEF ClientOK, HasRead, SeenHead, Writes
  <2>. QED
    BY <1>2, <1>4, <2>3, <2>8, RequestStep
<1>. QED
  BY <1>3, <1>4 DEF ReadHead

(* The entry is stamped with whatever the clock says.                      *)
LEMMA MakeEntryStep ==
  ASSUME IInv, NEW c \in Clients, MakeEntry(c)
  PROVE  IInv'
<1>. DEFINE q0 == req[c]
<1>1. q0 \in Request /\ ClientOK(q0) /\ q0.pc = "entry" /\ q0.rec \in Records
      /\ clock \in 0 .. MaxClock /\ clock \in Nat
  BY ClockAssumption DEF IInv, TypeOK, StoreTypeOK, ClientsOK, MakeEntry, ClientOK
<1>2. UNCHANGED storeVars
  BY DEF MakeEntry
<1>3. ASSUME Finish(c, "secret_blocked") PROVE IInv'
  BY <1>2, <1>3, FinishStep DEF Results
<1>4. ASSUME req' = [req EXCEPT ![c].pc = "apply", ![c].from = clock] PROVE IInv'
  <2>. DEFINE q == [q0 EXCEPT !.pc = "apply", !.from = clock]
  <2>1. /\ q \in Request /\ q.pc = "apply" /\ q.from = clock /\ q.rec = q0.rec /\ q.op = q0.op
        /\ q.doc = q0.doc /\ q.live = q0.live /\ q.head = q0.head
    BY <1>1 DEF Request, Phases
  <2>2. ClientOK(q)
    <3>1. HasRead(q0) /\ HasRead(q) /\ (SeenHead(q0) => SeenHead(q))
      BY <1>1, <2>1 DEF HasRead, SeenHead
    <3>. HIDE DEF q, q0
    <3>. QED
      BY <1>1, <2>1, <3>1 DEF ClientOK
  <2>3. req' = [req EXCEPT ![c] = q]
    BY <1>1, <1>4 DEF IInv, TypeOK
  <2>. QED
    BY <1>2, <2>1, <2>2, <2>3, RequestStep
<1>. QED
  BY <1>3, <1>4 DEF MakeEntry

(* The transaction fails and is tried again, or not.                       *)
LEMMA AbortStep ==
  ASSUME IInv, NEW c \in Clients, Abort(c)
  PROVE  IInv'
<1>. DEFINE q0 == req[c]
<1>1. q0 \in Request /\ ClientOK(q0)
  BY DEF IInv, TypeOK, ClientsOK
<1>2. UNCHANGED storeVars
  BY DEF Abort
<1>3. ASSUME Finish(c, "failed") PROVE IInv'
  BY <1>2, <1>3, FinishStep DEF Results
<1>4. ASSUME req' = [req EXCEPT ![c].tries = @ + 1] PROVE IInv'
  <2>. DEFINE q == [q0 EXCEPT !.tries = @ + 1]
  <2>1. /\ q \in Request /\ q.pc = q0.pc /\ q.from = q0.from /\ q.rec = q0.rec /\ q.op = q0.op
        /\ q.doc = q0.doc /\ q.live = q0.live /\ q.head = q0.head
    BY <1>1 DEF Request
  <2>2. ClientOK(q)
    BY <1>1, <2>1 DEF ClientOK, HasRead, SeenHead
  <2>3. req' = [req EXCEPT ![c] = q]
    BY <1>1, <1>4 DEF IInv, TypeOK
  <2>. QED
    BY <1>2, <2>1, <2>2, <2>3, RequestStep
<1>. QED
  BY <1>3, <1>4 DEF Abort

(* A client that dies remembers nothing.                                   *)
LEMMA CrashStep ==
  ASSUME IInv, NEW c \in Clients, Crash(c)
  PROVE  IInv'
<1>1. Idle \in Request /\ ClientOK(Idle)
  BY DEF Idle, Request, NoHead, Phases, ClientOK
<1>. QED
  BY <1>1, RequestStep DEF Crash

-----------------------------------------------------------------------------
(***************************************************************************)
(* The steps that change the store.                                        *)
(***************************************************************************)
LEMMA ApplyEntryStep ==
  ASSUME IInv, NEW c \in Clients, ApplyEntry(c)
  PROVE  IInv'
<1>. DEFINE q0 == req[c]  item == Item(q0)  r0 == q0.rec
<1>1. /\ TypeOK /\ StoreInv /\ StoreTypeOK /\ HeadIsLastRow /\ IntervalsAbut
      /\ q0 \in Request /\ ClientOK(q0) /\ q0.pc = "apply"
  BY DEF IInv, TypeOK, StoreInv, ClientsOK, ApplyEntry
<1>2. ASSUME UNCHANGED storeVars, Finish(c, Refusal(r0, item)) PROVE IInv'
  <2>1. Refusal(r0, item) \in Results
    BY DEF Refusal, Results
  <2>. QED
    BY <1>2, <2>1, FinishStep
<1>3. ASSUME Apply(r0, item), Finish(c, "applied") PROVE IInv'
  <2>1. StoreTypeOK' /\ StoreInv'
    BY <1>1, <1>3, ApplyTypeOK, ApplyStoreInv
  <2>. DEFINE d == [Idle EXCEPT !.pc = "done", !.op = req[c].op, !.ref = req[c].ref,
                                !.result = "applied"]
  <2>2. d \in Request /\ d.pc = "done"
    <3>1. Idle \in Request
      BY DEF Idle, Request, NoHead, Phases
    <3>2. /\ req[c].op \in OpNames \cup {None} /\ req[c].ref \in RefKinds \cup {None}
          /\ "done" \in Phases /\ "applied" \in Results
      BY <1>1 DEF Request, Phases, Results
    <3>. QED
      BY <3>1, <3>2 DEF Request
  <2>3. req' = [req EXCEPT ![c] = d]
    BY <1>3 DEF Finish
  <2>4. TypeOK'
    BY <1>1, <2>1, <2>2, <2>3 DEF TypeOK
  <2>5. Grows
    <3>1. PICK r, e, n : r = r0 /\ e = item.entry /\ n = heads[r].seq
      OBVIOUS
    <3>2. r \in Records /\ n \in Nat /\ Gains(r, n, e)
      BY <1>1, <1>3, <3>1, ApplyGains
    <3>3. ASSUME NEW x \in Records
          PROVE  /\ heads'[x].seq \in Nat /\ heads[x].seq <= heads'[x].seq
                 /\ \A s \in 1 .. heads[x].seq : history'[x][s].oid = history[x][s].oid
      <4>1. CASE x = r
        BY <3>2, <4>1 DEF Gains, OldRow
      <4>2. CASE x # r
        <5>1. heads[x].seq \in Nat /\ heads'[x] = heads[x] /\ history'[x] = history[x]
          BY <1>1, <3>2, <4>2 DEF Gains, StoreTypeOK
        <5>. QED
          BY <5>1
      <4>. QED
        BY <4>1, <4>2
    <3>. QED
      BY <3>3 DEF Grows
  <2>6. ASSUME NEW x \in Clients PROVE ClientOK(req[x])'
    <3>1. CASE x = c
      BY <1>1, <2>2, <2>3, <3>1 DEF ClientOK, TypeOK
    <3>2. CASE x # c
      <4>1. req'[x] = req[x]
        BY <1>1, <2>3, <3>2 DEF TypeOK
      <4>. QED
        BY <1>1, <2>5, <4>1, MemoryStable DEF IInv, ClientsOK
    <3>. QED
      BY <3>1, <3>2
  <2>. QED
    BY <2>1, <2>4, <2>6 DEF IInv, ClientsOK
<1>. QED
  BY <1>2, <1>3 DEF ApplyEntry

(* Neither the application nor the clock touches a history.                *)
LEMMA EnvironmentStep ==
  ASSUME IInv, Environment
  PROVE  IInv'
<1>1. UNCHANGED <<heads, history, req>>
  BY DEF Environment, RawWrite, Tick
<1>2. /\ live \in [Records -> Doc \cup {None}] /\ clock \in 0 .. MaxClock
      /\ heads \in [Records -> [oid : Bodies \cup {None}, seq : Nat]]
  BY DEF IInv, TypeOK, StoreTypeOK
<1>3. TypeOK'
  <2>1. live' \in [Records -> Doc \cup {None}]
    BY <1>2 DEF Environment, RawWrite, Tick
  <2>2. clock' \in 0 .. MaxClock
    BY <1>2, ClockAssumption DEF Environment, RawWrite, Tick
  <2>. QED
    BY <1>1, <2>1, <2>2 DEF IInv, TypeOK, StoreTypeOK
<1>4. StoreInv'
  BY <1>1 DEF IInv, StoreInv, HeadIsLastRow, ParentChain, IntervalsAbut, NoEmptyVersion,
              NoSecretInHistory
<1>5. Grows
  <2>1. \A r \in Records : heads[r].seq \in Nat /\ heads'[r] = heads[r] /\ history'[r] = history[r]
    BY <1>1, <1>2
  <2>. QED
    BY <2>1 DEF Grows
<1>6. ClientsOK'
  <2>. SUFFICES ASSUME NEW x \in Clients PROVE ClientOK(req[x])'
    BY DEF ClientsOK
  <2>. QED
    BY <1>1, <1>5, MemoryStable DEF IInv, ClientsOK
<1>. QED
  BY <1>3, <1>4, <1>6 DEF IInv

-----------------------------------------------------------------------------
(* The invariant is inductive.                                             *)
LEMMA InitIInv == Init => IInv
<1>. SUFFICES ASSUME Init PROVE IInv
  OBVIOUS
<1>1. /\ \A r \in Records : heads[r] = NoHead /\ DOMAIN history[r] = {}
      /\ \A c \in Clients : req[c] = Idle
  BY DEF Init, StoreInit
<1>2. TypeOK
  BY ClockAssumption DEF Init, StoreInit, TypeOK, StoreTypeOK, Idle, Request, NoHead, Phases
<1>3. StoreInv
  <2>1. HeadIsLastRow
    <3>. SUFFICES ASSUME NEW r \in Records
                  PROVE  DOMAIN history[r] = 1 .. heads[r].seq /\ heads[r].seq = 0
                         /\ heads[r].oid = None
      BY DEF HeadIsLastRow
    <3>1. heads[r].seq = 0 /\ heads[r].oid = None
      BY <1>1 DEF NoHead
    <3>2. 1 .. 0 = {}
      OBVIOUS
    <3>. QED
      BY <1>1, <3>1, <3>2
  <2>. QED
    BY <1>1, <2>1 DEF StoreInv, ParentChain, IntervalsAbut, NoEmptyVersion,
                      NoSecretInHistory
<1>4. ClientsOK
  BY <1>1 DEF ClientsOK, ClientOK, Idle
<1>. QED
  BY <1>2, <1>3, <1>4 DEF IInv

(* Every step of a client or of the environment keeps it.                  *)
LEMMA NextIInv == IInv /\ [Next]_vars => IInv'
<1>. SUFFICES ASSUME IInv, [Next]_vars PROVE IInv'
  OBVIOUS
<1>1. ASSUME NEW c \in Clients, Call(c) \/ Work(c) \/ Crash(c) PROVE IInv'
  <2>1. CASE Call(c)
    BY <2>1, CallStep
  <2>2. CASE ResolveRef(c)
    BY <2>2, ResolveStep
  <2>3. CASE ReadLive(c)
    BY <2>3, ReadLiveStep
  <2>4. CASE ReadHead(c)
    BY <2>4, ReadHeadStep
  <2>5. CASE MakeEntry(c)
    BY <2>5, MakeEntryStep
  <2>6. CASE ApplyEntry(c)
    BY <2>6, ApplyEntryStep
  <2>7. CASE Abort(c)
    BY <2>7, AbortStep
  <2>8. CASE Crash(c)
    BY <2>8, CrashStep
  <2>. QED
    BY <1>1, <2>1, <2>2, <2>3, <2>4, <2>5, <2>6, <2>7, <2>8 DEF Work
<1>2. CASE Environment
  BY <1>2, EnvironmentStep
<1>3. CASE UNCHANGED vars
  BY <1>3 DEF vars, IInv, TypeOK, StoreTypeOK, StoreInv, ClientsOK, ClientOK, SeenHead, HasRead,
         HeadIsLastRow, ParentChain, IntervalsAbut, NoEmptyVersion,
         NoSecretInHistory
<1>. QED
  BY <1>1, <1>2, <1>3 DEF Next, ClientStep

(* So it holds in every reachable state of the engine: the stored data is  *)
(* consistent, and what each operation remembers of its unprotected reads is *)
(* enough to make its transaction right.                                   *)
THEOREM Invariance == Spec => []IInv
BY InitIInv, NextIInv, PTL DEF Spec

-----------------------------------------------------------------------------
(***************************************************************************)
(* What follows from the invariant.                                        *)
(***************************************************************************)

(* Every value keeps its type.                                             *)
THEOREM TypeCorrect == Spec => []TypeOK
BY Invariance, PTL DEF IInv

(* The stored data of the adapters is consistent in every reachable state, *)
(* with any number of clients racing, crashing and retrying.  The rows are *)
(* numbered without a gap and HEAD is the last one (the seq and HEAD       *)
(* writes of _apply_item).                                                 *)
THEOREM HeadConsistent == Spec => []HeadIsLastRow
BY Invariance, PTL DEF IInv, StoreInv

(* A row's parent_oid, which the engine computed before the transaction,   *)
(* is the oid of the row before it.                                        *)
THEOREM ParentsChained == Spec => []ParentChain
BY Invariance, PTL DEF IInv, StoreInv

(* A row's valid time ends where the next one's begins (the valid_to write *)
(* of _apply_item).                                                        *)
THEOREM TimesAbut == Spec => []IntervalsAbut
BY Invariance, PTL DEF IInv, StoreInv

(* A commit or an adopt never records what was already HEAD, although it   *)
(* decides so before its transaction.                                      *)
THEOREM NoEmptyVersions == Spec => []NoEmptyVersion
BY Invariance, PTL DEF IInv, StoreInv

(* secret_fields never reach the history.                                  *)
THEOREM SecretsStayOut == Spec => []NoSecretInHistory
BY Invariance, PTL DEF IInv, StoreInv

(* A set of numbers below a bound has a largest one.                       *)
LEMMA LargestExists ==
  ASSUME NEW S \in SUBSET Nat, S # {}, NEW n \in Nat, \A x \in S : x <= n
  PROVE  \E m \in S : \A x \in S : x <= m
<1>. DEFINE D == {n - x : x \in S}
<1>1. \A x \in S : n - x \in Nat
  OBVIOUS
<1>2. D \subseteq Nat /\ D # {}
  BY <1>1
<1>3. PICK d \in D : \A e \in D : ~ (<<e, d>> \in OpToRel(<, Nat))
  BY <1>2, NatLessThanWellFounded, WFMin
<1>4. \A e \in D : ~ (e < d)
  BY <1>2, <1>3 DEF OpToRel
<1>5. PICK m \in S : d = n - m
  OBVIOUS
<1>6. ASSUME NEW x \in S PROVE x <= m
  <2>1. ~ (n - x < n - m)
    BY <1>4, <1>5
  <2>. QED
    BY <2>1
<1>. QED
  BY <1>6

(* Rows that abut leave no instant out: of the rows that have begun by it, *)
(* the last in the list has not ended, however the times of the others lie. *)
LEMMA AbutCovers ==
  ASSUME StoreTypeOK, HeadIsLastRow, IntervalsAbut, NEW r \in Records, NEW t \in Nat,
         NEW k \in DOMAIN history[r], history[r][k].from <= t
  PROVE  RowsAt(r, t) # {}
<1>. DEFINE n == heads[r].seq  S == {s \in 1 .. n : history[r][s].from <= t}
<1>1. n \in Nat /\ DOMAIN history[r] = 1 .. n
  BY DEF StoreTypeOK, HeadIsLastRow
<1>2. k \in S /\ S \in SUBSET Nat /\ \A s \in S : s <= n
  BY <1>1
<1>3. PICK m \in S : \A s \in S : s <= m
  <2>. HIDE DEF S, n
  <2>. QED
    BY <1>1, <1>2, LargestExists
<1>4. m \in 1 .. n /\ history[r][m].from <= t /\ m + 1 \notin S
  BY <1>3
<1>5. CASE m = n
  BY <1>1, <1>4, <1>5 DEF IntervalsAbut, RowsAt
<1>6. CASE m # n
  <2>1. m + 1 \in 1 .. n /\ history[r][m].to = history[r][m + 1].from
    BY <1>1, <1>4, <1>6 DEF IntervalsAbut
  <2>2. history[r][m + 1].from \in Nat /\ ~(history[r][m + 1].from <= t)
    BY <1>1, <1>4, <2>1 DEF StoreTypeOK, Row
  <2>. QED
    BY <1>1, <1>4, <2>1, <2>2 DEF RowsAt
<1>. QED
  BY <1>5, <1>6

(* The as-of query finds a version of a record at every instant from the   *)
(* first its rows name, however the clocks of those who wrote them         *)
(* disagreed: a system restore to a date never drops the record.           *)
THEOREM NoInstantIsLost == Spec => []SomeRowAtEveryInstant
<1>1. IInv => SomeRowAtEveryInstant
  <2>. SUFFICES ASSUME IInv, NEW r \in Records, NEW t \in 0 .. MaxClock,
                       NEW k \in DOMAIN history[r], history[r][k].from <= t
                PROVE  RowsAt(r, t) # {}
    BY DEF SomeRowAtEveryInstant
  <2>1. t \in Nat /\ StoreTypeOK /\ HeadIsLastRow /\ IntervalsAbut
    BY ClockAssumption DEF IInv, TypeOK, StoreInv
  <2>. QED
    BY <2>1, AbutCovers
<1>. QED
  BY Invariance, <1>1, PTL

-----------------------------------------------------------------------------
(***************************************************************************)
(* What a step may do.                                                     *)
(***************************************************************************)

(* Only a transaction writes a version, and this is how.                   *)
LEMMA VersionedByApply ==
  ASSUME IInv, Next, NEW r \in Records, Versioned(r)
  PROVE  \E c \in Clients :
           /\ req[c].pc = "apply" /\ ClientOK(req[c])
           /\ r = req[c].rec /\ Apply(r, Item(req[c]))
<1>1. CASE Environment
  BY <1>1 DEF Environment, RawWrite, Tick, Versioned
<1>2. ASSUME NEW c \in Clients, Call(c) \/ Work(c) \/ Crash(c)
      PROVE  ApplyEntry(c) /\ ~UNCHANGED storeVars
  <2>1. ~UNCHANGED storeVars
    BY DEF Versioned, storeVars
  <2>. QED
    BY <1>2, <2>1 DEF Call, Work, Crash, Start, StartImport, StartAdopt, StartCommit, StartRestore,
         ResolveRef, ReadLive, ReadHead, MakeEntry, Abort
<1>3. ASSUME NEW c \in Clients, ApplyEntry(c), ~UNCHANGED storeVars
      PROVE  /\ req[c].pc = "apply" /\ ClientOK(req[c])
             /\ r = req[c].rec /\ Apply(r, Item(req[c]))
  <2>1. req[c].pc = "apply" /\ ClientOK(req[c]) /\ Apply(req[c].rec, Item(req[c]))
    BY <1>3 DEF ApplyEntry, IInv, ClientsOK
  <2>2. r = req[c].rec
    BY <2>1 DEF Apply, Versioned, IInv, TypeOK, StoreTypeOK
  <2>. QED
    BY <2>1, <2>2
<1>. QED
  BY <1>1, <1>2, <1>3 DEF Next, ClientStep

(* A transaction that writes a record with history finds live the content  *)
(* of HEAD: HEAD is what the client read, the live content hashes to what  *)
(* it read, and its verdict compared the two.                              *)
LEMMA WriteOverHead ==
  ASSUME IInv, NEW c \in Clients, ClientOK(req[c]), req[c].pc = "apply", Writes(req[c].op),
         NEW r, r = req[c].rec, Apply(r, Item(req[c])), Exists(GetHead(r))
  PROVE  live[r] # None /\ HashDoc(live[r]) = GetHead(r).oid
<1>. DEFINE q == req[c]  item == Item(q)
<1>1. r \in Records /\ q.doc \in Doc /\ q.live \in Doc
  BY DEF ClientOK, HasRead
<1>2. q.doc # None /\ HashDoc(q.live) # None
  BY <1>1, StoredIsDoc
<1>3. GetHead(r) = heads[r]
  BY <1>1, GetHeadIsPointer DEF IInv, TypeOK, StoreInv
<1>4. /\ heads[r].oid = q.head.oid
      /\ live[r] # None /\ HashDoc(live[r]) = HashDoc(q.live)
  BY <1>1, <1>2 DEF Apply, CanApply, HeadFresh, LiveFresh, Writable, Item
<1>5. heads[r].oid # None
  <2>1. heads[r].seq \in DOMAIN history[r] /\ heads[r].oid = history[r][heads[r].seq].oid
    BY <1>1, <1>3 DEF Exists, IInv, TypeOK, StoreTypeOK, StoreInv, HeadIsLastRow
  <2>. QED
    BY <1>1, <2>1, NoneAssumption DEF IInv, TypeOK, StoreTypeOK, Row
<1>6. Exists(q.head)
  BY <1>1, <1>4, <1>5 DEF ClientOK, SeenHead, Exists, NoHead, IInv, TypeOK, StoreTypeOK
<1>. QED
  BY <1>3, <1>4, <1>6 DEF ClientOK

(* cfgit never overwrites a live content of a record with history other    *)
(* than the one HEAD recorded.                                             *)
THEOREM NoClobber == Spec => NeverClobbersDrift
<1>1. ASSUME IInv, [Next]_vars, NEW r \in Records, Overwritten(r), Exists(GetHead(r))
      PROVE  Clean(r)
  <2>1. Next
    BY <1>1 DEF Overwritten, Versioned, vars
  <2>2. PICK c \in Clients :
          /\ req[c].pc = "apply" /\ ClientOK(req[c])
          /\ r = req[c].rec /\ Apply(r, Item(req[c]))
    BY <1>1, <2>1, VersionedByApply DEF Overwritten
  <2>3. Writes(req[c].op)
    BY <1>1, <2>2 DEF Apply, LiveAfter, Item, Overwritten, IInv, TypeOK, StoreTypeOK
  <2>. QED
    BY <1>1, <2>2, <2>3, WriteOverHead DEF Clean
<1>2. IInv /\ [Next]_vars =>
        [\A r \in Records : Overwritten(r) /\ Exists(GetHead(r)) => Clean(r)]_vars
  BY <1>1
<1>. QED
  BY Invariance, <1>2, PTL DEF Spec, NeverClobbersDrift

(* Rows are never removed, renumbered or rewritten: valid_to is set once.  *)
THEOREM HistoryOnlyGrows == Spec => HistoryAppendOnly
<1>1. ASSUME IInv, [Next]_vars, NEW r \in Records, NEW s \in DOMAIN history[r]
      PROVE  /\ s \in DOMAIN history'[r]
             /\ CloseRow(history[r][s], history'[r][s].to) = history'[r][s]
  <2>. DEFINE row == history[r][s]
  <2>1. row \in Row
    BY <1>1 DEF IInv, TypeOK, StoreTypeOK
  <2>2. CloseRow(row, row.to) = row
    BY <2>1 DEF CloseRow, Row
  <2>3. CASE ~Versioned(r)
    BY <1>1, <2>2, <2>3 DEF Versioned
  <2>4. CASE Versioned(r)
    <3>1. Next
      BY <1>1, <2>4 DEF Versioned, vars
    <3>2. PICK c \in Clients :
            /\ req[c].pc = "apply" /\ ClientOK(req[c])
            /\ r = req[c].rec /\ Apply(r, Item(req[c]))
      BY <1>1, <2>4, <3>1, VersionedByApply
    <3>3. PICK e, n : e = Item(req[c]).entry /\ n = heads[r].seq
      OBVIOUS
    <3>4. n \in Nat /\ e \in Row /\ Gains(r, n, e)
      BY <1>1, <3>2, <3>3, ApplyGains DEF IInv
    <3>5. s \in 1 .. n /\ s \in DOMAIN history'[r] /\ OldRow(r, n, e, s)
      BY <1>1, <3>4 DEF Gains
    <3>6. history'[r][s] = IF s = n THEN CloseRow(row, e.from) ELSE row
      <4>1. StoreTypeOK /\ HeadIsLastRow
        BY <1>1 DEF IInv, TypeOK, StoreInv
      <4>2. \A x \in 1 .. heads[r].seq : history'[r][x] =
              IF x = heads[r].seq THEN CloseRow(history[r][x], Item(req[c]).entry.from)
              ELSE history[r][x]
        BY <3>2, <4>1, ApplyHistory
      <4>. QED
        BY <3>3, <3>5, <4>2
    <3>7. CASE s = n
      <4>1. history'[r][s].to = e.from
        BY <3>5, <3>7 DEF OldRow
      <4>. QED
        BY <3>5, <3>6, <3>7, <4>1
    <3>8. CASE s # n
      BY <2>2, <3>5, <3>6, <3>8
    <3>. QED
      BY <3>7, <3>8
  <2>. QED
    BY <2>3, <2>4
<1>2. IInv /\ [Next]_vars =>
        [\A r \in Records : \A s \in DOMAIN history[r] :
           /\ s \in DOMAIN history'[r]
           /\ CloseRow(history[r][s], history'[r][s].to) = history'[r][s]]_vars
  BY <1>1
<1>. QED
  BY Invariance, <1>2, PTL DEF Spec, HistoryAppendOnly

(* What a transaction leaves in the live record: nothing new, or the       *)
(* document of the request put over what was there.                        *)
LEMMA ApplyLive ==
  ASSUME TypeOK, NEW c \in Clients, ClientOK(req[c]), req[c].pc = "apply",
         NEW r, r = req[c].rec, Apply(r, Item(req[c]))
  PROVE  /\ r \in Records /\ \A x \in Records \ {r} : live'[x] = live[x]
         /\ Writes(req[c].op) => /\ live[r] \in Doc /\ req[c].doc \in Doc
                                 /\ live'[r] = PutRecord(live[r], req[c].doc)
         /\ ~Writes(req[c].op) => live'[r] = live[r]
<1>1. r \in Records /\ req[c].doc \in Doc
  BY DEF ClientOK, HasRead
<1>2. req[c].doc # None
  BY <1>1, StoredIsDoc
<1>. QED
  BY <1>1, <1>2 DEF Apply, CanApply, Writable, LiveAfter, Item, TypeOK, StoreTypeOK

(* What a write leaves live is the version HEAD now names, as the live      *)
(* record shows it: with the fields _runtime_doc forces into it.           *)
THEOREM WritesAreHead == Spec => WriteIsHead
<1>1. ASSUME IInv, IInv', [Next]_vars, NEW r \in Records, Overwritten(r)
      PROVE  HashDoc(live[r])' = RuntimeBody[GetHead(r).oid']
  <2>1. Next
    BY <1>1 DEF Overwritten, Versioned, vars
  <2>2. PICK c \in Clients :
          /\ req[c].pc = "apply" /\ ClientOK(req[c])
          /\ r = req[c].rec /\ Apply(r, Item(req[c]))
    BY <1>1, <2>1, VersionedByApply DEF Overwritten
  <2>3. PICK e, n : e = Item(req[c]).entry /\ n = heads[r].seq
    OBVIOUS
  <2>4. n \in Nat /\ Gains(r, n, e) /\ e.oid = HashDoc(req[c].doc)
    BY <1>1, <2>2, <2>3, ApplyGains, ItemShape DEF IInv
  <2>5. /\ live[r] \in Doc /\ req[c].doc \in Doc
        /\ live'[r] = PutRecord(live[r], req[c].doc)
    BY <1>1, <2>2, ApplyLive DEF Overwritten, IInv
  <2>6. HashDoc(live'[r]) = RuntimeBody[HashDoc(req[c].doc)]
    BY <2>5, PutIsDoc
  <2>7. GetHead(r)'.oid = e.oid
    BY <2>4 DEF GetHead, Gains
  <2>. QED
    BY <2>4, <2>6, <2>7 DEF HashDoc
<1>2. IInv /\ IInv' /\ [Next]_vars =>
        [\A r \in Records : Overwritten(r) =>
           HashDoc(live[r])' = RuntimeBody[GetHead(r).oid']]_vars
  BY <1>1
<1>. QED
  BY Invariance, <1>2, PTL DEF Spec, WriteIsHead

(* No operation removes a live record or one of its secrets.               *)
THEOREM SecretsStayLive == Spec => KeepsSecrets
<1>1. ASSUME IInv, [Next]_vars, NEW r \in Records, Versioned(r), live[r] # None
      PROVE  live'[r] # None /\ (live[r].sec # None => live'[r].sec # None)
  <2>1. Next
    BY <1>1 DEF Versioned, vars
  <2>2. PICK c \in Clients :
          /\ req[c].pc = "apply" /\ ClientOK(req[c])
          /\ r = req[c].rec /\ Apply(r, Item(req[c]))
    BY <1>1, <2>1, VersionedByApply
  <2>3. CASE Writes(req[c].op)
    <3>1. /\ live[r] \in Doc /\ req[c].doc \in Doc
          /\ live'[r] = PutRecord(live[r], req[c].doc)
      BY <1>1, <2>2, <2>3, ApplyLive DEF IInv
    <3>2. live'[r] # None
      BY <3>1, PutIsDoc, StoredIsDoc
    <3>. QED
      BY <3>1, <3>2 DEF PutRecord, PutMongo, PutPostgres
  <2>4. CASE ~Writes(req[c].op)
    BY <1>1, <2>2, <2>4, ApplyLive DEF IInv
  <2>. QED
    BY <2>3, <2>4
<1>2. IInv /\ [Next]_vars =>
        [\A r \in Records : Versioned(r) /\ live[r] # None =>
           live'[r] # None /\ (live[r].sec # None => live'[r].sec # None)]_vars
  BY <1>1
<1>. QED
  BY Invariance, <1>2, PTL DEF Spec, KeepsSecrets

-----------------------------------------------------------------------------
(***************************************************************************)
(* The engine implements VersionedRecords.                                 *)
(***************************************************************************)

(* The refinement mapping.                                                 *)
Content == [r \in Records |-> IF live[r] = None THEN None ELSE HashDoc(live[r])]

Log == [r \in Records |-> [s \in 1 .. heads[r].seq |-> history[r][s].oid]]

(* Append and Len on a sequence written as a function.                     *)
LEMMA AppendOne ==
  ASSUME NEW S, NEW n \in Nat, NEW f \in [1 .. n -> S], NEW x \in S
  PROVE  Append(f, x) = [s \in 1 .. (n + 1) |-> IF s = n + 1 THEN x ELSE f[s]]
         /\ Len(f) = n
<1>1. f \in Seq(S)
  OBVIOUS
<1>2. Len(f) = n
  BY <1>1
<1>3. /\ Append(f, x) \in Seq(S) /\ Len(Append(f, x)) = n + 1
      /\ \A s \in 1 .. n : Append(f, x)[s] = f[s]
      /\ Append(f, x)[n + 1] = x
  BY <1>1, <1>2, AppendProperties
<1>4. Append(f, x) \in [1 .. (n + 1) -> S]
  BY <1>3, LenProperties
<1>5. \A s \in 1 .. (n + 1) : Append(f, x)[s] = IF s = n + 1 THEN x ELSE f[s]
  BY <1>3
<1>. QED
  BY <1>2, <1>4, <1>5

(* A project before its first import is an empty log.                      *)
LEMMA PromiseInit == Init => Promise!Init
<1>. SUFFICES ASSUME Init PROVE Promise!Init
  OBVIOUS
<1>1. Content \in [Records -> Bodies \cup {None}]
  BY StoredIsDoc DEF Content, Init, StoreInit
<1>2. Log = [r \in Records |-> <<>>]
  <2>1. ASSUME NEW r \in Records PROVE [s \in 1 .. heads[r].seq |-> history[r][s].oid] = <<>>
    <3>1. heads[r].seq = 0 /\ 1 .. 0 = {}
      BY DEF Init, StoreInit, NoHead
    <3>. QED
      BY <3>1
  <2>. QED
    BY <2>1 DEF Log
<1>. QED
  BY <1>1, <1>2 DEF Promise!Init, Content, Log

(* A transaction records a content, or publishes it.                       *)
LEMMA PromiseApply ==
  ASSUME IInv, NEW c \in Clients, ClientOK(req[c]), req[c].pc = "apply",
         NEW r, r = req[c].rec, Apply(r, Item(req[c]))
  PROVE  r \in Records /\ \E x \in Bodies : Promise!Record(r, x) \/ Promise!Publish(r, x)
<1>1. PICK e, n : e = Item(req[c]).entry /\ n = heads[r].seq
  OBVIOUS
<1>2. r \in Records /\ n \in Nat /\ e \in Row /\ Gains(r, n, e) /\ e.oid = HashDoc(req[c].doc)
  BY <1>1, ApplyGains, ItemShape DEF IInv
<1>3. e.oid \in Bodies
  BY <1>2 DEF Row
<1>4. Log[r] \in [1 .. n -> Bodies] /\ Len(Log[r]) = n
  <2>1. \A s \in 1 .. n : history[r][s].oid \in Bodies
    BY <1>2 DEF Gains, OldRow, Row
  <2>2. Log[r] \in [1 .. n -> Bodies]
    BY <1>1, <1>2, <2>1 DEF Log
  <2>. QED
    BY <1>2, <1>3, <2>2, AppendOne
<1>5. Log' = [Log EXCEPT ![r] = Append(Log[r], e.oid)]
  <2>1. Log'[r] = Append(Log[r], e.oid)
    <3>1. Append(Log[r], e.oid) =
            [s \in 1 .. (n + 1) |-> IF s = n + 1 THEN e.oid ELSE Log[r][s]]
      BY <1>2, <1>3, <1>4, AppendOne
    <3>2. Log'[r] = [s \in 1 .. (n + 1) |-> history'[r][s].oid]
      BY <1>2 DEF Log, Gains
    <3>3. ASSUME NEW s \in 1 .. (n + 1)
          PROVE  history'[r][s].oid = IF s = n + 1 THEN e.oid ELSE Log[r][s]
      <4>1. CASE s = n + 1
        BY <1>2, <4>1 DEF Gains
      <4>2. CASE s # n + 1
        <5>1. s \in 1 .. n
          BY <1>2, <4>2
        <5>2. Log[r][s] = history[r][s].oid
          BY <1>1, <1>2, <5>1 DEF Log
        <5>3. OldRow(r, n, e, s)
          BY <1>2, <5>1 DEF Gains
        <5>. QED
          BY <4>2, <5>2, <5>3 DEF OldRow
      <4>. QED
        BY <4>1, <4>2
    <3>. QED
      BY <3>1, <3>2, <3>3
  <2>2. ASSUME NEW x \in Records \ {r} PROVE Log'[x] = Log[x]
    BY <1>2 DEF Log, Gains
  <2>. QED
    BY <1>2, <2>1, <2>2 DEF Log
<1>6. CASE ~Writes(req[c].op)
  <2>1. live' = live
    BY <1>2, <1>6 DEF Apply, LiveAfter, Item, IInv, TypeOK, StoreTypeOK
  <2>2. Content' = Content
    BY <2>1 DEF Content, HashDoc
  <2>3. Promise!Record(r, e.oid)
    BY <1>5, <2>2 DEF Promise!Record, Promise!Extend, Log, Content
  <2>. QED
    BY <1>2, <1>3, <2>3
<1>7. CASE Writes(req[c].op)
  <2>1. /\ live[r] \in Doc /\ req[c].doc \in Doc
        /\ live'[r] = PutRecord(live[r], req[c].doc)
        /\ \A x \in Records \ {r} : live'[x] = live[x]
    BY <1>7, ApplyLive DEF IInv
  <2>2. live'[r] # None /\ HashDoc(live'[r]) = RuntimeBody[e.oid]
    <3>1. PICK w : w = PutRecord(live[r], req[c].doc)
      OBVIOUS
    <3>2. w \in Doc /\ HashDoc(w) = RuntimeBody[e.oid]
      BY <1>2, <2>1, <3>1, PutIsDoc
    <3>. QED
      BY <2>1, <3>1, <3>2, DocAssumption
  <2>3. Content' = [Content EXCEPT ![r] = RuntimeBody[e.oid]]
    <3>1. Content'[r] = RuntimeBody[e.oid]
      BY <1>2, <2>2 DEF Content, HashDoc
    <3>2. ASSUME NEW x \in Records \ {r} PROVE Content'[x] = Content[x]
      BY <2>1 DEF Content, HashDoc
    <3>. QED
      BY <1>2, <3>1, <3>2 DEF Content
  <2>4. Content[r] # None /\ Content[r] = HashDoc(live[r])
    BY <1>2, <2>1, StoredIsDoc DEF Content
  <2>5. n # 0 => Content[r] = Log[r][n]
    <3>. SUFFICES ASSUME n # 0 PROVE Content[r] = Log[r][n]
      OBVIOUS
    <3>1. heads[r] = GetHead(r) /\ Exists(GetHead(r)) /\ n \in 1 .. n
          /\ heads[r].oid = history[r][n].oid
      BY <1>1, <1>2, GetHeadIsPointer DEF Exists, IInv, TypeOK, StoreInv, HeadIsLastRow
    <3>2. Log[r][n] = heads[r].oid
      BY <1>1, <1>2, <3>1 DEF Log
    <3>. QED
      BY <1>7, <2>4, <3>1, <3>2, WriteOverHead
  <2>6. Promise!Publish(r, e.oid)
    BY <1>4, <1>5, <2>3, <2>4, <2>5 DEF Promise!Publish, Promise!Extend, Log, Content
  <2>. QED
    BY <1>2, <1>3, <2>6
<1>. QED
  BY <1>6, <1>7

(* Every step of the engine is a step of VersionedRecords, or none at all. *)
LEMMA PromiseStep ==
  ASSUME IInv, [Next]_vars
  PROVE  [Promise!Next]_<<Content, Log>>
<1>1. CASE UNCHANGED vars
  BY <1>1 DEF vars, Content, Log, HashDoc
<1>2. CASE Environment
  <2>1. Log' = Log
    BY <1>2 DEF Environment, RawWrite, Tick, Log
  <2>2. ASSUME NEW r \in Records, NEW d \in Doc \cup {None}, RawWrite(r, d)
        PROVE  Promise!Next
    <3>1. PICK x : x = IF d = None THEN None ELSE HashDoc(d)
      OBVIOUS
    <3>2. x \in Bodies \cup {None}
      BY <3>1, StoredIsDoc
    <3>3. Content' = [Content EXCEPT ![r] = x]
      <4>1. Content'[r] = x
        BY <2>2, <3>1 DEF RawWrite, Content, HashDoc, IInv, TypeOK, StoreTypeOK
      <4>2. ASSUME NEW y \in Records \ {r} PROVE Content'[y] = Content[y]
        BY <2>2 DEF RawWrite, Content, HashDoc, IInv, TypeOK, StoreTypeOK
      <4>. QED
        BY <4>1, <4>2 DEF Content
    <3>4. Promise!Outside(r, x)
      BY <2>1, <3>3 DEF Promise!Outside, Content, Log
    <3>. QED
      BY <3>2, <3>4 DEF Promise!Next
  <2>3. CASE Tick
    BY <2>1, <2>3 DEF Tick, Content, HashDoc
  <2>. QED
    BY <1>2, <2>2, <2>3 DEF Environment
<1>3. ASSUME NEW c \in Clients, Call(c) \/ Work(c) \/ Crash(c)
      PROVE  [Promise!Next]_<<Content, Log>>
  <2>1. CASE UNCHANGED storeVars
    BY <2>1 DEF storeVars, Content, Log, HashDoc
  <2>2. CASE ~UNCHANGED storeVars
    <3>1. ApplyEntry(c)
      BY <1>3, <2>2 DEF Call, Work, Crash, Start, StartImport, StartAdopt, StartCommit,
           StartRestore, ResolveRef, ReadLive, ReadHead, MakeEntry, Abort
    <3>2. PICK r : r = req[c].rec
      OBVIOUS
    <3>3. req[c].pc = "apply" /\ ClientOK(req[c]) /\ Apply(r, Item(req[c]))
      BY <2>2, <3>1, <3>2 DEF ApplyEntry, IInv, ClientsOK
    <3>. QED
      BY <3>2, <3>3, PromiseApply DEF Promise!Next
  <2>. QED
    BY <2>1, <2>2
<1>. QED
  BY <1>1, <1>2, <1>3 DEF Next, ClientStep

(* Whatever clients and application do, the live contents and the logs of  *)
(* contents change only as VersionedRecords says.                          *)
THEOREM Refinement == Spec => KeepsPromise
<1>1. IInv /\ [Next]_vars => [Promise!Next]_<<Content, Log>>
  BY PromiseStep
<1>. QED
  BY PromiseInit, Invariance, <1>1, PTL DEF Spec, KeepsPromise, Promise!Spec, Content, Log

-----------------------------------------------------------------------------
(***************************************************************************)
(* The engine implements MainLine.                                         *)
(***************************************************************************)

(* The HEAD a client read is the HEAD its transaction finds: both have the *)
(* same oid, and one exists if the other does.                             *)
LEMMA HeadAsRead ==
  ASSUME IInv, NEW c \in Clients, ClientOK(req[c]), req[c].pc = "apply",
         NEW r, r = req[c].rec, Apply(r, Item(req[c]))
  PROVE  /\ r \in Records
         /\ GetHead(r).oid = req[c].head.oid
         /\ Exists(GetHead(r)) <=> Exists(req[c].head)
<1>. DEFINE q == req[c]
<1>1. r \in Records /\ GetHead(r) = heads[r]
  BY GetHeadIsPointer DEF ClientOK, IInv, TypeOK, StoreInv
<1>2. heads[r].oid = q.head.oid
  BY DEF Apply, CanApply, HeadFresh, Item
<1>3. ASSUME heads[r].seq # 0 PROVE heads[r].oid # None
  <2>1. heads[r].seq \in DOMAIN history[r] /\ heads[r].oid = history[r][heads[r].seq].oid
    BY <1>1, <1>3 DEF IInv, TypeOK, StoreTypeOK, StoreInv, HeadIsLastRow
  <2>. QED
    BY <1>1, <2>1, NoneAssumption DEF IInv, TypeOK, StoreTypeOK, Row
<1>4. CASE heads[r].seq = 0
  <2>1. heads[r].oid = None
    BY <1>1, <1>4 DEF IInv, StoreInv, HeadIsLastRow
  <2>2. ~(q.head.seq \in 1 .. heads[r].seq)
    BY <1>4
  <2>. QED
    BY <1>1, <1>2, <1>4, <2>2 DEF ClientOK, SeenHead, Exists, NoHead
<1>5. CASE heads[r].seq # 0
  <2>1. q.head # NoHead
    BY <1>2, <1>3, <1>5 DEF NoHead
  <2>2. q.head.seq \in 1 .. heads[r].seq
    BY <2>1 DEF ClientOK, SeenHead
  <2>3. q.head.seq # 0
    BY <2>2
  <2>. QED
    BY <1>1, <1>2, <1>5, <2>3 DEF Exists
<1>. QED
  BY <1>4, <1>5

(* A transaction is the main line's step of its operation.                 *)
LEMMA ApplyIsVersion ==
  ASSUME IInv, NEW c \in Clients, ClientOK(req[c]), req[c].pc = "apply",
         NEW r, r = req[c].rec, Apply(r, Item(req[c]))
  PROVE  r \in Records /\ Version(r)
<1>. DEFINE q == req[c]
<1>1. /\ r \in Records /\ q.doc \in Doc /\ q.live \in Doc /\ q.from \in 0 .. MaxClock
      /\ q.op \in {"import", "adopt", "commit", "restore"}
  BY DEF ClientOK, HasRead, OpNames
<1>2. GetHead(r).oid = q.head.oid /\ (Exists(GetHead(r)) <=> Exists(q.head))
  BY HeadAsRead
<1>3. HashDoc(StoredDoc(q.doc)) = HashDoc(q.doc) /\ HashDoc(q.live) # None /\ q.doc # None
  BY <1>1, StoredIsDoc
<1>4. CASE Writes(q.op)
  <2>1. live[r] # None /\ HashDoc(live[r]) = HashDoc(q.live)
    BY <1>3, <1>4 DEF Apply, CanApply, LiveFresh, Item
  <2>2. Open(r)
    BY <1>4, <2>1, WriteOverHead DEF Open, Clean
  <2>3. Item(q) = RecordAndWrite(r, q.op, q.doc, q.from)
    BY <1>2, <1>3, <1>4, <2>1 DEF Item, RecordAndWrite, Entry
  <2>4. Apply(r, RecordAndWrite(r, q.op, q.doc, q.from))
    BY <2>3
  <2>5. CASE q.op = "commit"
    <3>1. News(r, q.doc)
      BY <1>2, <2>5 DEF News, ClientOK
    <3>2. Commit(r, q.doc, q.from)
      BY <2>2, <2>4, <2>5, <3>1 DEF Commit
    <3>. QED
      BY <1>1, <3>2 DEF Version
  <2>6. CASE q.op = "restore"
    <3>1. Restore(r, q.doc, q.from)
      BY <2>2, <2>4, <2>6 DEF Restore
    <3>. QED
      BY <1>1, <3>1 DEF Version
  <2>. QED
    BY <1>4, <2>5, <2>6 DEF Writes
<1>5. CASE ~Writes(q.op)
  <2>1. Item(q) = RecordOnly(r, q.op, q.doc, q.from)
    BY <1>2, <1>3, <1>5 DEF Item, RecordOnly, Entry
  <2>2. Apply(r, RecordOnly(r, q.op, q.doc, q.from))
    BY <2>1
  <2>3. CASE q.op = "import"
    <3>1. ~Exists(GetHead(r))
      BY <1>2, <2>3 DEF ClientOK
    <3>2. Import(r, q.doc, q.from)
      BY <2>2, <2>3, <3>1 DEF Import
    <3>. QED
      BY <1>1, <3>2 DEF Version
  <2>4. CASE q.op = "adopt"
    <3>1. News(r, q.doc)
      BY <1>2, <2>4 DEF News, ClientOK
    <3>2. Adopt(r, q.doc, q.from)
      BY <2>2, <2>4, <3>1 DEF Adopt
    <3>. QED
      BY <1>1, <3>2 DEF Version
  <2>. QED
    BY <1>1, <1>5, <2>3, <2>4 DEF Writes
<1>. QED
  BY <1>4, <1>5

(* Every operation takes effect in one step that the present state of the  *)
(* store decides, whenever its reads were made: Engine implements MainLine. *)
THEOREM Atomicity == Spec => ActsOnPresent
<1>1. ASSUME IInv, [Next]_vars PROVE [MainNext]_storeVars
  <2>1. CASE UNCHANGED vars
    BY <2>1 DEF vars, storeVars
  <2>2. CASE Environment
    BY <2>2 DEF Environment, MainNext, Behind
  <2>3. ASSUME NEW c \in Clients, Call(c) \/ Work(c) \/ Crash(c), ~UNCHANGED storeVars
        PROVE  MainNext
    <3>1. ApplyEntry(c)
      BY <2>3 DEF Call, Work, Crash, Start, StartImport, StartAdopt, StartCommit,
           StartRestore, ResolveRef, ReadLive, ReadHead, MakeEntry, Abort
    <3>2. PICK r : r = req[c].rec
      OBVIOUS
    <3>3. req[c].pc = "apply" /\ ClientOK(req[c]) /\ Apply(r, Item(req[c]))
      BY <1>1, <2>3, <3>1, <3>2 DEF ApplyEntry, IInv, ClientsOK
    <3>. QED
      BY <1>1, <3>2, <3>3, ApplyIsVersion DEF MainNext
  <2>. QED
    BY <1>1, <2>1, <2>2, <2>3 DEF Next, ClientStep
<1>2. Init => StoreInit
  BY DEF Init
<1>3. IInv /\ [Next]_vars => [MainNext]_storeVars
  BY <1>1
<1>. QED
  BY Invariance, <1>2, <1>3, PTL DEF Spec, ActsOnPresent, MainSpec

(* A put on MongoDB leaves the ignore_fields there were.                   *)
LEMMA PutKeepsFields ==
  ASSUME KeepsIgnored, NEW cur \in Doc, NEW new \in Doc
  PROVE  PutRecord(cur, new).ign.fields = cur.ign.fields
<1>1. \A x \in Doc : [x EXCEPT !.ign.fields = cur.ign.fields].ign.fields = cur.ign.fields
  BY DEF Doc, Ignored
<1>2. PutPostgres(cur, new) \in Doc
  <2>1. RuntimeDoc(new) \in Doc
    BY RuntimeIsDoc
  <2>. QED
    BY <2>1 DEF PutPostgres, Doc
<1>. QED
  BY <1>1, <1>2 DEF PutRecord, PutMongo

(* On MongoDB no operation touches what the application keeps in the       *)
(* ignore_fields of a live record (_put_record of mongo.py).               *)
THEOREM IgnoredStays ==
  ASSUME KeepsIgnored
  PROVE  Spec => LeavesIgnoredAlone
<1>1. ASSUME IInv, [Next]_vars, NEW r \in Records, Versioned(r), live[r] # None
      PROVE  live'[r].ign.fields = live[r].ign.fields
  <2>1. Next
    BY <1>1 DEF Versioned, vars
  <2>2. PICK c \in Clients :
          /\ req[c].pc = "apply" /\ ClientOK(req[c])
          /\ r = req[c].rec /\ Apply(r, Item(req[c]))
    BY <1>1, <2>1, VersionedByApply
  <2>3. CASE Writes(req[c].op)
    <3>1. /\ live[r] \in Doc /\ req[c].doc \in Doc
          /\ live'[r] = PutRecord(live[r], req[c].doc)
      BY <1>1, <2>2, <2>3, ApplyLive DEF IInv
    <3>. QED
      BY <3>1, PutKeepsFields
  <2>4. CASE ~Writes(req[c].op)
    BY <1>1, <2>2, <2>4, ApplyLive DEF IInv
  <2>. QED
    BY <2>3, <2>4
<1>2. IInv /\ [Next]_vars =>
        [\A r \in Records : Versioned(r) /\ live[r] # None =>
           live'[r].ign.fields = live[r].ign.fields]_vars
  BY <1>1
<1>. QED
  BY Invariance, <1>2, PTL DEF Spec, LeavesIgnoredAlone
=============================================================================
