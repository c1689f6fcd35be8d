---------------------------- MODULE StoreProofs ----------------------------
(***************************************************************************)
(* What every transaction of MainLine keeps of the store, for any records, *)
(* contents and bounds: the part the proofs about Branches and Bulk share. *)
(***************************************************************************)
EXTENDS MainLine, WellFoundedInduction, TLAPS

HeadType == [oid : Bodies \cup {None}, seq : Nat]

(***************************************************************************)
(* The invariant of the store.  Of one record: its HEAD and its rows.      *)
(***************************************************************************)
RowsOK(head, rows) ==
  /\ head \in HeadType
  /\ DOMAIN rows = 1 .. head.seq
  /\ \A s \in 1 .. head.seq : rows[s] \in Row
  /\ head.oid = IF head.seq = 0 THEN None ELSE rows[head.seq].oid
  /\ \A s \in 1 .. head.seq : rows[s].parent = IF s = 1 THEN None ELSE rows[s - 1].oid
  /\ \A s \in 1 .. head.seq : rows[s].to = IF s = head.seq THEN None ELSE rows[s + 1].from

StoreOK ==
  /\ live \in [Records -> Doc \cup {None}]
  /\ heads \in [Records -> HeadType]
  /\ DOMAIN history = Records
  /\ clock \in 0 .. MaxClock
  /\ \A r \in Records : RowsOK(heads[r], history[r])

-----------------------------------------------------------------------------
(* A set of numbers below a bound has a largest one.                       *)
LEMMA LargestExists ==
  ASSUME NEW S \in SUBSET Nat, S # {}, NEW n \in Nat, \A x \in S : x <= n
  PROVE  \E m \in S : \A x \in S : x <= m
<1>. DEFINE D == {n - x : x \in S}
<1>1. \A x \in S : n - x \in Nat
  OBVIOUS
<1>2. D \subseteq Nat /\ D # {}
  BY <1>1
<1>3. PICK d \in D : \A e \in D : ~ (<<e, d>> \in OpToRel(<, Nat))
  BY <1>2, NatLessThanWellFounded, WFMin
<1>4. \A e \in D : ~ (e < d)
  BY <1>2, <1>3 DEF OpToRel
<1>5. PICK m \in S : d = n - m
  OBVIOUS
<1>6. ASSUME NEW x \in S PROVE x <= m
  <2>1. ~ (n - x < n - m)
    BY <1>4, <1>5
  <2>. QED
    BY <2>1
<1>. QED
  BY <1>6

(* What stored_doc keeps of a document is a document with the same hash,   *)
(* and neither a document nor a hash is None.                              *)
LEMMA StoredIsDoc ==
  ASSUME NEW d \in Doc
  PROVE  StoredDoc(d) \in Doc /\ HashDoc(StoredDoc(d)) = HashDoc(d)
         /\ HashDoc(d) \in Bodies /\ d # None /\ HashDoc(d) # None
BY NoneAssumption, DocAssumption DEF StoredDoc, Doc, HashDoc

(* What is written of a document is a document, and has the content the    *)
(* given one has once it is written.                                       *)
LEMMA RuntimeIsDoc ==
  ASSUME NEW d \in Doc
  PROVE  RuntimeDoc(d) \in Doc /\ HashDoc(RuntimeDoc(d)) = RuntimeBody[HashDoc(d)]
BY RuntimeAssumption DEF RuntimeDoc, Doc, HashDoc

(* So is what a put leaves, though part of it was there before.            *)
LEMMA PutIsDoc ==
  ASSUME NEW cur \in Doc, NEW new \in Doc
  PROVE  PutRecord(cur, new) \in Doc /\ HashDoc(PutRecord(cur, new)) = RuntimeBody[HashDoc(new)]
<1>. DEFINE d == RuntimeDoc(new)
<1>1. d \in Doc /\ HashDoc(d) = RuntimeBody[HashDoc(new)]
  BY RuntimeIsDoc
<1>. HIDE DEF d
<1>2. /\ [d EXCEPT !.sec = IF new.sec = None THEN cur.sec ELSE new.sec] \in Doc
      /\ HashDoc([d EXCEPT !.sec = IF new.sec = None THEN cur.sec ELSE new.sec]) = HashDoc(d)
  BY <1>1 DEF Doc, HashDoc
<1>3. PutPostgres(cur, new) \in Doc /\ HashDoc(PutPostgres(cur, new)) = HashDoc(d)
  BY <1>2 DEF PutPostgres, d
<1>4. ASSUME NEW x \in Doc
      PROVE  /\ [x EXCEPT !.ign.fields = cur.ign.fields] \in Doc
             /\ HashDoc([x EXCEPT !.ign.fields = cur.ign.fields]) = HashDoc(x)
  BY DEF Doc, Ignored, HashDoc
<1>5. PutMongo(cur, new) \in Doc /\ HashDoc(PutMongo(cur, new)) = HashDoc(d)
  BY <1>3, <1>4 DEF PutMongo
<1>. QED
  BY <1>1, <1>3, <1>5 DEF PutRecord

-----------------------------------------------------------------------------
(* get_head returns the pointer.                                           *)
LEMMA GetHeadIsPointer ==
  ASSUME StoreOK, NEW r \in Records
  PROVE  GetHead(r) = heads[r] /\ heads[r] \in HeadType
<1>1. RowsOK(heads[r], history[r]) /\ heads[r] \in HeadType
  BY DEF StoreOK
<1>2. heads[r] = [oid |-> heads[r].oid, seq |-> heads[r].seq] /\ heads[r].seq \in Nat
  BY <1>1 DEF HeadType
<1>3. CASE heads[r].seq = 0
  BY <1>1, <1>2, <1>3 DEF GetHead, RowsOK, NoHead
<1>4. CASE heads[r].seq # 0
  <2>1. heads[r].seq \in 1 .. heads[r].seq
    BY <1>2, <1>4
  <2>. QED
    BY <1>1, <1>2, <1>4, <2>1 DEF GetHead, RowsOK
<1>. QED
  BY <1>1, <1>3, <1>4

(* A HEAD exists exactly if it has an oid.                                 *)
LEMMA HeadHasOid ==
  ASSUME StoreOK, NEW r \in Records
  PROVE  Exists(heads[r]) <=> heads[r].oid # None
<1>1. RowsOK(heads[r], history[r]) /\ heads[r].seq \in Nat
  BY DEF StoreOK, HeadType
<1>2. heads[r].seq # 0 => heads[r].seq \in 1 .. heads[r].seq
  BY <1>1
<1>3. heads[r].seq # 0 => history[r][heads[r].seq].oid \in Bodies
  BY <1>1, <1>2 DEF RowsOK, Row
<1>. QED
  BY <1>1, <1>3, NoneAssumption DEF RowsOK, Exists

(* What a transaction may be asked to write.                               *)
GoodItem(item) ==
  /\ item.entry \in Row
  /\ item.entry.to = None
  /\ item.entry.parent = item.expectedHead
  /\ item.newDoc \in Doc \cup {None}
  /\ item.seed \in BOOLEAN

(* A transaction leaves the rows of a record in order, merges or not.      *)
LEMMA RowsAfter ==
  ASSUME NEW r \in Records, NEW item, RowsOK(heads[r], history[r]), GoodItem(item),
         HeadFresh(r, item)
  PROVE  RowsOK(HeadAfter(r, item), HistoryAfter(r, item))
<1>. DEFINE e == item.entry  n == heads[r].seq  old == history[r]
            new == HistoryAfter(r, item)  h == HeadAfter(r, item)
<1>1. /\ e \in Row /\ e.to = None /\ e.parent = heads[r].oid /\ e.oid \in Bodies
      /\ e.from \in Nat /\ n \in Nat /\ DOMAIN old = 1 .. n
  BY DEF GoodItem, HeadFresh, RowsOK, HeadType, Row
<1>2. h \in HeadType /\ h.seq = n + 1 /\ h.oid = e.oid
  BY <1>1 DEF HeadAfter, HeadType
<1>3. DOMAIN new = 1 .. (n + 1) /\ new[n + 1] = e
  BY <1>1 DEF HistoryAfter
<1>4. ASSUME NEW s \in 1 .. n
      PROVE  /\ new[s] \in Row /\ new[s].oid = old[s].oid /\ new[s].parent = old[s].parent
             /\ new[s].from = old[s].from
             /\ new[s].to = IF s = n THEN e.from ELSE old[s].to
  <2>1. old[s] \in Row
    BY DEF RowsOK
  <2>2. new[s] = IF s = n THEN CloseRow(old[s], e.from) ELSE old[s]
    BY <1>1 DEF HistoryAfter
  <2>3. CASE s = n
    <3>1. old[s].to = None
      BY <2>3 DEF RowsOK
    <3>2. new[s] = [old[s] EXCEPT !.to = e.from]
      BY <2>2, <2>3, <3>1 DEF CloseRow
    <3>. QED
      BY <1>1, <2>1, <2>3, <3>2 DEF Row
  <2>4. CASE s # n
    BY <2>1, <2>2, <2>4
  <2>. QED
    BY <2>3, <2>4
<1>5. ASSUME NEW s \in 1 .. (n + 1)
      PROVE  /\ new[s] \in Row
             /\ new[s].parent = IF s = 1 THEN None ELSE new[s - 1].oid
             /\ new[s].to = IF s = n + 1 THEN None ELSE new[s + 1].from
  <2>1. CASE s = n + 1
    <3>1. e.parent = IF n = 0 THEN None ELSE old[n].oid
      BY <1>1 DEF RowsOK
    <3>2. n # 0 => n \in 1 .. n
      BY <1>1
    <3>3. n # 0 => new[n].oid = old[n].oid
      BY <1>4, <3>2
    <3>4. s - 1 = n /\ (s = 1 <=> n = 0)
      BY <1>1, <2>1
    <3>. QED
      BY <1>1, <1>3, <2>1, <3>1, <3>3, <3>4
  <2>2. CASE s \in 1 .. n
    <3>1. /\ old[s].parent = IF s = 1 THEN None ELSE old[s - 1].oid
          /\ old[s].to = IF s = n THEN None ELSE old[s + 1].from
      BY <2>2 DEF RowsOK
    <3>2. s # 1 => s - 1 \in 1 .. n
      BY <1>1, <2>2
    <3>3. s # n => s + 1 \in 1 .. n
      BY <1>1, <2>2
    <3>4. s # 1 => new[s - 1].oid = old[s - 1].oid
      BY <1>4, <3>2
    <3>5. s # n => new[s + 1].from = old[s + 1].from
      BY <1>4, <3>3
    <3>6. s # n + 1
      BY <1>1, <2>2
    <3>. QED
      BY <1>3, <1>4, <2>2, <3>1, <3>4, <3>5, <3>6
  <2>. QED
    BY <1>1, <2>1, <2>2
<1>6. h.seq # 0 /\ h.oid = new[h.seq].oid
  BY <1>1, <1>2, <1>3
<1>. QED
  BY <1>2, <1>3, <1>5, <1>6 DEF RowsOK

(* The document it leaves is one.                                          *)
LEMMA LiveIsDoc ==
  ASSUME NEW r \in Records, NEW item, live[r] \in Doc \cup {None}, GoodItem(item),
         CanApply(r, item)
  PROVE  LiveAfter(r, item) \in Doc \cup {None}
<1>1. CASE item.newDoc = None
  BY <1>1 DEF LiveAfter
<1>2. CASE item.newDoc # None /\ item.seed
  BY <1>2, RuntimeIsDoc DEF GoodItem, LiveAfter
<1>3. CASE item.newDoc # None /\ ~item.seed
  <2>1. item.newDoc \in Doc /\ live[r] \in Doc
    BY <1>3 DEF GoodItem, CanApply, Writable
  <2>. QED
    BY <1>3, <2>1, PutIsDoc DEF LiveAfter
<1>. QED
  BY <1>1, <1>2, <1>3

(* A transaction over any of the records leaves the store in order.        *)
LEMMA ApplyManyStep ==
  ASSUME StoreOK, NEW items, DOMAIN items \subseteq Records,
         \A r \in DOMAIN items : GoodItem(items[r]), ApplyMany(items)
  PROVE  StoreOK'
<1>1. \A r \in DOMAIN items : r \in Records /\ CanApply(r, items[r]) /\ GoodItem(items[r])
  BY DEF ApplyMany, AllCanApply
<1>2. ASSUME NEW r \in Records
      PROVE  /\ live'[r] \in Doc \cup {None}
             /\ heads'[r] \in HeadType
             /\ RowsOK(heads'[r], history'[r])
  <2>1. live[r] \in Doc \cup {None} /\ heads[r] \in HeadType /\ RowsOK(heads[r], history[r])
    BY DEF StoreOK
  <2>2. CASE r \in DOMAIN items
    <3>1. /\ live'[r] = LiveAfter(r, items[r])
          /\ heads'[r] = HeadAfter(r, items[r])
          /\ history'[r] = HistoryAfter(r, items[r])
      BY <2>2 DEF ApplyMany
    <3>2. HeadFresh(r, items[r])
      BY <1>1, <2>2 DEF CanApply
    <3>3. RowsOK(heads'[r], history'[r])
      BY <1>1, <2>1, <2>2, <3>1, <3>2, RowsAfter
    <3>4. live'[r] \in Doc \cup {None}
      BY <1>1, <2>1, <2>2, <3>1, LiveIsDoc
    <3>. QED
      BY <3>3, <3>4 DEF RowsOK
  <2>3. CASE r \notin DOMAIN items
    BY <2>1, <2>3 DEF ApplyMany
  <2>. QED
    BY <2>2, <2>3
<1>3. /\ live' \in [Records -> Doc \cup {None}]
      /\ heads' \in [Records -> HeadType]
      /\ DOMAIN history' = Records
  BY <1>2 DEF ApplyMany
<1>. QED
  BY <1>2, <1>3 DEF StoreOK, ApplyMany

(* A transaction over one record is one over many.                         *)
LEMMA ApplyStep ==
  ASSUME StoreOK, NEW r \in Records, NEW item, GoodItem(item), Apply(r, item)
  PROVE  StoreOK'
<1>. DEFINE items == [x \in {r} |-> item]
<1>1. ApplyMany(items)
  BY DEF Apply, ApplyMany, AllCanApply, StoreOK
<1>. QED
  BY <1>1, ApplyManyStep

(* A transaction of the main line is about a good item.                    *)
LEMMA VersionStep ==
  ASSUME StoreOK, NEW r \in Records, Version(r)
  PROVE  StoreOK'
<1>1. PICK d \in Doc, at \in 0 .. MaxClock :
        Import(r, d, at) \/ Adopt(r, d, at) \/ Commit(r, d, at) \/ Restore(r, d, at)
  BY DEF Version
<1>2. GetHead(r).oid \in Bodies \cup {None} /\ clock \in Nat /\ at \in Nat
  BY GetHeadIsPointer, ClockAssumption DEF HeadType, StoreOK
<1>3. ASSUME NEW op \in OpNames
      PROVE  /\ GoodItem(RecordOnly(r, op, d, at)) /\ GoodItem(RecordAndWrite(r, op, d, at))
  <2>1. Entry(r, op, d, at) \in Row
    BY <1>2, StoredIsDoc DEF Entry, Row
  <2>. QED
    BY <2>1 DEF GoodItem, RecordOnly, RecordAndWrite, Entry
<1>4. PICK item : GoodItem(item) /\ Apply(r, item)
  BY <1>1, <1>3 DEF Import, Adopt, Commit, Restore, OpNames
<1>. QED
  BY <1>4, ApplyStep

(* Nobody else's step on a record disturbs the store either.               *)
LEMMA BehindStep ==
  ASSUME StoreOK, NEW r \in Records, Behind(r)
  PROVE  StoreOK'
BY DEF Behind, RawWrite, StoreOK

(* A transaction touches its record alone, and there it adds one version.  *)
LEMMA ApplyChanges ==
  ASSUME StoreOK, NEW r \in Records, NEW item, Apply(r, item)
  PROVE  /\ heads'[r] = [oid |-> item.entry.oid, seq |-> heads[r].seq + 1]
         /\ heads[r].oid = item.expectedHead
         /\ live'[r] = LiveAfter(r, item)
         /\ \A x \in Records \ {r} :
              live'[x] = live[x] /\ heads'[x] = heads[x] /\ history'[x] = history[x]
<1>1. r \in DOMAIN heads /\ r \in DOMAIN live /\ DOMAIN history = Records
  BY DEF StoreOK
<1>. QED
  BY <1>1 DEF StoreOK, Apply, CanApply, HeadFresh, HeadAfter
=============================================================================
