------------------------------ MODULE MainLine ------------------------------
(***************************************************************************)
(* What the operations of Engine may do to the store, each as the single   *)
(* step it takes effect in: the abstract specification that Engine         *)
(* implements, and the main line on which Branches stands.                 *)
(*                                                                         *)
(* An operation decides on what it read some time ago, so the document it  *)
(* records need not be live any more, and its valid_from is whatever the   *)
(* clock of its host said; but what it compares with HEAD and with the     *)
(* live record still holds at the step.                                    *)
(***************************************************************************)
EXTENDS Store

Entry(r, op, d, at) ==
  [oid |-> HashDoc(d), parent |-> GetHead(r).oid, doc |-> StoredDoc(d), op |-> op,
   from |-> at, to |-> None]

(* A row for a document, and for a write also the document.                *)
RecordOnly(r, op, d, at) ==
  [newDoc |-> None, entry |-> Entry(r, op, d, at), expectedHead |-> GetHead(r).oid,
   expectedLive |-> None, seed |-> FALSE]

RecordAndWrite(r, op, d, at) ==
  [newDoc |-> d, entry |-> Entry(r, op, d, at), expectedHead |-> GetHead(r).oid,
   expectedLive |-> HashDoc(live[r]), seed |-> FALSE]

(* What HEAD does not say already.                                         *)
News(r, d) == HashDoc(d) # GetHead(r).oid

(* A record that can be written: its live document is recorded, or nothing *)
(* of it ever was.                                                         *)
Open(r) == live[r] # None /\ (Exists(GetHead(r)) => Clean(r))

Import(r, d, at) == ~Exists(GetHead(r)) /\ Apply(r, RecordOnly(r, "import", d, at))

Adopt(r, d, at) == News(r, d) /\ Apply(r, RecordOnly(r, "adopt", d, at))

Commit(r, d, at) ==
  Open(r) /\ News(r, d) /\ Apply(r, RecordAndWrite(r, "commit", d, at))

Restore(r, d, at) == Open(r) /\ Apply(r, RecordAndWrite(r, "restore", d, at))

Version(r) ==
  \E d \in Doc : \E at \in 0 .. MaxClock :
    Import(r, d, at) \/ Adopt(r, d, at) \/ Commit(r, d, at) \/ Restore(r, d, at)

Behind(r) == \E d \in Doc \cup {None} : RawWrite(r, d)

MainNext == (\E r \in Records : Version(r) \/ Behind(r)) \/ Tick

MainSpec == StoreInit /\ [][MainNext]_storeVars
=============================================================================
