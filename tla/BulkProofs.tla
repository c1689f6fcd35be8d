----------------------------- MODULE BulkProofs -----------------------------
(***************************************************************************)
(* Proofs about Bulk, for any records, operators, contents and bounds.     *)
(***************************************************************************)
EXTENDS Bulk, StoreProofs, SequenceTheorems

(***************************************************************************)
(* The types of what the invariant speaks of.                              *)
(***************************************************************************)
Partial(S, T) == UNION {[D -> T] : D \in SUBSET S}

Planning == {"plan", "plan_head"}

Executing == {"write", "restore_head", "restore_apply"}

Looking == {"status", "status_heads", "status_live"}

Pcs ==
  {"idle", "gather", "tag", "add_tag", "sweep", "done"} \cup Looking \cup Planning \cup Executing

Writers == {"commit", "restore"}

Successes == {"committed", "noop", "restored"}

Reports ==
  Successes \cup {"partial", "blocked", "dry_run", "raised", "tagged", "swept", "died"}

Claims == {"committed", "restored", "restored_deleted"}

States ==
  Claims \cup {"noop", "unchanged", "changed_outside_cfgit", "did_not_exist", "not_in_tag",
               "tagged", "skipped_no_head", "imported", "adopted", "exists", "missing", "clean"}

PlanEntry ==
  [rec : Records, state : {"ready", "noop"}, doc : Doc, live : Doc \cup {None},
   head : HeadType, from : Nat, seed : BOOLEAN]

Job ==
  [pc : Pcs, cmd : Commands \cup {None}, dry : BOOLEAN, when : Nat \cup {None, "tag"},
   docs : Partial(Records, Doc), todo : SUBSET Records, rec : Records \cup {None},
   live : Doc \cup {None}, head : HeadType, plan : Seq(PlanEntry),
   blocked : SUBSET Records, results : Partial(Records, States),
   failed : SUBSET Records, pending : SUBSET Records, report : Reports \cup {None},
   wrote : SUBSET Records, touched : SUBSET Records]

(***************************************************************************)
(* The inductive invariant, of the store StoreOK, and of one job, where    *)
(* lv, hs and tg are the live records, the HEADs and the tags.  First,     *)
(* what each step of a job is about.                                       *)
(***************************************************************************)
PcOK(j) ==
  /\ j.pc = "idle" => j = NoJob
  /\ j.pc \in {"gather", "restore_head", "restore_apply"} => j.cmd = "restore"
  /\ j.pc \in Planning \cup Executing => j.cmd \in Writers
  /\ j.pc \in {"tag", "add_tag"} => j.cmd = "tag"
  /\ j.pc \in Looking \cup {"sweep"} => j.cmd \in {"import", "adopt"}
  /\ j.pc \in {"plan_head", "restore_head", "add_tag"} => j.rec \in Records
  /\ j.pc \in {"restore_head", "restore_apply"} => j.plan # <<>>
  /\ j.pc = "restore_head" =>
       j.rec = Head(j.plan).rec /\ (j.live # None \/ Head(j.plan).seed)
  /\ j.pc = "restore_apply" => Head(j.plan).live # None \/ Head(j.plan).seed
  /\ j.pc # "done" => j.report = None

(* Every record of the call is at one place: still to be judged, planned,  *)
(* blocked, in the report, or failed.                                      *)
Distinct(plan) ==
  \A i, k \in DOMAIN plan : plan[i].rec = plan[k].rec => i = k

Judged(j) == IF j.pc = "plan_head" THEN {j.rec} ELSE {}

Accounts(j) ==
  /\ DOMAIN j.docs \subseteq j.todo \cup Judged(j) \cup RecordsOf(j.plan) \cup j.blocked
                             \cup DOMAIN j.results \cup j.failed
  /\ j.todo \subseteq DOMAIN j.docs /\ Judged(j) \subseteq DOMAIN j.docs
  /\ j.todo \cap Judged(j) = {}
  /\ (j.todo \cup Judged(j)) \cap (RecordsOf(j.plan) \cup DOMAIN j.results) = {}
  /\ RecordsOf(j.plan) \cap (DOMAIN j.results \cup j.failed) = {}
  /\ DOMAIN j.results \cap j.failed = {}
  /\ Distinct(j.plan)
  /\ j.pending = {}

(* Nothing is written before the plan is complete, and only a plan without *)
(* a blocked record that is no preview is executed.                        *)
WroteOK(j) ==
  /\ j.pc \in {"gather"} \cup Planning => j.wrote = {} /\ j.failed = {} /\ Claimed(j) = {}
  /\ j.pc \in Executing =>
       /\ ~j.dry /\ j.blocked = {} /\ j.todo = {}
       /\ Claimed(j) \subseteq j.wrote /\ j.wrote \subseteq Claimed(j) \cup j.failed
       /\ j.cmd = "commit" => j.failed = {}

CountsOK(j) ==
  /\ j.pc = "gather" =>
       /\ j.todo \cap (DOMAIN j.docs \cup DOMAIN j.results) = {}
       /\ DOMAIN j.docs \cap DOMAIN j.results = {}
       /\ j.plan = <<>> /\ j.pending = {} /\ j.blocked = {}
  /\ j.pc \in Planning \cup Executing => Accounts(j)

(* An entry of the plan, as it was judged, or read again by a restore.     *)
EntryOK(j, p) ==
  /\ p.rec \in DOMAIN j.docs /\ p.doc = j.docs[p.rec]
  /\ p.from <= MaxClock
  /\ Exists(p.head) <=> p.head.oid # None
  /\ ~Drift(p.live, p.head)
  /\ j.cmd = "commit" =>
       /\ ~p.seed /\ p.live # None
       /\ p.state = "ready" => HashDoc(p.doc) # p.head.oid
  /\ j.cmd = "restore" => p.state = "ready"
  /\ p.state = "noop" => p.live # None /\ HashDoc(p.doc) = p.head.oid

(* ... and as long as nobody else writes the record, it is so still.       *)
EntryFresh(p, lv, hs) ==
  /\ p.live = lv[p.rec] /\ p.head = hs[p.rec]
  /\ p.seed => p.live = None
  /\ p.state = "ready" /\ p.live # None => HashDoc(p.doc) # p.head.oid

(* What a success says of a record: HEAD is the document of the call, and  *)
(* so is the live record, as it is written where the call wrote it.        *)
IsThere(j, r, state, lv, hs) ==
  LET oid == HashDoc(j.docs[r])
  IN  /\ lv[r] # None /\ hs[r].oid = oid
      /\ HashDoc(lv[r]) = IF state \in Claims THEN RuntimeBody[oid] ELSE oid

PlanOK(j, lv, hs) ==
  j.pc \in Planning \cup Executing =>
    \A i \in DOMAIN j.plan :
      /\ EntryOK(j, j.plan[i])
      /\ j.plan[i].rec \notin j.touched => EntryFresh(j.plan[i], lv, hs)

(* What a job remembers of a record nobody else wrote is true, and so is   *)
(* what it reports of it.                                                  *)
ReadsOK(j, lv, hs) ==
  /\ j.cmd = "restore" => \A r \in DOMAIN j.docs : Exists(hs[r])
  /\ j.pc \in {"plan_head", "restore_head"} /\ j.rec \notin j.touched => j.live = lv[j.rec]
  /\ j.cmd \in Writers =>
       \A r \in (DOMAIN j.results \cap DOMAIN j.docs) \ j.touched :
         IsThere(j, r, j.results[r], lv, hs)

TagsOK(j, hs, tg) ==
  /\ j.pc = "add_tag" /\ j.rec \notin j.touched => j.head = hs[j.rec]
  /\ j.pc \in {"tag", "add_tag"} \/ j.report = "tagged" =>
       \A r \in Records \ j.touched :
         \/ j.pc # "done" /\ r \in j.todo
         \/ j.pc = "add_tag" /\ r = j.rec
         \/ Exists(hs[r]) => <<r, hs[r].seq>> \in tg

(* What a report says.                                                     *)
ReportOK(j) ==
  /\ j.cmd \in Writers /\ (j.dry \/ j.blocked # {}) => j.wrote = {}
  /\ j.report \in Successes \cup {"partial"} =>
       /\ j.cmd \in Writers
       /\ DOMAIN j.docs \subseteq DOMAIN j.results \cup j.failed \cup j.pending
       /\ DOMAIN j.results \cap (j.failed \cup j.pending) = {}
       /\ j.failed \cap j.pending = {}
       /\ Claimed(j) \subseteq j.wrote
       /\ j.wrote \subseteq Claimed(j) \cup j.failed \cup j.pending
  /\ j.report \in Successes => j.failed = {} /\ j.pending = {}

JobOK(j, lv, hs, tg) ==
  /\ j \in Job /\ PcOK(j) /\ WroteOK(j) /\ CountsOK(j) /\ ReportOK(j)
  /\ PlanOK(j, lv, hs) /\ ReadsOK(j, lv, hs) /\ TagsOK(j, hs, tg)

JobsOK ==
  /\ job \in [Operators -> Job]
  /\ \A o \in Operators : JobOK(job[o], live, heads, tags)

IInv == StoreOK /\ JobsOK

-----------------------------------------------------------------------------
(***************************************************************************)
(* Lemmas about data.                                                      *)
(***************************************************************************)

(* f with one more, or another, value.                                     *)
IsWith(new, f, x, y) ==
  /\ DOMAIN new = DOMAIN f \cup {x}
  /\ new[x] = y
  /\ \A z \in DOMAIN f \ {x} : new[z] = f[z]

(* An entry more leaves a map of its type.                                 *)
LEMMA WithIsPartial ==
  ASSUME NEW S, NEW T, NEW f \in Partial(S, T), NEW x \in S, NEW y \in T
  PROVE  With(f, x, y) \in Partial(S, T) /\ IsWith(With(f, x, y), f, x, y)
<1>1. PICK D \in SUBSET S : f \in [D -> T]
  BY DEF Partial
<1>2. With(f, x, y) \in [D \cup {x} -> T]
  BY <1>1 DEF With
<1>3. D \cup {x} \in SUBSET S
  OBVIOUS
<1>. QED
  BY <1>1, <1>2, <1>3 DEF Partial, With, IsWith

(* The empty map, the values of a map, and functions on a part of the      *)
(* keys.                                                                   *)
LEMMA PartialFacts ==
  ASSUME NEW S, NEW T
  PROVE  /\ Nothing \in Partial(S, T) /\ DOMAIN Nothing = {}
         /\ \A f \in Partial(S, T) : DOMAIN f \subseteq S /\ \A x \in DOMAIN f : f[x] \in T
         /\ \A D \in SUBSET S : \A f \in [D -> T] : f \in Partial(S, T)
<1>1. Nothing \in [{} -> T]
  BY DEF Nothing
<1>2. {} \in SUBSET S
  OBVIOUS
<1>. QED
  BY <1>1, <1>2 DEF Partial, Nothing

(* A plan is about records.                                                *)
LEMMA PlanRecords ==
  ASSUME NEW s \in Seq(PlanEntry)
  PROVE  RecordsOf(s) \subseteq Records /\ \A i \in DOMAIN s : s[i] \in PlanEntry
<1>1. \A i \in DOMAIN s : s[i] \in PlanEntry
  OBVIOUS
<1>2. \A e \in PlanEntry : e.rec \in Records
  BY DEF PlanEntry
<1>. QED
  BY <1>1, <1>2 DEF RecordsOf

(* The rest of a plan has its other records.                               *)
LEMMA TailPlan ==
  ASSUME NEW s \in Seq(PlanEntry), s # <<>>
  PROVE  /\ Head(s) = s[1] /\ 1 \in DOMAIN s /\ Head(s) \in PlanEntry
         /\ Head(s).rec \in RecordsOf(s)
         /\ Tail(s) \in Seq(PlanEntry)
         /\ \A i \in DOMAIN Tail(s) : i + 1 \in DOMAIN s /\ Tail(s)[i] = s[i + 1]
         /\ Distinct(s) => /\ RecordsOf(Tail(s)) = RecordsOf(s) \ {Head(s).rec}
                           /\ Distinct(Tail(s))
<1>1. /\ Len(s) \in Nat \ {0} /\ DOMAIN s = 1 .. Len(s) /\ Head(s) = s[1]
      /\ Head(s) \in PlanEntry /\ Tail(s) \in Seq(PlanEntry)
      /\ DOMAIN Tail(s) = 1 .. Len(s) - 1
      /\ \A i \in DOMAIN Tail(s) : Tail(s)[i] = s[i + 1]
  OBVIOUS
<1>2. 1 \in DOMAIN s /\ \A i \in DOMAIN Tail(s) : i + 1 \in DOMAIN s /\ i + 1 # 1
  BY <1>1
<1>3. \A i \in DOMAIN s \ {1} : i - 1 \in DOMAIN Tail(s) /\ Tail(s)[i - 1] = s[i]
  <2>1. ASSUME NEW i \in DOMAIN s \ {1}
        PROVE  i - 1 \in DOMAIN Tail(s) /\ (i - 1) + 1 = i
    BY <1>1
  <2>. QED
    BY <1>1, <2>1
<1>4. ASSUME Distinct(s)
      PROVE  RecordsOf(Tail(s)) = RecordsOf(s) \ {Head(s).rec} /\ Distinct(Tail(s))
  <2>1. \A i \in DOMAIN Tail(s) : Tail(s)[i].rec # Head(s).rec
    BY <1>1, <1>2, <1>4 DEF Distinct
  <2>2. RecordsOf(Tail(s)) \subseteq RecordsOf(s) \ {Head(s).rec}
    BY <1>1, <1>2, <2>1 DEF RecordsOf
  <2>3. RecordsOf(s) \ {Head(s).rec} \subseteq RecordsOf(Tail(s))
    BY <1>1, <1>3 DEF RecordsOf
  <2>4. ASSUME NEW i \in DOMAIN Tail(s), NEW k \in DOMAIN Tail(s),
               Tail(s)[i].rec = Tail(s)[k].rec
        PROVE  i = k
    <3>1. i + 1 = k + 1
      BY <1>1, <1>2, <1>4, <2>4 DEF Distinct
    <3>. QED
      BY <1>1, <3>1
  <2>. QED
    BY <2>2, <2>3, <2>4 DEF Distinct
<1>. QED
  BY <1>1, <1>2, <1>4 DEF RecordsOf

(* One more entry, about a record not planned before.                      *)
LEMMA AppendPlan ==
  ASSUME NEW s \in Seq(PlanEntry), NEW e \in PlanEntry, Distinct(s), e.rec \notin RecordsOf(s)
  PROVE  /\ Append(s, e) \in Seq(PlanEntry)
         /\ \A i \in DOMAIN Append(s, e) :
              \/ i \in DOMAIN s /\ Append(s, e)[i] = s[i]
              \/ i \notin DOMAIN s /\ Append(s, e)[i] = e
         /\ RecordsOf(Append(s, e)) = RecordsOf(s) \cup {e.rec}
         /\ Distinct(Append(s, e))
<1>. DEFINE t == Append(s, e)  n == Len(s)
<1>1. /\ t \in Seq(PlanEntry) /\ n \in Nat
      /\ DOMAIN s = 1 .. n /\ DOMAIN t = 1 .. n + 1
      /\ t[n + 1] = e /\ \A i \in 1 .. n : t[i] = s[i]
  OBVIOUS
<1>. HIDE DEF t, n
<1>2. \A i \in 1 .. n + 1 : i \in 1 .. n \/ (i = n + 1 /\ i \notin 1 .. n)
  BY <1>1
<1>3. n + 1 \in DOMAIN t /\ \A i \in DOMAIN s : i \in DOMAIN t
  BY <1>1
<1>4. \A i \in DOMAIN t : \/ i \in DOMAIN s /\ t[i] = s[i]
                          \/ i \notin DOMAIN s /\ i = n + 1 /\ t[i] = e
  BY <1>1, <1>2
<1>5. RecordsOf(t) = RecordsOf(s) \cup {e.rec}
  BY <1>1, <1>3, <1>4 DEF RecordsOf
<1>6. Distinct(t)
  BY <1>4 DEF Distinct, RecordsOf
<1>. QED
  BY <1>1, <1>4, <1>5, <1>6 DEF t

(* The first entry read again.                                             *)
LEMMA ReplacePlan ==
  ASSUME NEW s \in Seq(PlanEntry), s # <<>>, NEW e \in PlanEntry, e.rec = Head(s).rec,
         Distinct(s), NEW t, t = <<e>> \o Tail(s)
  PROVE  /\ t \in Seq(PlanEntry) /\ t # <<>> /\ Head(t) = e
         /\ DOMAIN t = DOMAIN s
         /\ \A i \in DOMAIN t : t[i] = IF i = 1 THEN e ELSE s[i]
         /\ RecordsOf(t) = RecordsOf(s)
         /\ Distinct(t)
<1>1. /\ Len(s) \in Nat \ {0} /\ DOMAIN s = 1 .. Len(s) /\ Head(s) = s[1]
      /\ Tail(s) \in Seq(PlanEntry) /\ Len(Tail(s)) = Len(s) - 1
      /\ \A i \in 1 .. Len(s) - 1 : Tail(s)[i] = s[i + 1]
  OBVIOUS
<1>2. /\ <<e>> \in Seq(PlanEntry) /\ Len(<<e>>) = 1 /\ <<e>>[1] = e
  OBVIOUS
<1>3. /\ t \in Seq(PlanEntry) /\ Len(t) = Len(s) /\ t[1] = e
      /\ \A i \in 2 .. Len(s) : t[i] = Tail(s)[i - 1]
  BY <1>1, <1>2
<1>4. \A i \in 2 .. Len(s) : Tail(s)[i - 1] = s[i]
  <2>1. ASSUME NEW i \in 2 .. Len(s)
        PROVE  i - 1 \in 1 .. Len(s) - 1 /\ (i - 1) + 1 = i
    BY <1>1
  <2>. QED
    BY <1>1, <2>1
<1>5. t # <<>> /\ Head(t) = e /\ DOMAIN t = DOMAIN s
  BY <1>1, <1>3
<1>6. \A i \in DOMAIN t : t[i] = IF i = 1 THEN e ELSE s[i]
  <2>1. \A i \in DOMAIN t \ {1} : i \in 2 .. Len(s)
    BY <1>1, <1>5
  <2>. QED
    BY <1>3, <1>4, <2>1
<1>7. \A i \in DOMAIN t : t[i].rec = s[i].rec
  BY <1>1, <1>6
<1>8. RecordsOf(t) = RecordsOf(s)
  BY <1>5, <1>7 DEF RecordsOf
<1>9. Distinct(t)
  BY <1>5, <1>7 DEF Distinct
<1>. QED
  BY <1>3, <1>5, <1>6, <1>8, <1>9

-----------------------------------------------------------------------------
(***************************************************************************)
(* A record that somebody else writes is forgotten.                        *)
(***************************************************************************)
Rewrites(r, lv, hs, newLv, newHs) ==
  /\ \A x \in Records \ {r} : newLv[x] = lv[x] /\ newHs[x] = hs[x]
  /\ Exists(hs[r]) => Exists(newHs[r])

(* When another one writes a record, a job stays right about all the       *)
(* others: that it was touched says that nothing is known of it.           *)
LEMMA TouchKeeps ==
  ASSUME NEW j, NEW lv, NEW hs, NEW tg, JobOK(j, lv, hs, tg),
         NEW r \in Records, NEW newLv, NEW newHs, Rewrites(r, lv, hs, newLv, newHs)
  PROVE  JobOK(Touch(j, r), newLv, newHs, tg)
<1>. DEFINE k == [j EXCEPT !.touched = @ \cup {r}]
<1>1. j \in Job
  BY DEF JobOK
<1>2. j.docs \in Partial(Records, Doc) /\ DOMAIN j.docs \subseteq Records
  BY <1>1, PartialFacts DEF Job
<1>3. CASE j.pc = "idle"
  <2>1. Touch(j, r) = NoJob /\ j = NoJob
    BY <1>3 DEF Touch, JobOK, PcOK
  <2>2. /\ NoJob.pc = "idle" /\ DOMAIN NoJob.docs = {} /\ DOMAIN NoJob.results = {}
        /\ NoJob.report # "tagged"
    BY NoReport DEF NoJob, Nothing
  <2>3. PlanOK(NoJob, newLv, newHs) /\ ReadsOK(NoJob, newLv, newHs) /\ TagsOK(NoJob, newHs, tg)
    BY <2>2 DEF PlanOK, ReadsOK, TagsOK, Planning, Executing
  <2>. QED
    BY <2>1, <2>3 DEF JobOK
<1>4. CASE j.pc # "idle"
  <2>1. /\ Touch(j, r) = k /\ k \in Job
        /\ k.pc = j.pc /\ k.cmd = j.cmd /\ k.dry = j.dry /\ k.docs = j.docs
        /\ k.todo = j.todo /\ k.rec = j.rec /\ k.live = j.live /\ k.head = j.head
        /\ k.plan = j.plan /\ k.blocked = j.blocked /\ k.results = j.results
        /\ k.failed = j.failed /\ k.pending = j.pending /\ k.report = j.report
        /\ k.wrote = j.wrote /\ k.touched = j.touched \cup {r}
    BY <1>1, <1>4 DEF Touch, Job
  <2>. HIDE DEF k
  <2>2. PcOK(k) /\ WroteOK(k) /\ CountsOK(k) /\ ReportOK(k)
    <3>1. PcOK(k)
      BY <1>4, <2>1 DEF JobOK, PcOK
    <3>2. Claimed(k) = Claimed(j)
      BY <2>1 DEF Claimed
    <3>3. WroteOK(k)
      BY <2>1, <3>2 DEF JobOK, WroteOK
    <3>4. CountsOK(k)
      BY <2>1 DEF JobOK, CountsOK, Accounts, Judged
    <3>5. ReportOK(k)
      BY <2>1, <3>2 DEF JobOK, ReportOK
    <3>. QED
      BY <3>1, <3>3, <3>4, <3>5
  <2>3. PlanOK(k, newLv, newHs)
    <3>. SUFFICES ASSUME k.pc \in Planning \cup Executing, NEW i \in DOMAIN k.plan
                  PROVE  /\ EntryOK(k, k.plan[i])
                         /\ k.plan[i].rec \notin k.touched => EntryFresh(k.plan[i], newLv, newHs)
      BY DEF PlanOK
    <3>1. /\ EntryOK(j, j.plan[i])
          /\ j.plan[i].rec \notin j.touched => EntryFresh(j.plan[i], lv, hs)
      BY <2>1 DEF JobOK, PlanOK
    <3>2. EntryOK(k, k.plan[i])
      BY <2>1, <3>1 DEF EntryOK
    <3>3. j.plan[i].rec \in Records
      BY <1>2, <3>1 DEF EntryOK
    <3>4. k.plan[i].rec \notin k.touched => EntryFresh(k.plan[i], newLv, newHs)
      BY <2>1, <3>1, <3>3 DEF EntryFresh, Rewrites
    <3>. QED
      BY <3>2, <3>4
  <2>4. ReadsOK(k, newLv, newHs)
    <3>1. k.cmd = "restore" => \A x \in DOMAIN k.docs : Exists(newHs[x])
      BY <1>2, <2>1 DEF JobOK, ReadsOK, Rewrites
    <3>2. k.pc \in {"plan_head", "restore_head"} => j.rec \in Records
      BY <2>1 DEF JobOK, PcOK
    <3>3. k.pc \in {"plan_head", "restore_head"} /\ k.rec \notin k.touched =>
            k.live = newLv[k.rec]
      BY <2>1, <3>2 DEF JobOK, ReadsOK, Rewrites
    <3>4. k.cmd \in Writers =>
            \A x \in (DOMAIN k.results \cap DOMAIN k.docs) \ k.touched :
              IsThere(k, x, k.results[x], newLv, newHs)
      BY ZenonT(30), <1>2, <2>1 DEF JobOK, ReadsOK, Rewrites, IsThere
    <3>. QED
      BY <3>1, <3>3, <3>4 DEF ReadsOK
  <2>5. TagsOK(k, newHs, tg)
    <3>1. k.pc = "add_tag" => j.rec \in Records
      BY <2>1 DEF JobOK, PcOK
    <3>2. k.pc = "add_tag" /\ k.rec \notin k.touched => k.head = newHs[k.rec]
      BY <2>1, <3>1 DEF JobOK, TagsOK, Rewrites
    <3>3. ASSUME k.pc \in {"tag", "add_tag"} \/ k.report = "tagged", NEW x \in Records \ k.touched
          PROVE  \/ k.pc # "done" /\ x \in k.todo
                 \/ k.pc = "add_tag" /\ x = k.rec
                 \/ Exists(newHs[x]) => <<x, newHs[x].seq>> \in tg
      <4>1. x \in Records \ j.touched /\ newHs[x] = hs[x]
        BY <2>1 DEF Rewrites
      <4>. QED
        BY <2>1, <3>3, <4>1 DEF JobOK, TagsOK
    <3>. QED
      BY <3>2, <3>3 DEF TagsOK
  <2>. QED
    BY <2>1, <2>2, <2>3, <2>4, <2>5 DEF JobOK
<1>. QED
  BY <1>3, <1>4

(* A job that touches nothing, or only adds a tag, leaves the others as    *)
(* they are.                                                               *)
LEMMA SetKeeps ==
  ASSUME IInv, NEW o \in Operators, NEW k, Set(o, k), UNCHANGED storeVars,
         tags \subseteq tags', JobOK(k, live, heads, tags')
  PROVE  IInv'
<1>1. StoreOK' /\ UNCHANGED <<live, heads, clock>>
  BY DEF IInv, StoreOK, storeVars
<1>2. k \in Job
  BY DEF JobOK
<1>3. job' \in [Operators -> Job] /\ job'[o] = k /\ \A x \in Operators \ {o} : job'[x] = job[x]
  BY <1>2 DEF IInv, JobsOK, Set
<1>4. ASSUME NEW x \in Operators \ {o}
      PROVE  JobOK(job[x], live, heads, tags')
  <2>. DEFINE j == job[x]
  <2>1. JobOK(j, live, heads, tags)
    BY DEF IInv, JobsOK
  <2>. HIDE DEF j
  <2>2. TagsOK(j, heads, tags')
    BY <2>1 DEF JobOK, TagsOK
  <2>3. JobOK(j, live, heads, tags')
    BY <2>1, <2>2 DEF JobOK
  <2>. QED
    BY <2>3 DEF j
<1>5. \A x \in Operators : JobOK(job'[x], live', heads', tags')
  BY <1>1, <1>3, <1>4
<1>. QED
  BY <1>1, <1>3, <1>5 DEF IInv, JobsOK

(* A write of one job is one of somebody else's to the others.             *)
LEMMA SetWroteKeeps ==
  ASSUME IInv, NEW o \in Operators, NEW r \in Records, NEW k,
         SetWrote(o, k, r), StoreOK', Rewrites(r, live, heads, live', heads'),
         UNCHANGED <<clock, tags>>,
         JobOK([k EXCEPT !.wrote = @ \cup {r}], live', heads', tags)
  PROVE  IInv'
<1>. DEFINE w == [k EXCEPT !.wrote = @ \cup {r}]
<1>. HIDE DEF w
<1>1. ASSUME NEW x \in Operators
      PROVE  job'[x] = IF x = o THEN w ELSE Touch(job[x], r)
  BY DEF SetWrote, w
<1>2. ASSUME NEW x \in Operators
      PROVE  JobOK(job'[x], live', heads', tags)
  <2>1. JobOK(job[x], live, heads, tags)
    BY DEF IInv, JobsOK
  <2>2. JobOK(Touch(job[x], r), live', heads', tags)
    BY <2>1, TouchKeeps
  <2>3. JobOK(w, live', heads', tags)
    BY DEF w
  <2>. QED
    BY <1>1, <2>2, <2>3
<1>3. job' = [x \in Operators |-> job'[x]]
  BY DEF SetWrote
<1>4. job' \in [Operators -> Job]
  BY <1>2, <1>3 DEF JobOK
<1>. QED
  BY <1>2, <1>4 DEF IInv, JobsOK

-----------------------------------------------------------------------------
(***************************************************************************)
(* Executing a plan.  The first entry is done with: its record, r, is in   *)
(* the report, or failed; it may have been written.                        *)
(***************************************************************************)
NotedIt(j, k, r, state) ==
  /\ k.results = With(j.results, r, state) /\ k.failed = j.failed
  /\ k.wrote = IF state \in Claims THEN j.wrote \cup {r} ELSE j.wrote

FailedIt(j, k, r) ==
  /\ j.cmd = "restore"
  /\ k.results = j.results /\ k.failed = j.failed \cup {r}
  /\ k.wrote \in {j.wrote, j.wrote \cup {r}}

GoesOn(j, k) ==
  /\ k \in Job
  /\ k.pc = "write" /\ k.cmd = j.cmd /\ k.dry = j.dry /\ k.docs = j.docs /\ k.todo = j.todo
  /\ k.plan = Tail(j.plan) /\ k.blocked = j.blocked /\ k.pending = j.pending
  /\ k.report = j.report /\ k.touched = j.touched

(* A job stays right when it has written the first record of its plan, or  *)
(* found it done, or failed at it.                                         *)
LEMMA ExecKeeps ==
  ASSUME NEW j, NEW lv, NEW hs, NEW tg, JobOK(j, lv, hs, tg),
         j.pc \in Executing, j.plan # <<>>,
         NEW newLv, NEW newHs, NEW r, r = Head(j.plan).rec, Rewrites(r, lv, hs, newLv, newHs),
         NEW k, GoesOn(j, k), NEW state \in States,
         \/ NotedIt(j, k, r, state) /\ (r \in j.touched \/ IsThere(j, r, state, newLv, newHs))
         \/ FailedIt(j, k, r)
  PROVE  JobOK(k, newLv, newHs, tg)
<1>1. j \in Job /\ k \in Job /\ k.pc = "write" /\ Accounts(j) /\ j.cmd \in Writers
  BY DEF JobOK, CountsOK, PcOK, GoesOn
<1>2. /\ j.plan \in Seq(PlanEntry)
      /\ j.docs \in Partial(Records, Doc) /\ DOMAIN j.docs \subseteq Records
      /\ j.results \in Partial(Records, States) /\ DOMAIN j.results \subseteq Records
  BY <1>1, PartialFacts DEF Job
<1>3. /\ r \in RecordsOf(j.plan) /\ r \in Records
      /\ RecordsOf(k.plan) = RecordsOf(j.plan) \ {r} /\ Distinct(k.plan)
      /\ \A i \in DOMAIN k.plan : i + 1 \in DOMAIN j.plan /\ k.plan[i] = j.plan[i + 1]
  <2>1. Distinct(j.plan) /\ k.plan = Tail(j.plan)
    BY <1>1 DEF Accounts, GoesOn
  <2>2. Head(j.plan) \in PlanEntry
    BY <1>2, TailPlan
  <2>3. r \in Records
    BY <2>2 DEF PlanEntry
  <2>. QED
    BY <1>2, <2>1, <2>3, TailPlan
<1>4. r \notin DOMAIN j.results /\ r \notin j.failed
  BY <1>1, <1>3 DEF Accounts
<1>5. /\ ~j.dry /\ j.blocked = {} /\ j.todo = {}
      /\ Claimed(j) \subseteq j.wrote /\ j.wrote \subseteq Claimed(j) \cup j.failed
      /\ j.cmd = "commit" => j.failed = {}
  BY <1>1 DEF JobOK, WroteOK
<1>6. NotedIt(j, k, r, state) =>
        /\ DOMAIN k.results = DOMAIN j.results \cup {r} /\ k.results[r] = state
        /\ \A x \in DOMAIN j.results : k.results[x] = j.results[x]
  <2>1. j.results \in Partial(Records, States) /\ r \in Records
    BY <1>2, <1>3
  <2>2. IsWith(With(j.results, r, state), j.results, r, state)
    BY <2>1, WithIsPartial
  <2>. QED
    BY <1>4, <2>2 DEF NotedIt, IsWith
<1>7. k.report = None /\ PcOK(k)
  BY <1>1 DEF JobOK, PcOK, GoesOn, Planning, Executing, Looking
<1>8. Accounts(k)
  <2>1. Judged(k) = {} /\ Judged(j) = {} /\ k.todo = {}
    BY <1>1, <1>5 DEF Judged, GoesOn, Executing
  <2>2. DOMAIN k.results \cup k.failed = DOMAIN j.results \cup j.failed \cup {r}
        /\ DOMAIN k.results \cap k.failed = {}
    BY <1>1, <1>4, <1>6 DEF Accounts, NotedIt, FailedIt
  <2>3. r \notin RecordsOf(k.plan)
    BY <1>3
  <2>. QED
    BY <1>1, <1>3, <1>5, <2>1, <2>2, <2>3 DEF Accounts, GoesOn
<1>9. WroteOK(k)
  <2>1. CASE NotedIt(j, k, r, state)
    <3>1. Claimed(k) = Claimed(j) \cup (IF state \in Claims THEN {r} ELSE {})
      BY <1>4, <1>6, <2>1 DEF Claimed, Claims
    <3>2. Claimed(k) \subseteq k.wrote /\ k.wrote \subseteq Claimed(k) \cup k.failed
      BY <1>5, <2>1, <3>1 DEF NotedIt
    <3>. QED
      BY <1>1, <1>5, <2>1, <3>2 DEF WroteOK, NotedIt, GoesOn, Planning, Executing
  <2>2. CASE FailedIt(j, k, r)
    <3>1. Claimed(k) = Claimed(j)
      BY <2>2 DEF Claimed, FailedIt
    <3>2. Claimed(k) \subseteq k.wrote /\ k.wrote \subseteq Claimed(k) \cup k.failed
      BY <1>5, <2>2, <3>1 DEF FailedIt
    <3>. QED
      BY <1>1, <1>5, <2>2, <3>2 DEF WroteOK, FailedIt, GoesOn, Planning, Executing
  <2>. QED
    BY <2>1, <2>2
<1>10. CountsOK(k)
  BY <1>1, <1>8 DEF CountsOK
<1>11. ReportOK(k)
  BY <1>5, <1>7, NoReport DEF ReportOK, GoesOn, Successes
<1>12. PlanOK(k, newLv, newHs)
  <2>. SUFFICES ASSUME NEW i \in DOMAIN k.plan
                PROVE  /\ EntryOK(k, k.plan[i])
                       /\ k.plan[i].rec \notin k.touched => EntryFresh(k.plan[i], newLv, newHs)
    BY DEF PlanOK
  <2>. DEFINE p == k.plan[i]
  <2>1. /\ EntryOK(j, p)
        /\ p.rec \notin j.touched => EntryFresh(p, lv, hs)
    BY <1>1, <1>3 DEF JobOK, PlanOK
  <2>2. p.rec # r
    BY <1>3 DEF RecordsOf
  <2>. HIDE DEF p
  <2>3. p.rec \in Records
    BY <1>2, <2>1 DEF EntryOK
  <2>4. EntryOK(k, p)
    BY <2>1 DEF EntryOK, GoesOn
  <2>5. p.rec \notin k.touched => EntryFresh(p, newLv, newHs)
    BY <2>1, <2>2, <2>3 DEF EntryFresh, Rewrites, GoesOn
  <2>. QED
    BY <2>4, <2>5 DEF p
<1>13. ReadsOK(k, newLv, newHs)
  <2>1. k.cmd = "restore" => \A x \in DOMAIN k.docs : Exists(newHs[x])
    BY <1>2 DEF JobOK, ReadsOK, Rewrites, GoesOn
  <2>2. ASSUME NEW x \in (DOMAIN k.results \cap DOMAIN k.docs) \ k.touched
        PROVE  IsThere(k, x, k.results[x], newLv, newHs)
    <3>1. x \in Records /\ x \in DOMAIN j.docs /\ x \notin j.touched
      BY <1>2 DEF GoesOn
    <3>2. CASE x \in DOMAIN j.results
      <4>1. IsThere(j, x, j.results[x], lv, hs)
        BY <1>1, <3>1, <3>2 DEF JobOK, ReadsOK
      <4>2. newLv[x] = lv[x] /\ newHs[x] = hs[x]
        BY <1>4, <3>1, <3>2 DEF Rewrites
      <4>. QED
        BY <1>4, <1>6, <3>2, <4>1, <4>2 DEF IsThere, GoesOn, FailedIt
    <3>3. CASE x \notin DOMAIN j.results
      <4>1. NotedIt(j, k, r, state) /\ x = r
        BY <1>6, <3>3 DEF FailedIt
      <4>2. IsThere(j, r, state, newLv, newHs)
        BY <1>4, <3>1, <4>1 DEF FailedIt
      <4>. QED
        BY <1>6, <4>1, <4>2 DEF IsThere, GoesOn
    <3>. QED
      BY <3>2, <3>3
  <2>. QED
    BY <1>1, <2>1, <2>2 DEF ReadsOK
<1>14. TagsOK(k, newHs, tg)
  BY <1>1, <1>7, NoReport DEF TagsOK
<1>. QED
  BY <1>1, <1>7, <1>9, <1>10, <1>11, <1>12, <1>13, <1>14 DEF JobOK

-----------------------------------------------------------------------------
(***************************************************************************)
(* Returning.                                                              *)
(***************************************************************************)
LEMMA ReturnFields ==
  ASSUME NEW j \in Job, NEW state \in Reports, NEW k, k = Returned(j, state)
  PROVE  /\ k \in Job /\ k.pc = "done" /\ k.report = state /\ k.plan = <<>> /\ k.todo = {}
         /\ k.cmd = j.cmd /\ k.dry = j.dry /\ k.docs = j.docs /\ k.blocked = j.blocked
         /\ k.results = j.results /\ k.failed = j.failed /\ k.pending = j.pending
         /\ k.wrote = j.wrote /\ k.touched = j.touched
<1>1. NoHead \in HeadType /\ <<>> \in Seq(PlanEntry)
  BY DEF NoHead, HeadType
<1>. QED
  BY <1>1 DEF Returned, Job, Pcs

(* A job that has ended right is right.                                    *)
LEMMA ReturnKeeps ==
  ASSUME NEW k \in Job, k.pc = "done", NEW lv, NEW hs, NEW tg,
         ReadsOK(k, lv, hs), ReportOK(k), TagsOK(k, hs, tg)
  PROVE  JobOK(k, lv, hs, tg)
<1>1. PcOK(k) /\ WroteOK(k) /\ CountsOK(k) /\ PlanOK(k, lv, hs)
  BY DEF PcOK, WroteOK, CountsOK, PlanOK, Planning, Executing, Looking
<1>. QED
  BY <1>1 DEF JobOK

(* At the end of the plan.                                                 *)
LEMMA EndKeeps ==
  ASSUME NEW j, NEW lv, NEW hs, NEW tg, JobOK(j, lv, hs, tg),
         j.pc \in Executing, j.plan = <<>>,
         NEW state \in Successes \cup {"partial"}, state \in Successes => j.failed = {}
  PROVE  JobOK(Returned(j, state), lv, hs, tg)
<1>. DEFINE k == Returned(j, state)
<1>1. j \in Job /\ Accounts(j) /\ j.cmd \in Writers /\ state \in Reports
  BY DEF JobOK, CountsOK, PcOK, Reports
<1>2. /\ k \in Job /\ k.pc = "done" /\ k.report = state
      /\ k.cmd = j.cmd /\ k.dry = j.dry /\ k.docs = j.docs /\ k.blocked = j.blocked
      /\ k.results = j.results /\ k.failed = j.failed /\ k.pending = j.pending
      /\ k.wrote = j.wrote /\ k.touched = j.touched
  BY <1>1, ReturnFields
<1>. HIDE DEF k
<1>3. /\ ~j.dry /\ j.blocked = {} /\ j.todo = {} /\ Judged(j) = {} /\ RecordsOf(j.plan) = {}
      /\ Claimed(j) \subseteq j.wrote /\ j.wrote \subseteq Claimed(j) \cup j.failed
  BY <1>1 DEF JobOK, WroteOK, RecordsOf, Judged, Executing
<1>4. Claimed(k) = Claimed(j)
  BY <1>2 DEF Claimed
<1>5. ReportOK(k)
  BY <1>1, <1>2, <1>3, <1>4 DEF ReportOK, Accounts
<1>6. ReadsOK(k, lv, hs)
  BY <1>2 DEF JobOK, ReadsOK, IsThere
<1>7. TagsOK(k, hs, tg)
  BY <1>2 DEF TagsOK, Successes
<1>. QED
  BY <1>2, <1>5, <1>6, <1>7, ReturnKeeps DEF k

(* An exception, or an interrupt, in the middle of it, with or without     *)
(* the record at hand written.                                             *)
LEMMA StopKeeps ==
  ASSUME NEW j, NEW lv, NEW hs, NEW tg, JobOK(j, lv, hs, tg),
         j.pc = "write", j.cmd = "commit", j.plan # <<>>,
         NEW newLv, NEW newHs, NEW r, r = Head(j.plan).rec, Rewrites(r, lv, hs, newLv, newHs),
         NEW stopped, stopped = Failed(j) \/ stopped = Cancelled(j)
  PROVE  /\ JobOK(stopped, newLv, newHs, tg)
         /\ JobOK([stopped EXCEPT !.wrote = @ \cup {r}], newLv, newHs, tg)
<1>. SUFFICES ASSUME NEW k \in {stopped, [stopped EXCEPT !.wrote = @ \cup {r}]}
              PROVE  JobOK(k, newLv, newHs, tg)
  OBVIOUS
<1>1. j \in Job /\ Accounts(j) /\ "partial" \in Reports /\ j.pc \in Executing
  BY DEF JobOK, CountsOK, Reports, Executing
<1>2. /\ j.plan \in Seq(PlanEntry)
      /\ j.docs \in Partial(Records, Doc) /\ DOMAIN j.docs \subseteq Records
      /\ j.results \in Partial(Records, States) /\ DOMAIN j.results \subseteq Records
  BY <1>1, PartialFacts DEF Job
<1>3. /\ r \in RecordsOf(j.plan) /\ r \in Records /\ Head(j.plan).rec \in Records
      /\ RecordsOf(Tail(j.plan)) = RecordsOf(j.plan) \ {r}
  <2>1. Distinct(j.plan)
    BY <1>1 DEF Accounts
  <2>2. Head(j.plan) \in PlanEntry
    BY <1>2, TailPlan
  <2>3. Head(j.plan).rec \in Records
    BY <2>2 DEF PlanEntry
  <2>. QED
    BY <1>2, <2>1, <2>3, TailPlan
<1>4. RecordsOf(j.plan) \subseteq Records
  BY <1>2, PlanRecords
<1>5. /\ ~j.dry /\ j.blocked = {} /\ j.todo = {} /\ Judged(j) = {} /\ j.failed = {}
      /\ Claimed(j) \subseteq j.wrote /\ j.wrote \subseteq Claimed(j) \cup j.failed
  BY <1>1 DEF JobOK, WroteOK, Judged
<1>6. /\ stopped \in Job /\ stopped.pc = "done" /\ stopped.report = "partial"
      /\ stopped.cmd = j.cmd /\ stopped.dry = j.dry /\ stopped.docs = j.docs
      /\ stopped.blocked = j.blocked /\ stopped.results = j.results
      /\ stopped.touched = j.touched /\ stopped.wrote = j.wrote
      /\ \/ stopped.failed = {r} /\ stopped.pending = RecordsOf(j.plan) \ {r}
         \/ stopped.failed = {} /\ stopped.pending = RecordsOf(j.plan)
  <2>1. CASE stopped = Failed(j)
    <3>. DEFINE f == [j EXCEPT !.failed = {Head(j.plan).rec}, !.pending = RecordsOf(Tail(j.plan))]
    <3>1. f \in Job /\ f.cmd = j.cmd /\ f.dry = j.dry /\ f.docs = j.docs
          /\ f.blocked = j.blocked /\ f.results = j.results /\ f.touched = j.touched
          /\ f.wrote = j.wrote /\ f.failed = {r} /\ f.pending = RecordsOf(j.plan) \ {r}
      BY <1>1, <1>3, <1>4 DEF Job
    <3>2. stopped = Returned(f, "partial")
      BY <2>1 DEF Failed
    <3>. HIDE DEF f
    <3>. QED
      BY <1>1, <3>1, <3>2, ReturnFields
  <2>2. CASE stopped = Cancelled(j)
    <3>. DEFINE f == [j EXCEPT !.pending = RecordsOf(j.plan)]
    <3>1. f \in Job /\ f.cmd = j.cmd /\ f.dry = j.dry /\ f.docs = j.docs
          /\ f.blocked = j.blocked /\ f.results = j.results /\ f.touched = j.touched
          /\ f.wrote = j.wrote /\ f.failed = {} /\ f.pending = RecordsOf(j.plan)
      BY <1>1, <1>4, <1>5 DEF Job
    <3>2. stopped = Returned(f, "partial")
      BY <2>2 DEF Cancelled
    <3>. HIDE DEF f
    <3>. QED
      BY <1>1, <3>1, <3>2, ReturnFields
  <2>. QED
    BY <2>1, <2>2
<1>7. /\ k \in Job /\ k.pc = "done" /\ k.report = "partial"
      /\ k.cmd = j.cmd /\ k.dry = j.dry /\ k.docs = j.docs /\ k.blocked = j.blocked
      /\ k.results = j.results /\ k.touched = j.touched
      /\ k.failed = stopped.failed /\ k.pending = stopped.pending
      /\ k.wrote \in {j.wrote, j.wrote \cup {r}}
  <2>1. CASE k = stopped
    BY <1>6, <2>1
  <2>2. CASE k = [stopped EXCEPT !.wrote = @ \cup {r}]
    BY <1>3, <1>6, <2>2 DEF Job
  <2>. QED
    BY <2>1, <2>2
<1>8. ReportOK(k)
  <2>1. Claimed(k) = Claimed(j)
    BY <1>7 DEF Claimed
  <2>2. k.failed \cup k.pending = RecordsOf(j.plan) /\ k.failed \cap k.pending = {}
    BY <1>3, <1>6, <1>7
  <2>3. DOMAIN j.docs \subseteq DOMAIN j.results \cup RecordsOf(j.plan)
        /\ DOMAIN j.results \cap RecordsOf(j.plan) = {}
    BY <1>1, <1>5 DEF Accounts
  <2>. QED
    BY <1>3, <1>5, <1>7, <2>1, <2>2, <2>3 DEF ReportOK, Writers, Successes
<1>9. ReadsOK(k, newLv, newHs)
  <2>1. ASSUME NEW x \in (DOMAIN k.results \cap DOMAIN k.docs) \ k.touched
        PROVE  IsThere(k, x, k.results[x], newLv, newHs)
    <3>1. x # r /\ x \in Records /\ x \in (DOMAIN j.results \cap DOMAIN j.docs) \ j.touched
      BY <1>1, <1>2, <1>3, <1>7 DEF Accounts
    <3>2. IsThere(j, x, j.results[x], lv, hs)
      BY <3>1 DEF JobOK, ReadsOK, Writers
    <3>. QED
      BY <1>7, <3>1, <3>2 DEF IsThere, Rewrites
  <2>. QED
    BY <1>7, <2>1 DEF ReadsOK
<1>10. TagsOK(k, newHs, tg)
  BY <1>7 DEF TagsOK
<1>. QED
  BY <1>7, <1>8, <1>9, <1>10, ReturnKeeps

-----------------------------------------------------------------------------
(***************************************************************************)
(* What the transactions of these operations write.                        *)
(***************************************************************************)
LEMMA HeadEntry ==
  ASSUME NEW j, NEW lv, NEW hs, NEW tg, JobOK(j, lv, hs, tg),
         j.pc \in Executing, j.plan # <<>>, NEW p, p = Head(j.plan)
  PROVE  /\ p \in PlanEntry /\ p.rec \in Records /\ p.doc \in Doc
         /\ EntryOK(j, p)
         /\ p.rec \notin j.touched => EntryFresh(p, lv, hs)
         /\ p.rec \in DOMAIN j.docs /\ p.doc = j.docs[p.rec]
         /\ j.cmd \in Writers
<1>1. j \in Job /\ j.plan \in Seq(PlanEntry)
  BY DEF JobOK, Job
<1>2. 1 \in DOMAIN j.plan /\ j.plan[1] = p /\ p \in PlanEntry
  BY <1>1, TailPlan
<1>3. EntryOK(j, p) /\ (p.rec \notin j.touched => EntryFresh(p, lv, hs))
  BY <1>2 DEF JobOK, PlanOK
<1>4. p.rec \in Records /\ p.doc \in Doc
  BY <1>2 DEF PlanEntry
<1>5. j.cmd \in Writers
  BY DEF JobOK, PcOK
<1>. QED
  BY <1>2, <1>3, <1>4, <1>5 DEF EntryOK

(* The item made of an entry of a plan is one Store takes.                 *)
LEMMA EntryIsGood ==
  ASSUME NEW p \in PlanEntry, NEW op \in {"commit", "restore"}
  PROVE  GoodItem(BulkItem(p, op))
<1>1. p.doc \in Doc /\ p.head \in HeadType /\ p.from \in Nat /\ p.seed \in BOOLEAN
  BY DEF PlanEntry
<1>2. p.head.oid \in Bodies \cup {None} /\ op \in OpNames
  BY <1>1 DEF HeadType, OpNames
<1>3. StoredDoc(p.doc) \in Doc /\ HashDoc(p.doc) \in Bodies
  BY <1>1, StoredIsDoc
<1>. QED
  BY <1>1, <1>2, <1>3 DEF GoodItem, BulkItem, Row

(* Where the transaction of an entry goes through, it writes the record    *)
(* from the HEAD the plan read, and the record then is as planned.         *)
LEMMA EntryApplies ==
  ASSUME StoreOK, NEW j, NEW tg, JobOK(j, live, heads, tg),
         j.pc \in Executing, j.plan # <<>>, NEW p, p = Head(j.plan),
         NEW op \in {"commit", "restore"}, Apply(p.rec, BulkItem(p, op))
  PROVE  /\ StoreOK' /\ UNCHANGED clock
         /\ Rewrites(p.rec, live, heads, live', heads')
         /\ \A state \in Claims : IsThere(j, p.rec, state, live', heads')
         /\ heads[p.rec].oid = p.head.oid
         /\ heads'[p.rec].oid = HashDoc(p.doc)
<1>. DEFINE r == p.rec  item == BulkItem(p, op)
<1>1. p \in PlanEntry /\ r \in Records /\ p.doc \in Doc /\ p.doc = j.docs[r]
  BY HeadEntry
<1>2. /\ item.newDoc = p.doc /\ item.entry.oid = HashDoc(p.doc)
      /\ item.expectedHead = p.head.oid /\ item.seed = p.seed
  BY DEF BulkItem
<1>3. GoodItem(item)
  BY <1>1, EntryIsGood
<1>4. Apply(r, item)
  OBVIOUS
<1>. HIDE DEF item
<1>5. StoreOK' /\ UNCHANGED clock
  BY <1>1, <1>3, <1>4, ApplyStep DEF Apply
<1>6. /\ heads'[r] = [oid |-> HashDoc(p.doc), seq |-> heads[r].seq + 1]
      /\ heads[r].oid = p.head.oid
      /\ live'[r] = LiveAfter(r, item)
      /\ \A x \in Records \ {r} : live'[x] = live[x] /\ heads'[x] = heads[x]
  BY <1>1, <1>2, <1>4, ApplyChanges
<1>7. p.doc # None /\ HashDoc(p.doc) # None
  BY <1>1, StoredIsDoc
<1>8. live'[r] \in Doc /\ HashDoc(live'[r]) = RuntimeBody[HashDoc(p.doc)]
  <2>1. CASE p.seed
    BY <1>1, <1>2, <1>6, <1>7, <2>1, RuntimeIsDoc DEF LiveAfter
  <2>2. CASE ~p.seed
    <3>1. live[r] \in Doc
      <4>1. live[r] # None
        BY <1>2, <1>4, <1>7, <2>2 DEF Apply, CanApply, Writable
      <4>. QED
        BY <1>1, <4>1 DEF StoreOK
    <3>2. live'[r] = PutRecord(live[r], p.doc)
      BY <1>2, <1>6, <1>7, <2>2 DEF LiveAfter
    <3>. QED
      BY <1>1, <3>1, <3>2, PutIsDoc
  <2>. QED
    BY <2>1, <2>2
<1>9. live'[r] # None
  BY <1>8, StoredIsDoc
<1>10. heads[r].seq \in Nat
  BY <1>1 DEF StoreOK, HeadType
<1>11. Exists(heads'[r])
  BY <1>6, <1>10 DEF Exists
<1>12. Rewrites(r, live, heads, live', heads')
  BY <1>6, <1>11 DEF Rewrites
<1>13. \A state \in Claims : IsThere(j, r, state, live', heads')
  BY <1>1, <1>6, <1>8, <1>9 DEF IsThere
<1>. QED
  BY <1>5, <1>6, <1>12, <1>13

(* A bulk commit writes what a commit of the main line does.               *)
LEMMA WriteIsCommit ==
  ASSUME StoreOK, NEW j, NEW tg, JobOK(j, live, heads, tg),
         j.pc = "write", j.cmd = "commit", j.plan # <<>>, NEW p, p = Head(j.plan),
         p.state = "ready", Apply(p.rec, BulkItem(p, "commit"))
  PROVE  Commit(p.rec, p.doc, p.from) /\ p.doc \in Doc /\ p.from \in 0 .. MaxClock
<1>. DEFINE r == p.rec  item == BulkItem(p, "commit")
<1>1. p \in PlanEntry /\ r \in Records /\ p.doc \in Doc /\ EntryOK(j, p)
  BY HeadEntry DEF Executing
<1>2. /\ ~p.seed /\ p.live # None /\ HashDoc(p.doc) # p.head.oid /\ p.from <= MaxClock
      /\ Exists(p.head) <=> p.head.oid # None
      /\ Exists(p.head) => HashDoc(p.live) = p.head.oid
  BY <1>1 DEF EntryOK, Drift
<1>3. /\ item = [newDoc |-> p.doc,
                 entry |-> [oid |-> HashDoc(p.doc), parent |-> p.head.oid,
                            doc |-> StoredDoc(p.doc), op |-> "commit", from |-> p.from,
                            to |-> None],
                 expectedHead |-> p.head.oid, expectedLive |-> HashDoc(p.live),
                 seed |-> FALSE]
  BY <1>1, <1>2 DEF BulkItem, PlanEntry
<1>4. heads[r].oid = p.head.oid
  BY <1>3 DEF Apply, CanApply, HeadFresh
<1>5. HashDoc(p.live) # None
  BY <1>1, <1>2, StoredIsDoc DEF PlanEntry
<1>6. live[r] # None /\ HashDoc(live[r]) = HashDoc(p.live)
  BY <1>3, <1>5 DEF Apply, CanApply, LiveFresh
<1>7. GetHead(r) = heads[r] /\ (Exists(heads[r]) <=> heads[r].oid # None)
  BY <1>1, GetHeadIsPointer, HeadHasOid
<1>8. item = RecordAndWrite(r, "commit", p.doc, p.from)
  BY <1>3, <1>4, <1>6, <1>7 DEF RecordAndWrite, Entry
<1>9. Open(r)
  BY <1>2, <1>4, <1>6, <1>7 DEF Open, Clean
<1>10. News(r, p.doc)
  BY <1>2, <1>4, <1>7 DEF News
<1>11. p.from \in 0 .. MaxClock
  BY <1>1, <1>2, ClockAssumption DEF PlanEntry, StoreOK
<1>. QED
  BY <1>1, <1>8, <1>9, <1>10, <1>11 DEF Commit

(* A system restore writes what a restore of the main line does, or it     *)
(* inserts where nothing is live.                                          *)
LEMMA RestoreIsRestore ==
  ASSUME StoreOK, NEW j, NEW tg, JobOK(j, live, heads, tg),
         j.pc = "restore_apply", NEW p, p = Head(j.plan), Apply(p.rec, BulkItem(p, "restore"))
  PROVE  /\ Restore(p.rec, p.doc, p.from) \/ Seed(p.rec, p.doc, p.from)
         /\ p.doc \in Doc /\ p.from \in 0 .. MaxClock
<1>. DEFINE r == p.rec  item == BulkItem(p, "restore")
<1>1. j.plan # <<>> /\ j.cmd = "restore" /\ (p.live # None \/ p.seed)
  BY DEF JobOK, PcOK
<1>2. p \in PlanEntry /\ r \in Records /\ p.doc \in Doc /\ EntryOK(j, p)
      /\ r \in DOMAIN j.docs
  BY <1>1, HeadEntry DEF Executing
<1>3. /\ p.from <= MaxClock
      /\ Exists(p.head) <=> p.head.oid # None
      /\ p.live # None /\ Exists(p.head) => HashDoc(p.live) = p.head.oid
  BY <1>2 DEF EntryOK, Drift
<1>. DEFINE entry == [oid |-> HashDoc(p.doc), parent |-> p.head.oid, doc |-> StoredDoc(p.doc),
                      op |-> "restore", from |-> p.from, to |-> None]
<1>4. /\ item.newDoc = p.doc /\ item.entry = entry /\ item.expectedHead = p.head.oid
      /\ item.seed = p.seed
      /\ item.expectedLive = IF p.live = None THEN None ELSE HashDoc(p.live)
      /\ item = [newDoc |-> item.newDoc, entry |-> item.entry,
                 expectedHead |-> item.expectedHead, expectedLive |-> item.expectedLive,
                 seed |-> item.seed]
  BY DEF BulkItem
<1>5. Apply(r, item)
  OBVIOUS
<1>. HIDE DEF item, entry
<1>6. heads[r].oid = p.head.oid
  BY <1>4, <1>5 DEF Apply, CanApply, HeadFresh
<1>7. GetHead(r) = heads[r] /\ (Exists(heads[r]) <=> heads[r].oid # None)
  BY <1>2, GetHeadIsPointer, HeadHasOid
<1>8. Entry(r, "restore", p.doc, p.from) = entry
  BY <1>6, <1>7 DEF Entry, entry
<1>9. p.from \in 0 .. MaxClock
  BY <1>2, <1>3, ClockAssumption DEF PlanEntry, StoreOK
<1>10. p.doc # None
  BY <1>2, StoredIsDoc
<1>11. CASE p.seed
  <2>1. live[r] = None
    BY <1>4, <1>5, <1>10, <1>11 DEF Apply, CanApply, Writable
  <2>2. item.expectedLive = None
    <3>1. item.expectedLive # None => live[r] # None
      BY <1>5 DEF Apply, CanApply, LiveFresh
    <3>. QED
      BY <2>1, <3>1
  <2>3. item.seed = TRUE
    BY <1>2, <1>4, <1>11 DEF PlanEntry
  <2>4. item = SeedItem(r, p.doc, p.from)
    BY <1>4, <1>6, <1>7, <1>8, <2>2, <2>3 DEF SeedItem
  <2>5. Exists(GetHead(r))
    BY <1>1, <1>2, <1>7 DEF JobOK, ReadsOK
  <2>. QED
    BY <1>2, <1>5, <1>9, <2>4, <2>5 DEF Seed
<1>12. CASE ~p.seed
  <2>1. p.live # None /\ HashDoc(p.live) # None
    BY <1>1, <1>2, <1>12, StoredIsDoc DEF PlanEntry
  <2>2. live[r] # None /\ HashDoc(live[r]) = HashDoc(p.live)
    BY <1>4, <1>5, <2>1 DEF Apply, CanApply, LiveFresh
  <2>3. item.seed = FALSE
    BY <1>2, <1>4, <1>12 DEF PlanEntry
  <2>4. item = RecordAndWrite(r, "restore", p.doc, p.from)
    BY <1>4, <1>6, <1>7, <1>8, <2>1, <2>2, <2>3 DEF RecordAndWrite
  <2>5. Open(r)
    BY <1>3, <1>6, <1>7, <2>1, <2>2 DEF Open, Clean
  <2>. QED
    BY <1>2, <1>5, <1>9, <2>4, <2>5 DEF Restore
<1>. QED
  BY <1>11, <1>12

-----------------------------------------------------------------------------
(***************************************************************************)
(* One lemma per action: phase two.                                        *)
(***************************************************************************)
LEMMA NotedFields ==
  ASSUME NEW j \in Job, j.plan # <<>>, NEW state \in States, NEW k, k = Noted(j, state)
  PROVE  /\ k \in Job /\ k.pc = j.pc /\ k.cmd = j.cmd /\ k.dry = j.dry /\ k.docs = j.docs
         /\ k.todo = j.todo /\ k.plan = Tail(j.plan) /\ k.blocked = j.blocked
         /\ k.pending = j.pending /\ k.report = j.report /\ k.touched = j.touched
         /\ k.results = With(j.results, Head(j.plan).rec, state) /\ k.failed = j.failed
         /\ k.wrote = j.wrote
<1>1. j.plan \in Seq(PlanEntry) /\ j.results \in Partial(Records, States)
  BY DEF Job
<1>2. Head(j.plan) \in PlanEntry /\ Tail(j.plan) \in Seq(PlanEntry)
  BY <1>1, TailPlan
<1>3. Head(j.plan).rec \in Records
  BY <1>2 DEF PlanEntry
<1>4. With(j.results, Head(j.plan).rec, state) \in Partial(Records, States)
  BY <1>1, <1>3, WithIsPartial
<1>. QED
  BY <1>2, <1>4 DEF Noted, Job

(* The ghost notes the record at hand.                                     *)
LEMMA WroteFields ==
  ASSUME NEW k \in Job, NEW r \in Records, NEW w, w = [k EXCEPT !.wrote = @ \cup {r}]
  PROVE  /\ w \in Job /\ w.pc = k.pc /\ w.cmd = k.cmd /\ w.dry = k.dry /\ w.docs = k.docs
         /\ w.todo = k.todo /\ w.plan = k.plan /\ w.blocked = k.blocked
         /\ w.pending = k.pending /\ w.report = k.report /\ w.touched = k.touched
         /\ w.results = k.results /\ w.failed = k.failed /\ w.wrote = k.wrote \cup {r}
BY DEF Job

(* commit_many writes the next record of its plan, or fails at it.         *)
LEMMA WriteNextStep ==
  ASSUME IInv, NEW o \in Operators, WriteNext(o)
  PROVE  IInv'
<1>. DEFINE j == job[o]  p == Head(j.plan)  item == BulkItem(p, "commit")
<1>1. /\ StoreOK /\ JobOK(j, live, heads, tags) /\ j \in Job
      /\ j.pc = "write" /\ j.cmd = "commit" /\ j.pc \in Executing /\ UNCHANGED tags
  BY DEF IInv, JobsOK, WriteNext, Executing
<1>2. CASE j.plan = <<>> /\ Set(o, Returned(j, Overall(j))) /\ UNCHANGED storeVars
  <2>1. Overall(j) \in Successes
    BY DEF Overall, Successes
  <2>2. j.failed = {}
    BY <1>1 DEF JobOK, WroteOK
  <2>3. JobOK(Returned(j, Overall(j)), live, heads, tags)
    BY <1>1, <1>2, <2>1, <2>2, EndKeeps
  <2>. QED
    BY <1>1, <1>2, <2>3, SetKeeps
<1>3. CASE j.plan # <<>> /\ p.state = "noop" /\ Set(o, Noted(j, "noop")) /\ UNCHANGED storeVars
  <2>. DEFINE k == Noted(j, "noop")
  <2>1. GoesOn(j, k) /\ NotedIt(j, k, p.rec, "noop")
    BY <1>1, <1>3, NotedFields DEF GoesOn, NotedIt, States, Claims
  <2>2. EntryOK(j, p) /\ (p.rec \notin j.touched => EntryFresh(p, live, heads))
        /\ p.doc = j.docs[p.rec]
    BY <1>1, <1>3, HeadEntry
  <2>3. p.rec \in j.touched \/ IsThere(j, p.rec, "noop", live, heads)
    <3>1. HashDoc(p.doc) # None
      BY <1>1, <1>3, HeadEntry, StoredIsDoc
    <3>. QED
      BY <1>3, <2>2, <3>1 DEF EntryOK, EntryFresh, IsThere, Drift, Claims
  <2>4. Rewrites(p.rec, live, heads, live, heads) /\ "noop" \in States
    BY DEF Rewrites, States
  <2>. HIDE DEF k
  <2>5. JobOK(k, live, heads, tags)
    BY <1>1, <1>3, <2>1, <2>3, <2>4, ExecKeeps
  <2>. QED
    BY <1>1, <1>3, <2>5, SetKeeps DEF k
<1>4. CASE /\ j.plan # <<>> /\ p.state = "ready" /\ Apply(p.rec, item)
           /\ \E k \in {Noted(j, "committed"), Failed(j), Cancelled(j)} : SetWrote(o, k, p.rec)
  <2>1. /\ StoreOK' /\ UNCHANGED clock
        /\ Rewrites(p.rec, live, heads, live', heads')
        /\ IsThere(j, p.rec, "committed", live', heads')
    BY <1>1, <1>4, EntryApplies DEF Claims
  <2>2. p.rec \in Records
    BY <1>1, <1>4, HeadEntry
  <2>3. CASE SetWrote(o, Noted(j, "committed"), p.rec)
    <3>. DEFINE k == Noted(j, "committed")  w == [k EXCEPT !.wrote = @ \cup {p.rec}]
    <3>1. k \in Job /\ GoesOn(j, k) /\ k.wrote = j.wrote /\ k.failed = j.failed
          /\ k.results = With(j.results, p.rec, "committed")
      BY <1>1, <1>4, NotedFields DEF GoesOn, States, Claims
    <3>. HIDE DEF k
    <3>2. GoesOn(j, w) /\ NotedIt(j, w, p.rec, "committed") /\ "committed" \in States
      BY <2>2, <3>1, WroteFields DEF GoesOn, NotedIt, States, Claims
    <3>. HIDE DEF w
    <3>3. JobOK(w, live', heads', tags)
      BY <1>1, <1>4, <2>1, <3>2, ExecKeeps
    <3>. QED
      BY <1>1, <2>1, <2>2, <2>3, <3>3, SetWroteKeeps DEF w, k
  <2>4. ASSUME NEW k \in {Failed(j), Cancelled(j)}, SetWrote(o, k, p.rec)
        PROVE  IInv'
    <3>1. JobOK([k EXCEPT !.wrote = @ \cup {p.rec}], live', heads', tags)
      BY <1>1, <1>4, <2>1, StopKeeps
    <3>. QED
      BY <1>1, <2>1, <2>2, <2>4, <3>1, SetWroteKeeps
  <2>. QED
    BY <1>4, <2>3, <2>4
<1>5. ASSUME j.plan # <<>>, NEW k \in {Failed(j), Cancelled(j)}, Set(o, k), UNCHANGED storeVars
      PROVE  IInv'
  <2>1. Rewrites(p.rec, live, heads, live, heads)
    BY DEF Rewrites
  <2>2. JobOK(k, live, heads, tags)
    BY <1>1, <1>5, <2>1, StopKeeps
  <2>. QED
    BY <1>1, <1>5, <2>2, SetKeeps
<1>. QED
  BY <1>2, <1>3, <1>4, <1>5 DEF WriteNext

(* A job goes back to the plan with what it knows.                         *)
BackTo(j, k) ==
  /\ k \in Job /\ k.pc = "write" /\ k.cmd = j.cmd /\ k.dry = j.dry /\ k.docs = j.docs
  /\ k.todo = j.todo /\ k.plan = j.plan /\ k.blocked = j.blocked
  /\ k.pending = j.pending /\ k.report = j.report /\ k.touched = j.touched
  /\ k.results = j.results /\ k.failed = j.failed /\ k.wrote = j.wrote

(* A restore that leaves a record alone is where it was before it.         *)
LEMMA BackFields ==
  ASSUME NEW j \in Job
  PROVE  /\ BackTo(j, [j EXCEPT !.pc = "write", !.rec = None, !.live = None])
         /\ BackTo(j, [j EXCEPT !.pc = "write", !.rec = None, !.live = None, !.head = NoHead])
<1>1. NoHead \in HeadType /\ "write" \in Pcs
  BY DEF NoHead, HeadType, Pcs, Executing
<1>. QED
  BY <1>1 DEF Job, BackTo

(* A restore takes the next record of its plan and reads its live document *)
(* again.                                                                  *)
LEMMA RestoreLiveStep ==
  ASSUME IInv, NEW o \in Operators, RestoreLive(o)
  PROVE  IInv'
<1>. DEFINE j == job[o]  p == Head(j.plan)
<1>1. /\ JobOK(j, live, heads, tags) /\ j \in Job
      /\ j.pc = "write" /\ j.cmd = "restore" /\ j.pc \in Executing
      /\ UNCHANGED tags /\ UNCHANGED storeVars
  BY DEF IInv, JobsOK, RestoreLive, Executing
<1>. DEFINE r == p.rec
<1>2. CASE j.plan = <<>> /\ Set(o, Returned(j, IF j.failed = {} THEN "restored" ELSE "partial"))
  <2>. DEFINE s == IF j.failed = {} THEN "restored" ELSE "partial"
  <2>1. s \in Successes \cup {"partial"} /\ (s \in Successes => j.failed = {})
    BY DEF Successes
  <2>. HIDE DEF s
  <2>2. JobOK(Returned(j, s), live, heads, tags)
    BY <1>1, <1>2, <2>1, EndKeeps
  <2>. QED
    BY <1>1, <1>2, <2>2, SetKeeps DEF s
<1>3. CASE /\ j.plan # <<>>
           /\ Set(o, [j EXCEPT !.failed = @ \cup {p.rec}, !.plan = Tail(@)])
  <2>. DEFINE k == [j EXCEPT !.failed = @ \cup {p.rec}, !.plan = Tail(@)]
  <2>1. r \in Records /\ Tail(j.plan) \in Seq(PlanEntry)
    <3>1. j.plan \in Seq(PlanEntry)
      BY <1>1 DEF Job
    <3>. QED
      BY <1>1, <1>3, <3>1, HeadEntry, TailPlan
  <2>2. GoesOn(j, k) /\ FailedIt(j, k, r)
    BY <1>1, <2>1 DEF GoesOn, FailedIt, Job
  <2>3. Rewrites(r, live, heads, live, heads) /\ "noop" \in States
    BY DEF Rewrites, States
  <2>. HIDE DEF k
  <2>4. JobOK(k, live, heads, tags)
    BY <1>1, <1>3, <2>2, <2>3, ExecKeeps
  <2>. QED
    BY <1>1, <1>3, <2>4, SetKeeps DEF k
<1>4. CASE /\ j.plan # <<>> /\ (live[p.rec] # None \/ p.seed)
           /\ Set(o, [j EXCEPT !.pc = "restore_head", !.rec = p.rec, !.live = live[p.rec]])
  <2>. DEFINE k == [j EXCEPT !.pc = "restore_head", !.rec = p.rec, !.live = live[p.rec]]
  <2>1. r \in Records /\ live[r] \in Doc \cup {None}
    BY <1>1, <1>4, HeadEntry DEF IInv, StoreOK
  <2>2. /\ k \in Job /\ k.pc = "restore_head" /\ k.rec = r /\ k.live = live[r]
        /\ k.cmd = j.cmd /\ k.dry = j.dry /\ k.docs = j.docs /\ k.todo = j.todo
        /\ k.plan = j.plan /\ k.blocked = j.blocked /\ k.results = j.results
        /\ k.failed = j.failed /\ k.pending = j.pending /\ k.report = j.report
        /\ k.wrote = j.wrote /\ k.touched = j.touched
    BY <1>1, <2>1 DEF Job, Pcs, Executing
  <2>. HIDE DEF k
  <2>3. PcOK(k)
    BY <1>1, <1>4, <2>1, <2>2 DEF JobOK, PcOK, Looking
  <2>4. WroteOK(k) /\ CountsOK(k) /\ ReportOK(k)
    <3>1. Claimed(k) = Claimed(j)
      BY <2>2 DEF Claimed
    <3>2. WroteOK(k)
      BY <1>1, <2>2, <3>1 DEF JobOK, WroteOK, Planning, Executing
    <3>3. CountsOK(k)
      BY <1>1, <2>2 DEF JobOK, CountsOK, Accounts, Judged
    <3>4. ReportOK(k)
      BY <1>1, <2>2, <3>1 DEF JobOK, ReportOK
    <3>. QED
      BY <3>2, <3>3, <3>4
  <2>5. PlanOK(k, live, heads)
    <3>1. ASSUME NEW e, EntryOK(j, e) PROVE EntryOK(k, e)
      BY <2>2, <3>1 DEF EntryOK
    <3>. QED
      BY <1>1, <2>2, <3>1 DEF JobOK, PlanOK
  <2>6. ReadsOK(k, live, heads)
    BY <1>1, <2>2 DEF JobOK, ReadsOK, IsThere
  <2>7. TagsOK(k, heads, tags)
    BY <1>1, <2>2, NoReport DEF JobOK, PcOK, TagsOK
  <2>8. JobOK(k, live, heads, tags)
    BY <2>2, <2>3, <2>4, <2>5, <2>6, <2>7 DEF JobOK
  <2>. QED
    BY <1>1, <1>4, <2>8, SetKeeps DEF k
<1>. QED
  BY <1>2, <1>3, <1>4 DEF RestoreLive

(* It reads HEAD again, and leaves the record alone if it has drifted      *)
(* since.                                                                  *)
LEMMA RestoreHeadStep ==
  ASSUME IInv, NEW o \in Operators, RestoreHead(o)
  PROVE  IInv'
<1>. DEFINE j == job[o]  p == Head(j.plan)  r == j.rec  head == GetHead(r)
            back == [j EXCEPT !.pc = "write", !.rec = None, !.live = None]
            e == [p EXCEPT !.live = j.live, !.head = head, !.from = clock]
<1>1. /\ StoreOK /\ JobOK(j, live, heads, tags) /\ j \in Job
      /\ j.pc = "restore_head" /\ j.pc \in Executing
      /\ UNCHANGED tags /\ UNCHANGED storeVars
  BY DEF IInv, JobsOK, RestoreHead, Executing
<1>2. /\ j.cmd = "restore" /\ j.plan # <<>> /\ r = p.rec /\ r \in Records
      /\ j.live # None \/ p.seed
      /\ r \notin j.touched => j.live = live[r]
  BY <1>1 DEF JobOK, PcOK, ReadsOK
<1>3. p \in PlanEntry /\ EntryOK(j, p)
      /\ (r \notin j.touched => EntryFresh(p, live, heads))
  BY <1>1, <1>2, HeadEntry
<1>4. head = heads[r] /\ head \in HeadType /\ (Exists(head) <=> head.oid # None)
  BY <1>1, <1>2, GetHeadIsPointer, HeadHasOid
<1>5. CASE Drift(j.live, head) /\ Set(o, Noted(back, "changed_outside_cfgit"))
  <2>. DEFINE k == Noted(back, "changed_outside_cfgit")
  <2>1. /\ back \in Job /\ back.pc = "write" /\ back.cmd = j.cmd /\ back.dry = j.dry
        /\ back.docs = j.docs /\ back.todo = j.todo /\ back.plan = j.plan
        /\ back.blocked = j.blocked /\ back.pending = j.pending /\ back.report = j.report
        /\ back.touched = j.touched /\ back.results = j.results /\ back.failed = j.failed
        /\ back.wrote = j.wrote
    <3>1. BackTo(j, back)
      BY <1>1, BackFields
    <3>. QED
      BY <3>1 DEF BackTo
  <2>. HIDE DEF back
  <2>2. GoesOn(j, k) /\ NotedIt(j, k, r, "changed_outside_cfgit")
        /\ "changed_outside_cfgit" \in States
    BY <1>2, <2>1, NotedFields DEF GoesOn, NotedIt, States, Claims
  <2>3. r \in j.touched
    BY <1>2, <1>3, <1>4, <1>5 DEF EntryOK, EntryFresh
  <2>4. Rewrites(r, live, heads, live, heads)
    BY DEF Rewrites
  <2>. HIDE DEF k
  <2>5. JobOK(k, live, heads, tags)
    BY <1>1, <1>2, <2>2, <2>3, <2>4, ExecKeeps
  <2>. QED
    BY <1>1, <1>5, <2>5, SetKeeps DEF k
<1>6. CASE /\ ~Drift(j.live, head)
           /\ Set(o, [j EXCEPT !.pc = "restore_apply", !.head = head,
                               !.plan = <<e>> \o Tail(@)])
  <2>. DEFINE plan == <<e>> \o Tail(j.plan)
              k == [j EXCEPT !.pc = "restore_apply", !.head = head, !.plan = plan]
  <2>1. /\ e \in PlanEntry /\ e.rec = r /\ e.state = p.state /\ e.doc = p.doc
        /\ e.live = j.live /\ e.head = head /\ e.from = clock /\ e.seed = p.seed
    <3>1. j.live \in Doc \cup {None} /\ clock \in Nat
      BY <1>1, ClockAssumption DEF Job, StoreOK
    <3>2. p.rec = r
      BY <1>2
    <3>. QED
      BY <1>3, <1>4, <3>1, <3>2 DEF PlanEntry
  <2>2. j.plan \in Seq(PlanEntry) /\ Distinct(j.plan)
    BY <1>1 DEF Job, JobOK, CountsOK, Accounts
  <2>. HIDE DEF e
  <2>3. /\ plan \in Seq(PlanEntry) /\ plan # <<>> /\ Head(plan) = e
        /\ DOMAIN plan = DOMAIN j.plan
        /\ \A i \in DOMAIN plan : plan[i] = IF i = 1 THEN e ELSE j.plan[i]
        /\ RecordsOf(plan) = RecordsOf(j.plan) /\ Distinct(plan)
    BY <1>2, <2>1, <2>2, ReplacePlan
  <2>. HIDE DEF plan
  <2>4. /\ k \in Job /\ k.pc = "restore_apply" /\ k.plan = plan /\ k.rec = j.rec
        /\ k.live = j.live /\ k.cmd = j.cmd /\ k.dry = j.dry /\ k.docs = j.docs
        /\ k.todo = j.todo /\ k.blocked = j.blocked /\ k.results = j.results
        /\ k.failed = j.failed /\ k.pending = j.pending /\ k.report = j.report
        /\ k.wrote = j.wrote /\ k.touched = j.touched
    BY <1>1, <1>4, <2>3 DEF Job, Pcs, Executing
  <2>. HIDE DEF k
  <2>5. PcOK(k)
    BY <1>1, <1>2, <2>1, <2>3, <2>4 DEF JobOK, PcOK, Writers, Looking
  <2>6. WroteOK(k) /\ CountsOK(k) /\ ReportOK(k)
    <3>1. Claimed(k) = Claimed(j)
      BY <2>4 DEF Claimed
    <3>2. WroteOK(k)
      BY <1>1, <2>4, <3>1 DEF JobOK, WroteOK, Planning, Executing
    <3>3. Accounts(j)
      BY <1>1 DEF JobOK, CountsOK
    <3>4. Judged(k) = {} /\ Judged(j) = {}
      BY <1>1, <2>4 DEF Judged
    <3>5. Accounts(k)
      BY <2>3, <2>4, <3>3, <3>4 DEF Accounts
    <3>6. CountsOK(k)
      BY <2>4, <3>5 DEF CountsOK
    <3>7. ReportOK(k)
      BY <1>1, <2>4, <3>1 DEF JobOK, ReportOK
    <3>. QED
      BY <3>2, <3>6, <3>7
  <2>7. PlanOK(k, live, heads)
    <3>1. ASSUME NEW x, EntryOK(j, x) PROVE EntryOK(k, x)
      BY <2>4, <3>1 DEF EntryOK
    <3>2. clock <= MaxClock
      BY <1>1, ClockAssumption DEF StoreOK
    <3>3. EntryOK(j, e)
      <4>1. /\ EntryOK(j, p) /\ p.rec = r /\ j.cmd = "restore"
        BY <1>2, <1>3
      <4>2. e.rec \in DOMAIN j.docs /\ e.doc = j.docs[e.rec] /\ e.from <= MaxClock
        BY <2>1, <3>2, <4>1 DEF EntryOK
      <4>3. (Exists(e.head) <=> e.head.oid # None) /\ ~Drift(e.live, e.head)
        BY <1>4, <1>6, <2>1
      <4>4. e.state = "ready"
        BY <2>1, <4>1 DEF EntryOK
      <4>. QED
        BY <4>1, <4>2, <4>3, <4>4 DEF EntryOK
    <3>4. r \notin j.touched => EntryFresh(e, live, heads)
      BY <1>2, <1>3, <1>4, <2>1 DEF EntryFresh
    <3>5. ASSUME NEW i \in DOMAIN plan
          PROVE  /\ EntryOK(k, plan[i])
                 /\ plan[i].rec \notin k.touched => EntryFresh(plan[i], live, heads)
      <4>1. CASE i = 1
        BY <2>1, <2>3, <2>4, <3>1, <3>3, <3>4, <4>1
      <4>2. CASE i # 1
        <5>1. plan[i] = j.plan[i] /\ i \in DOMAIN j.plan
          BY <2>3, <4>2
        <5>2. /\ EntryOK(j, j.plan[i])
              /\ j.plan[i].rec \notin j.touched => EntryFresh(j.plan[i], live, heads)
          BY <1>1, <5>1 DEF JobOK, PlanOK
        <5>. QED
          BY <2>4, <3>1, <5>1, <5>2
      <4>. QED
        BY <4>1, <4>2
    <3>. QED
      BY <2>4, <3>5 DEF PlanOK
  <2>8. ReadsOK(k, live, heads)
    BY <1>1, <2>4 DEF JobOK, ReadsOK, IsThere
  <2>9. TagsOK(k, heads, tags)
    BY <1>1, <2>4, NoReport DEF JobOK, PcOK, TagsOK
  <2>10. JobOK(k, live, heads, tags)
    BY <2>4, <2>5, <2>6, <2>7, <2>8, <2>9 DEF JobOK
  <2>. QED
    BY <1>1, <1>6, <2>10, SetKeeps DEF k, plan
<1>. QED
  BY <1>5, <1>6 DEF RestoreHead

(* It writes the record, or fails at it.                                   *)
LEMMA RestoreApplyStep ==
  ASSUME IInv, NEW o \in Operators, RestoreApply(o)
  PROVE  IInv'
<1>. DEFINE j == job[o]  p == Head(j.plan)  r == p.rec
            back == [j EXCEPT !.pc = "write", !.rec = None, !.live = None, !.head = NoHead]
            failed == [back EXCEPT !.plan = Tail(@), !.failed = @ \cup {r}]
            state == IF p.seed THEN "restored_deleted" ELSE "restored"
<1>1. /\ StoreOK /\ JobOK(j, live, heads, tags) /\ j \in Job
      /\ j.pc = "restore_apply" /\ j.pc \in Executing /\ UNCHANGED tags
  BY DEF IInv, JobsOK, RestoreApply, Executing
<1>2. j.cmd = "restore" /\ j.plan # <<>>
  BY <1>1 DEF JobOK, PcOK
<1>3. r \in Records /\ Tail(j.plan) \in Seq(PlanEntry)
  <2>1. j.plan \in Seq(PlanEntry)
    BY <1>1 DEF Job
  <2>. QED
    BY <1>1, <1>2, <2>1, HeadEntry, TailPlan
<1>4. /\ back \in Job /\ back.pc = "write" /\ back.cmd = j.cmd /\ back.dry = j.dry
      /\ back.docs = j.docs /\ back.todo = j.todo /\ back.plan = j.plan
      /\ back.blocked = j.blocked /\ back.pending = j.pending /\ back.report = j.report
      /\ back.touched = j.touched /\ back.results = j.results /\ back.failed = j.failed
      /\ back.wrote = j.wrote
  <2>1. BackTo(j, back)
    BY <1>1, BackFields
  <2>. QED
    BY <2>1 DEF BackTo
<1>5. state \in States /\ state \in Claims
  BY DEF States, Claims
<1>. HIDE DEF back, state
<1>6. GoesOn(j, failed) /\ FailedIt(j, failed, r)
  BY <1>2, <1>3, <1>4 DEF GoesOn, FailedIt, Job
<1>7. /\ Noted(back, state) \in Job /\ GoesOn(j, Noted(back, state))
      /\ Noted(back, state).results = With(j.results, r, state)
      /\ Noted(back, state).failed = j.failed /\ Noted(back, state).wrote = j.wrote
  BY <1>2, <1>4, <1>5, NotedFields DEF GoesOn
<1>. HIDE DEF failed
<1>8. CASE Apply(r, BulkItem(p, "restore"))
           /\ \E k \in {Noted(back, state), failed} : SetWrote(o, k, r)
  <2>1. /\ StoreOK' /\ UNCHANGED clock
        /\ Rewrites(r, live, heads, live', heads')
        /\ IsThere(j, r, state, live', heads')
    BY <1>1, <1>2, <1>5, <1>8, EntryApplies
  <2>2. PICK k \in {Noted(back, state), failed} : SetWrote(o, k, r)
    BY <1>8
  <2>. DEFINE w == [k EXCEPT !.wrote = @ \cup {r}]
  <2>3. k \in Job /\ GoesOn(j, k) /\ k.wrote \in {j.wrote, j.wrote \cup {r}}
    BY <1>6, <1>7 DEF GoesOn, FailedIt
  <2>4. GoesOn(j, w) /\ w.wrote = j.wrote \cup {r} /\ w.results = k.results
        /\ w.failed = k.failed
    BY <1>3, <2>3, WroteFields DEF GoesOn
  <2>. HIDE DEF w
  <2>5. NotedIt(j, w, r, state) \/ FailedIt(j, w, r)
    BY <1>2, <1>5, <1>6, <1>7, <2>2, <2>4 DEF NotedIt, FailedIt
  <2>6. JobOK(w, live', heads', tags)
    BY <1>1, <1>2, <1>5, <2>1, <2>4, <2>5, ExecKeeps
  <2>. QED
    BY <1>1, <1>3, <2>1, <2>2, <2>6, SetWroteKeeps DEF w
<1>9. CASE Set(o, failed) /\ UNCHANGED storeVars
  <2>1. Rewrites(r, live, heads, live, heads)
    BY DEF Rewrites
  <2>2. JobOK(failed, live, heads, tags)
    BY <1>1, <1>2, <1>5, <1>6, <2>1, ExecKeeps
  <2>. QED
    BY <1>1, <1>9, <2>2, SetKeeps
<1>. QED
  BY <1>8, <1>9 DEF RestoreApply, failed, back, state

-----------------------------------------------------------------------------
(***************************************************************************)
(* One lemma per action: phase one.                                        *)
(***************************************************************************)
LEMMA PlanLiveStep ==
  ASSUME IInv, NEW o \in Operators, PlanLive(o)
  PROVE  IInv'
<1>. DEFINE j == job[o]
<1>1. /\ StoreOK /\ JobOK(j, live, heads, tags) /\ j \in Job
      /\ j.pc = "plan" /\ j.pc \in Planning /\ UNCHANGED tags /\ UNCHANGED storeVars
  BY DEF IInv, JobsOK, PlanLive, Planning
<1>2. PICK r \in j.todo :
        Set(o, [j EXCEPT !.pc = "plan_head", !.rec = r, !.live = live[r], !.todo = @ \ {r}])
  BY DEF PlanLive
<1>3. r \in Records /\ live[r] \in Doc \cup {None} /\ Accounts(j)
  BY <1>1 DEF JobOK, CountsOK, Job, StoreOK
<1>. DEFINE k == [j EXCEPT !.pc = "plan_head", !.rec = r, !.live = live[r], !.todo = @ \ {r}]
<1>4. /\ k \in Job /\ k.pc = "plan_head" /\ k.rec = r /\ k.live = live[r]
      /\ k.todo = j.todo \ {r} /\ k.plan = j.plan /\ k.cmd = j.cmd /\ k.dry = j.dry
      /\ k.docs = j.docs /\ k.blocked = j.blocked /\ k.results = j.results
      /\ k.failed = j.failed /\ k.pending = j.pending /\ k.report = j.report
      /\ k.wrote = j.wrote /\ k.touched = j.touched
  BY <1>1, <1>3 DEF Job, Pcs, Planning
<1>. HIDE DEF k
<1>5. PcOK(k)
  BY <1>1, <1>3, <1>4 DEF JobOK, PcOK, Planning, Looking
<1>6. WroteOK(k) /\ CountsOK(k) /\ ReportOK(k)
  <2>1. Claimed(k) = Claimed(j)
    BY <1>4 DEF Claimed
  <2>2. WroteOK(k)
    BY <1>1, <1>4, <2>1 DEF JobOK, WroteOK, Planning, Executing
  <2>3. Judged(k) = {r} /\ Judged(j) = {}
    BY <1>1, <1>4 DEF Judged
  <2>4. Accounts(k)
    BY <1>3, <1>4, <2>3 DEF Accounts
  <2>5. CountsOK(k)
    BY <1>4, <2>4 DEF CountsOK
  <2>6. ReportOK(k)
    BY <1>1, <1>4, <2>1 DEF JobOK, ReportOK
  <2>. QED
    BY <2>2, <2>5, <2>6
<1>7. PlanOK(k, live, heads)
  <2>1. ASSUME NEW e, EntryOK(j, e) PROVE EntryOK(k, e)
    BY <1>4, <2>1 DEF EntryOK
  <2>. QED
    BY <1>1, <1>4, <2>1 DEF JobOK, PlanOK
<1>8. ReadsOK(k, live, heads)
  BY <1>1, <1>4 DEF JobOK, ReadsOK, IsThere
<1>9. TagsOK(k, heads, tags)
  BY <1>1, <1>4, NoReport DEF JobOK, PcOK, TagsOK
<1>10. JobOK(k, live, heads, tags)
  BY <1>4, <1>5, <1>6, <1>7, <1>8, <1>9 DEF JobOK
<1>. QED
  BY <1>1, <1>2, <1>10, SetKeeps DEF k

(* What a judgement of a record says of it.                                *)
LEMMA JudgeSays ==
  ASSUME NEW j, j.cmd \in Writers, NEW head, Exists(head) <=> head.oid # None,
         HashDoc(j.docs[j.rec]) # None, NEW state, state = Judge(j, head)
  PROVE  /\ state \in {"missing", "changed_outside_cfgit", "noop", "unchanged", "ready"}
         /\ state \notin {"missing", "changed_outside_cfgit"} => ~Drift(j.live, head)
         /\ state \in {"noop", "unchanged"} =>
              /\ j.live # None /\ Exists(head) /\ HashDoc(j.docs[j.rec]) = head.oid
              /\ j.cmd = IF state = "noop" THEN "commit" ELSE "restore"
         /\ state = "ready" =>
              /\ j.cmd = "commit" => j.live # None
              /\ j.live # None => HashDoc(j.docs[j.rec]) # head.oid
<1>1. CASE j.cmd = "commit" /\ j.live = None
  BY <1>1 DEF Judge
<1>2. CASE ~(j.cmd = "commit" /\ j.live = None) /\ Drift(j.live, head)
  BY <1>2 DEF Judge
<1>3. CASE /\ ~(j.cmd = "commit" /\ j.live = None) /\ ~Drift(j.live, head)
           /\ j.live # None /\ Exists(head) /\ HashDoc(j.docs[j.rec]) = head.oid
  BY <1>3 DEF Judge, Writers
<1>4. CASE /\ ~(j.cmd = "commit" /\ j.live = None) /\ ~Drift(j.live, head)
           /\ ~(j.live # None /\ Exists(head) /\ HashDoc(j.docs[j.rec]) = head.oid)
  BY <1>4 DEF Judge
<1>. QED
  BY <1>1, <1>2, <1>3, <1>4

(* The job after one more record was judged.                               *)
AfterJudging(j, head, state) ==
  [j EXCEPT !.pc = "plan", !.rec = None, !.live = None,
            !.blocked = IF state \in {"missing", "changed_outside_cfgit"}
                          THEN @ \cup {j.rec} ELSE @,
            !.results = IF state = "unchanged" THEN With(@, j.rec, state) ELSE @,
            !.plan = IF state \in {"ready", "noop"}
                       THEN Append(@, Planned(j, head, state)) ELSE @]

(* However a record is judged, it is accounted for: in the plan, blocked,  *)
(* or in the report.                                                       *)
LEMMA JudgingKeeps ==
  ASSUME StoreOK, NEW j, JobOK(j, live, heads, tags), j.pc = "plan_head",
         NEW head, head = GetHead(j.rec), NEW state, state = Judge(j, head),
         NEW k, k = AfterJudging(j, head, state)
  PROVE  JobOK(k, live, heads, tags) /\ k.pc = "plan"
<1>. DEFINE r == j.rec  d == j.docs[r]  e == Planned(j, head, state)
<1>1. /\ j \in Job /\ j.cmd \in Writers /\ r \in Records /\ Accounts(j) /\ Judged(j) = {r}
      /\ j.report = None
  BY DEF JobOK, PcOK, CountsOK, Planning, Judged
<1>2. /\ j.plan \in Seq(PlanEntry) /\ j.live \in Doc \cup {None}
      /\ j.docs \in Partial(Records, Doc) /\ j.results \in Partial(Records, States)
      /\ j.blocked \in SUBSET Records
  BY <1>1 DEF Job
<1>3. r \in DOMAIN j.docs /\ d \in Doc
  BY <1>1, <1>2, PartialFacts DEF Accounts
<1>4. head = heads[r] /\ head \in HeadType /\ (Exists(head) <=> head.oid # None)
  BY <1>1, GetHeadIsPointer, HeadHasOid
<1>5. clock \in Nat /\ clock <= MaxClock
  BY ClockAssumption DEF StoreOK
<1>6. /\ state \in {"missing", "changed_outside_cfgit", "noop", "unchanged", "ready"}
      /\ state \notin {"missing", "changed_outside_cfgit"} => ~Drift(j.live, head)
      /\ state \in {"noop", "unchanged"} =>
           /\ j.live # None /\ Exists(head) /\ HashDoc(d) = head.oid
           /\ j.cmd = IF state = "noop" THEN "commit" ELSE "restore"
      /\ state = "ready" =>
           /\ j.cmd = "commit" => j.live # None
           /\ j.live # None => HashDoc(d) # head.oid
  BY <1>1, <1>3, <1>4, JudgeSays, StoredIsDoc
<1>7. r \notin j.touched => j.live = live[r]
  BY DEF JobOK, ReadsOK
<1>8. /\ e.rec = r /\ e.state = state /\ e.doc = d /\ e.live = j.live /\ e.head = head
      /\ e.from = clock /\ e.seed = (j.cmd = "restore" /\ j.live = None)
      /\ state \in {"ready", "noop"} => e \in PlanEntry
  BY <1>1, <1>2, <1>3, <1>4, <1>5 DEF Planned, PlanEntry
<1>. HIDE DEF e
<1>9. Distinct(j.plan) /\ r \notin RecordsOf(j.plan) /\ r \notin DOMAIN j.results
      /\ r \notin j.todo
  BY <1>1 DEF Accounts
<1>10. ASSUME state \in {"ready", "noop"}
       PROVE  /\ Append(j.plan, e) \in Seq(PlanEntry)
              /\ \A i \in DOMAIN Append(j.plan, e) :
                   \/ i \in DOMAIN j.plan /\ Append(j.plan, e)[i] = j.plan[i]
                   \/ i \notin DOMAIN j.plan /\ Append(j.plan, e)[i] = e
              /\ RecordsOf(Append(j.plan, e)) = RecordsOf(j.plan) \cup {r}
              /\ Distinct(Append(j.plan, e))
  <2>1. e \in PlanEntry /\ e.rec \notin RecordsOf(j.plan)
    BY <1>8, <1>9, <1>10
  <2>. QED
    BY <1>2, <1>8, <1>9, <2>1, AppendPlan
<1>. DEFINE plan == IF state \in {"ready", "noop"} THEN Append(j.plan, e) ELSE j.plan
            results == IF state = "unchanged" THEN With(j.results, r, state) ELSE j.results
            blocked == IF state \in {"missing", "changed_outside_cfgit"}
                         THEN j.blocked \cup {r} ELSE j.blocked
<1>11. /\ plan \in Seq(PlanEntry) /\ Distinct(plan)
       /\ RecordsOf(plan) = IF state \in {"ready", "noop"} THEN RecordsOf(j.plan) \cup {r}
                            ELSE RecordsOf(j.plan)
       /\ \A i \in DOMAIN plan :
            \/ i \in DOMAIN j.plan /\ plan[i] = j.plan[i]
            \/ state \in {"ready", "noop"} /\ plan[i] = e
  BY <1>2, <1>9, <1>10
<1>12. /\ results \in Partial(Records, States)
       /\ DOMAIN results = IF state = "unchanged" THEN DOMAIN j.results \cup {r}
                           ELSE DOMAIN j.results
       /\ \A x \in DOMAIN j.results : results[x] = j.results[x]
       /\ state = "unchanged" => results[r] = "unchanged"
  <2>1. CASE state = "unchanged"
    <3>1. "unchanged" \in States
      BY DEF States
    <3>2. With(j.results, r, "unchanged") \in Partial(Records, States)
          /\ IsWith(With(j.results, r, "unchanged"), j.results, r, "unchanged")
      BY <1>1, <1>2, <3>1, WithIsPartial
    <3>. QED
      BY <1>9, <2>1, <3>2 DEF IsWith
  <2>2. CASE state # "unchanged"
    BY <1>2, <2>2
  <2>. QED
    BY <2>1, <2>2
<1>13. blocked \in SUBSET Records
       /\ blocked = IF state \in {"missing", "changed_outside_cfgit"} THEN j.blocked \cup {r}
                    ELSE j.blocked
  BY <1>1, <1>2
<1>14. k = [j EXCEPT !.pc = "plan", !.rec = None, !.live = None, !.blocked = blocked,
                     !.results = results, !.plan = plan]
  BY DEF AfterJudging, e
<1>. HIDE DEF plan, results, blocked
<1>15. /\ k \in Job /\ k.pc = "plan" /\ k.todo = j.todo /\ k.plan = plan
       /\ k.cmd = j.cmd /\ k.dry = j.dry /\ k.docs = j.docs /\ k.blocked = blocked
       /\ k.results = results /\ k.failed = j.failed /\ k.pending = j.pending
       /\ k.report = j.report /\ k.wrote = j.wrote /\ k.touched = j.touched
  <2>1. /\ plan \in Seq(PlanEntry) /\ results \in Partial(Records, States)
        /\ blocked \in SUBSET Records /\ "plan" \in Pcs
    BY <1>11, <1>12, <1>13 DEF Pcs, Planning
  <2>2. k \in Job
    BY ZenonT(60), <1>1, <1>14, <2>1 DEF Job
  <2>3. /\ k.pc = "plan" /\ k.todo = j.todo /\ k.plan = plan
        /\ k.cmd = j.cmd /\ k.dry = j.dry /\ k.docs = j.docs /\ k.blocked = blocked
    BY <1>1, <1>14 DEF Job
  <2>4. /\ k.results = results /\ k.failed = j.failed /\ k.pending = j.pending
        /\ k.report = j.report /\ k.wrote = j.wrote /\ k.touched = j.touched
    BY <1>1, <1>14 DEF Job
  <2>. QED
    BY <2>2, <2>3, <2>4
<1>. HIDE DEF d
<1>16. PcOK(k)
  BY <1>1, <1>15 DEF PcOK, Looking
<1>17. j.wrote = {} /\ j.failed = {} /\ Claimed(j) = {}
  BY DEF JobOK, WroteOK, Planning
<1>18. Claimed(k) = {}
  <2>1. ASSUME NEW x \in Claimed(k) PROVE FALSE
    <3>1. x \in DOMAIN results /\ results[x] \in {"committed", "restored", "restored_deleted"}
      BY <1>15, <2>1 DEF Claimed
    <3>2. CASE x \in DOMAIN j.results
      BY <1>12, <1>17, <3>1, <3>2 DEF Claimed
    <3>3. CASE x \notin DOMAIN j.results
      BY <1>12, <3>1, <3>3
    <3>. QED
      BY <3>2, <3>3
  <2>. QED
    BY <2>1
<1>19. WroteOK(k)
  BY <1>15, <1>17, <1>18 DEF WroteOK, Executing
<1>20. Accounts(k)
  <2>1. Judged(k) = {}
    BY <1>15 DEF Judged
  <2>2. RecordsOf(plan) \cup blocked \cup DOMAIN results =
          RecordsOf(j.plan) \cup j.blocked \cup DOMAIN j.results \cup {r}
    BY <1>6, <1>11, <1>12, <1>13
  <2>3. RecordsOf(plan) \cap DOMAIN results = {}
    BY <1>1, <1>9, <1>11, <1>12 DEF Accounts
  <2>4. j.todo \cap (RecordsOf(plan) \cup DOMAIN results) = {}
    BY <1>1, <1>9, <1>11, <1>12 DEF Accounts
  <2>. QED
    BY <1>1, <1>11, <1>15, <1>17, <2>1, <2>2, <2>3, <2>4 DEF Accounts
<1>21. CountsOK(k)
  BY <1>15, <1>20 DEF CountsOK
<1>22. ReportOK(k)
  BY <1>1, <1>15, <1>17, NoReport DEF ReportOK, Successes
<1>23. PlanOK(k, live, heads)
  <2>1. ASSUME NEW x, EntryOK(j, x) PROVE EntryOK(k, x)
    BY <1>15, <2>1 DEF EntryOK
  <2>2. ASSUME NEW i \in DOMAIN j.plan
        PROVE  /\ EntryOK(k, j.plan[i])
               /\ j.plan[i].rec \notin k.touched => EntryFresh(j.plan[i], live, heads)
    BY <1>15, <2>1 DEF JobOK, PlanOK, Planning
  <2>3. ASSUME state \in {"ready", "noop"}
        PROVE  EntryOK(k, e) /\ (e.rec \notin k.touched => EntryFresh(e, live, heads))
    <3>1. e.rec \in DOMAIN k.docs /\ e.doc = k.docs[e.rec]
      BY <1>3, <1>8, <1>15 DEF d
    <3>2. /\ e.from <= MaxClock /\ (Exists(e.head) <=> e.head.oid # None)
          /\ ~Drift(e.live, e.head)
      BY <1>4, <1>5, <1>6, <1>8, <2>3
    <3>3. /\ j.cmd = "commit" =>
               /\ ~e.seed /\ e.live # None
               /\ e.state = "ready" => HashDoc(e.doc) # e.head.oid
          /\ j.cmd = "restore" => e.state = "ready"
          /\ e.state = "noop" => e.live # None /\ HashDoc(e.doc) = e.head.oid
      BY <1>6, <1>8, <2>3
    <3>4. EntryOK(k, e)
      BY <1>15, <3>1, <3>2, <3>3 DEF EntryOK
    <3>5. r \notin j.touched => EntryFresh(e, live, heads)
      BY <1>4, <1>6, <1>7, <1>8, <2>3 DEF EntryFresh
    <3>. QED
      BY <1>8, <1>15, <3>4, <3>5
  <2>. QED
    BY <1>11, <1>15, <2>2, <2>3 DEF PlanOK
<1>24. ReadsOK(k, live, heads)
  <2>1. k.cmd = "restore" => \A x \in DOMAIN k.docs : Exists(heads[x])
    BY <1>15 DEF JobOK, ReadsOK
  <2>2. ASSUME NEW x \in (DOMAIN k.results \cap DOMAIN k.docs) \ k.touched
        PROVE  IsThere(k, x, k.results[x], live, heads)
    <3>1. CASE x \in DOMAIN j.results
      <4>1. IsThere(j, x, j.results[x], live, heads)
        BY <1>1, <1>15, <2>2, <3>1 DEF JobOK, ReadsOK
      <4>. QED
        BY <1>12, <1>15, <3>1, <4>1 DEF IsThere
    <3>2. CASE x \notin DOMAIN j.results
      <4>1. x = r /\ state = "unchanged"
        BY <1>12, <1>15, <2>2, <3>2
      <4>2. j.live = live[r] /\ live[r] # None
        BY <1>6, <1>7, <1>15, <2>2, <4>1
      <4>3. HashDoc(live[r]) = heads[r].oid
        BY <1>4, <1>6, <4>1, <4>2 DEF Drift
      <4>. QED
        BY <1>4, <1>6, <1>12, <1>15, <4>1, <4>2, <4>3 DEF IsThere, Claims, d
    <3>. QED
      BY <3>1, <3>2
  <2>. QED
    BY <1>15, <2>1, <2>2 DEF ReadsOK
<1>25. TagsOK(k, heads, tags)
  BY <1>1, <1>15, NoReport DEF TagsOK
<1>. QED
  BY <1>15, <1>16, <1>19, <1>21, <1>22, <1>23, <1>24, <1>25 DEF JobOK

(* Every report of a job that has written nothing is true, if it says that *)
(* nothing was.                                                            *)
LEMMA GiveUpKeeps ==
  ASSUME NEW j, NEW lv, NEW hs, NEW tg, JobOK(j, lv, hs, tg),
         j.pc \in Planning \cup {"gather"},
         NEW state \in {"blocked", "dry_run", "raised"}
  PROVE  JobOK(Returned(j, state), lv, hs, tg)
<1>. DEFINE k == Returned(j, state)
<1>1. j \in Job /\ state \in Reports /\ j.wrote = {}
  BY DEF JobOK, WroteOK, Reports
<1>2. /\ k \in Job /\ k.pc = "done" /\ k.report = state /\ k.cmd = j.cmd /\ k.docs = j.docs
      /\ k.results = j.results /\ k.touched = j.touched /\ k.wrote = {}
  BY <1>1, ReturnFields
<1>. HIDE DEF k
<1>3. ReportOK(k)
  BY <1>2 DEF ReportOK, Successes
<1>4. ReadsOK(k, lv, hs)
  BY <1>2 DEF JobOK, ReadsOK, IsThere
<1>5. TagsOK(k, hs, tg)
  BY <1>2 DEF TagsOK
<1>. QED
  BY <1>2, <1>3, <1>4, <1>5, ReturnKeeps DEF k

(* The plan is complete.                                                   *)
LEMMA AfterPlanKeeps ==
  ASSUME NEW j, NEW lv, NEW hs, NEW tg, JobOK(j, lv, hs, tg),
         j.pc = "plan", j.todo = {}
  PROVE  JobOK(AfterPlan(j), lv, hs, tg)
<1>1. \A state \in {"blocked", "dry_run", "raised"} : JobOK(Returned(j, state), lv, hs, tg)
  BY GiveUpKeeps DEF Planning
<1>2. CASE j.dry \/ j.blocked # {}
  <2>1. AfterPlan(j) = Returned(j, "dry_run") \/ AfterPlan(j) = Returned(j, "blocked")
    BY <1>2 DEF AfterPlan
  <2>. QED
    BY <1>1, <2>1
<1>3. CASE ~j.dry /\ j.blocked = {}
  <2>. DEFINE k == [j EXCEPT !.pc = "write"]
  <2>1. j \in Job /\ Accounts(j) /\ j.cmd \in Writers /\ j.report = None
        /\ j.wrote = {} /\ j.failed = {} /\ Claimed(j) = {}
    BY DEF JobOK, CountsOK, PcOK, WroteOK, Planning
  <2>2. AfterPlan(j) = k
    BY <1>3 DEF AfterPlan
  <2>3. /\ k \in Job /\ k.pc = "write" /\ k.todo = j.todo /\ k.plan = j.plan
        /\ k.cmd = j.cmd /\ k.dry = j.dry /\ k.docs = j.docs /\ k.blocked = j.blocked
        /\ k.results = j.results /\ k.failed = j.failed /\ k.pending = j.pending
        /\ k.report = j.report /\ k.wrote = j.wrote /\ k.touched = j.touched
    <3>1. "write" \in Pcs
      BY DEF Pcs, Executing
    <3>2. k \in Job
      BY ZenonT(60), <2>1, <3>1 DEF Job
    <3>3. /\ k.pc = "write" /\ k.todo = j.todo /\ k.plan = j.plan
          /\ k.cmd = j.cmd /\ k.dry = j.dry /\ k.docs = j.docs /\ k.blocked = j.blocked
      BY <2>1 DEF Job
    <3>4. /\ k.results = j.results /\ k.failed = j.failed /\ k.pending = j.pending
          /\ k.report = j.report /\ k.wrote = j.wrote /\ k.touched = j.touched
      BY <2>1 DEF Job
    <3>. QED
      BY <3>2, <3>3, <3>4
  <2>. HIDE DEF k
  <2>4. PcOK(k)
    BY <2>1, <2>3 DEF PcOK, Looking
  <2>5. Claimed(k) = {}
    BY <2>1, <2>3 DEF Claimed
  <2>6. WroteOK(k)
    BY <1>3, <2>1, <2>3, <2>5 DEF WroteOK, Planning
  <2>7. CountsOK(k)
    BY <2>1, <2>3 DEF CountsOK, Accounts, Judged
  <2>8. ReportOK(k)
    BY <2>1, <2>3, NoReport DEF ReportOK, Successes
  <2>9. PlanOK(k, lv, hs)
    <3>1. ASSUME NEW x, EntryOK(j, x) PROVE EntryOK(k, x)
      BY <2>3, <3>1 DEF EntryOK
    <3>. QED
      BY <2>3, <3>1 DEF JobOK, PlanOK, Planning
  <2>10. ReadsOK(k, lv, hs)
    BY <2>3 DEF JobOK, ReadsOK, IsThere
  <2>11. TagsOK(k, hs, tg)
    BY <2>1, <2>3, NoReport DEF TagsOK
  <2>. QED
    BY <2>2, <2>3, <2>4, <2>6, <2>7, <2>8, <2>9, <2>10, <2>11 DEF JobOK
<1>. QED
  BY <1>2, <1>3

(* The plan reads HEAD, and the record is judged.                          *)
LEMMA PlanHeadStep ==
  ASSUME IInv, NEW o \in Operators, PlanHead(o)
  PROVE  IInv'
<1>. DEFINE j == job[o]  head == GetHead(j.rec)  state == Judge(j, head)
            next == AfterJudging(j, head, state)
<1>1. /\ StoreOK /\ JobOK(j, live, heads, tags)
      /\ j.pc = "plan_head" /\ UNCHANGED tags /\ UNCHANGED storeVars
      /\ \/ Set(o, IF next.todo = {} THEN AfterPlan(next) ELSE next)
         \/ Set(o, Returned(j, "raised"))
  BY DEF IInv, JobsOK, PlanHead, AfterJudging
<1>2. JobOK(Returned(j, "raised"), live, heads, tags)
  BY <1>1, GiveUpKeeps DEF Planning
<1>3. JobOK(next, live, heads, tags) /\ next.pc = "plan"
  BY <1>1, JudgingKeeps
<1>. HIDE DEF next
<1>4. JobOK(IF next.todo = {} THEN AfterPlan(next) ELSE next, live, heads, tags)
  BY <1>3, AfterPlanKeeps
<1>. QED
  BY <1>1, <1>2, <1>4, SetKeeps

(* The dates are numbers, and a date finds a row of a record with history. *)
LEMMA FoundRow ==
  ASSUME StoreOK, NEW r \in Records, NEW S, S \subseteq DOMAIN history[r], S # {}
  PROVE  Exists(heads[r]) /\ history[r][Largest(S)].doc \in Doc
<1>1. RowsOK(heads[r], history[r]) /\ heads[r].seq \in Nat
  BY DEF StoreOK, HeadType
<1>2. S \in SUBSET Nat /\ \A s \in S : s \in 1 .. heads[r].seq /\ s <= heads[r].seq
  BY <1>1 DEF RowsOK
<1>3. \E s \in S : \A x \in S : x <= s
  BY <1>1, <1>2, LargestExists
<1>4. Largest(S) \in S
  BY <1>3 DEF Largest
<1>5. heads[r].seq # 0
  <2>1. Largest(S) \in 1 .. heads[r].seq
    BY <1>2, <1>4
  <2>. QED
    BY <1>1, <2>1
<1>6. history[r][Largest(S)] \in Row
  BY <1>1, <1>2, <1>4 DEF RowsOK
<1>. QED
  BY <1>5, <1>6 DEF Row, Exists

(* restore_as_of looks up which version of a record was valid at the       *)
(* instant.                                                                *)
LEMMA GatherStep ==
  ASSUME IInv, NEW o \in Operators, Gather(o)
  PROVE  IInv'
<1>. DEFINE j == job[o]
<1>1. /\ StoreOK /\ JobOK(j, live, heads, tags) /\ j \in Job
      /\ j.pc = "gather" /\ j.cmd = "restore" /\ j.report = None
      /\ UNCHANGED tags /\ UNCHANGED storeVars
  BY DEF IInv, JobsOK, Gather, JobOK, PcOK
<1>2. /\ j.docs \in Partial(Records, Doc) /\ DOMAIN j.docs \subseteq Records
      /\ j.results \in Partial(Records, States) /\ j.todo \in SUBSET Records
  BY <1>1, PartialFacts DEF Job
<1>3. /\ j.todo \cap (DOMAIN j.docs \cup DOMAIN j.results) = {}
      /\ DOMAIN j.docs \cap DOMAIN j.results = {}
      /\ j.plan = <<>> /\ j.pending = {} /\ j.blocked = {} /\ j.wrote = {} /\ j.failed = {}
      /\ Claimed(j) = {}
      /\ \A x \in DOMAIN j.docs : Exists(heads[x])
  BY <1>1 DEF JobOK, CountsOK, WroteOK, ReadsOK
<1>4. ASSUME NEW r \in j.todo, NEW k, k \in Job, k.pc = "gather", k.cmd = j.cmd,
             k.todo = j.todo \ {r}, k.plan = j.plan, k.blocked = j.blocked,
             k.failed = j.failed, k.pending = j.pending, k.report = j.report,
             k.wrote = j.wrote, k.touched = j.touched,
             \/ k.docs = j.docs /\ IsWith(k.results, j.results, r, "did_not_exist")
             \/ /\ k.results = j.results /\ DOMAIN k.docs = DOMAIN j.docs \cup {r}
                /\ Exists(heads[r])
      PROVE  JobOK(k, live, heads, tags)
  <2>1. Claimed(k) = {}
    <3>1. ASSUME NEW x \in DOMAIN k.results
          PROVE  \/ x \in DOMAIN j.results /\ k.results[x] = j.results[x]
                 \/ k.results[x] = "did_not_exist"
      BY <1>4 DEF IsWith
    <3>. QED
      BY <1>3, <3>1 DEF Claimed
  <2>2. PcOK(k) /\ WroteOK(k)
    BY <1>1, <1>3, <1>4, <2>1 DEF PcOK, WroteOK, Planning, Executing, Looking
  <2>3. /\ k.todo \cap (DOMAIN k.docs \cup DOMAIN k.results) = {}
        /\ DOMAIN k.docs \cap DOMAIN k.results = {}
        /\ \A x \in DOMAIN k.docs : Exists(heads[x])
    BY <1>3, <1>4 DEF IsWith
  <2>4. CountsOK(k) /\ PlanOK(k, live, heads)
    BY <1>3, <1>4, <2>3 DEF CountsOK, PlanOK, Planning, Executing
  <2>5. ReportOK(k)
    BY <1>1, <1>3, <1>4, NoReport DEF ReportOK, Successes
  <2>6. ReadsOK(k, live, heads) /\ TagsOK(k, heads, tags)
    BY <1>1, <1>4, <2>3, NoReport DEF ReadsOK, TagsOK
  <2>. QED
    BY <1>4, <2>2, <2>4, <2>5, <2>6 DEF JobOK
<1>5. ASSUME NEW r \in j.todo, RowsAt(r, j.when) = {},
             Set(o, [j EXCEPT !.todo = @ \ {r}, !.results = With(@, r, "did_not_exist")])
      PROVE  IInv'
  <2>. DEFINE res == With(j.results, r, "did_not_exist")
              k == [j EXCEPT !.todo = @ \ {r}, !.results = res]
  <2>1. "did_not_exist" \in States /\ r \in Records
    BY <1>2 DEF States
  <2>2. res \in Partial(Records, States) /\ IsWith(res, j.results, r, "did_not_exist")
    BY <1>2, <2>1, WithIsPartial
  <2>. HIDE DEF res
  <2>3. /\ k \in Job /\ k.pc = "gather" /\ k.cmd = j.cmd /\ k.todo = j.todo \ {r}
        /\ k.plan = j.plan /\ k.blocked = j.blocked /\ k.failed = j.failed
        /\ k.pending = j.pending /\ k.report = j.report /\ k.wrote = j.wrote
        /\ k.touched = j.touched /\ k.docs = j.docs /\ k.results = res
    BY ZenonT(30), <1>1, <1>2, <2>2 DEF Job
  <2>. HIDE DEF k
  <2>4. JobOK(k, live, heads, tags)
    BY <1>4, <2>2, <2>3
  <2>. QED
    BY <1>1, <1>5, <2>4, SetKeeps DEF k, res
<1>6. ASSUME NEW r \in j.todo, RowsAt(r, j.when) # {},
             Set(o, [j EXCEPT !.todo = @ \ {r},
                              !.docs = With(@, r, history[r][Largest(RowsAt(r, j.when))].doc)])
      PROVE  IInv'
  <2>. DEFINE doc == history[r][Largest(RowsAt(r, j.when))].doc
              docs == With(j.docs, r, doc)
              k == [j EXCEPT !.todo = @ \ {r}, !.docs = docs]
  <2>1. r \in Records /\ RowsAt(r, j.when) \subseteq DOMAIN history[r]
    BY <1>2 DEF RowsAt
  <2>2. doc \in Doc /\ Exists(heads[r])
    BY <1>1, <1>6, <2>1, FoundRow
  <2>. HIDE DEF doc
  <2>3. docs \in Partial(Records, Doc) /\ IsWith(docs, j.docs, r, doc)
    BY <1>2, <2>1, <2>2, WithIsPartial
  <2>4. DOMAIN docs = DOMAIN j.docs \cup {r}
    BY <2>3 DEF IsWith
  <2>. HIDE DEF docs
  <2>5. /\ k \in Job /\ k.pc = "gather" /\ k.cmd = j.cmd /\ k.todo = j.todo \ {r}
        /\ k.plan = j.plan /\ k.blocked = j.blocked /\ k.failed = j.failed
        /\ k.pending = j.pending /\ k.report = j.report /\ k.wrote = j.wrote
        /\ k.touched = j.touched /\ k.docs = docs /\ k.results = j.results
    BY ZenonT(30), <1>1, <1>2, <2>3 DEF Job
  <2>. HIDE DEF k
  <2>6. JobOK(k, live, heads, tags)
    BY <1>4, <2>2, <2>4, <2>5
  <2>. QED
    BY <1>1, <1>6, <2>6, SetKeeps DEF k, docs, doc
<1>7. ASSUME j.todo = {}, DOMAIN j.docs = {},
             Set(o, Returned(j, IF j.dry THEN "dry_run" ELSE "restored"))
      PROVE  IInv'
  <2>. DEFINE s == IF j.dry THEN "dry_run" ELSE "restored"
              k == Returned(j, s)
  <2>1. s \in Reports /\ s # "tagged"
    BY DEF Reports, Successes
  <2>. HIDE DEF s
  <2>2. /\ k \in Job /\ k.pc = "done" /\ k.report = s /\ k.cmd = j.cmd /\ k.docs = j.docs
        /\ k.results = j.results /\ k.touched = j.touched /\ k.wrote = j.wrote
        /\ k.failed = j.failed /\ k.pending = j.pending /\ k.blocked = j.blocked
    BY <1>1, <2>1, ReturnFields
  <2>. HIDE DEF k
  <2>3. Claimed(k) = {}
    BY <1>3, <2>2 DEF Claimed
  <2>4. ReportOK(k)
    BY <1>1, <1>3, <1>7, <2>2, <2>3 DEF ReportOK, Writers
  <2>5. ReadsOK(k, live, heads) /\ TagsOK(k, heads, tags)
    BY <1>7, <2>1, <2>2 DEF ReadsOK, TagsOK
  <2>6. JobOK(k, live, heads, tags)
    BY <2>2, <2>4, <2>5, ReturnKeeps
  <2>. QED
    BY <1>1, <1>7, <2>6, SetKeeps DEF k, s
<1>8. ASSUME j.todo = {}, Set(o, [j EXCEPT !.pc = "plan", !.todo = DOMAIN j.docs])
      PROVE  IInv'
  <2>. DEFINE k == [j EXCEPT !.pc = "plan", !.todo = DOMAIN j.docs]
  <2>1. /\ k \in Job /\ k.pc = "plan" /\ k.todo = DOMAIN j.docs /\ k.plan = j.plan
        /\ k.cmd = j.cmd /\ k.docs = j.docs /\ k.blocked = j.blocked
        /\ k.results = j.results /\ k.failed = j.failed /\ k.pending = j.pending
        /\ k.report = j.report /\ k.wrote = j.wrote /\ k.touched = j.touched
    <3>1. DOMAIN j.docs \in SUBSET Records /\ "plan" \in Pcs
      BY <1>2 DEF Pcs, Planning
    <3>. QED
      BY ZenonT(30), <1>1, <3>1 DEF Job
  <2>. HIDE DEF k
  <2>2. PcOK(k)
    BY <1>1, <2>1 DEF PcOK, Writers, Looking
  <2>3. Claimed(k) = {} /\ Judged(k) = {} /\ RecordsOf(k.plan) = {} /\ DOMAIN k.plan = {}
    BY <1>3, <2>1 DEF Claimed, Judged, RecordsOf
  <2>4. WroteOK(k)
    BY <1>3, <2>1, <2>3 DEF WroteOK, Executing
  <2>5. CountsOK(k)
    BY <1>3, <2>1, <2>3 DEF CountsOK, Accounts, Distinct
  <2>6. ReportOK(k)
    BY <1>1, <1>3, <2>1, NoReport DEF ReportOK, Successes
  <2>7. PlanOK(k, live, heads)
    BY <2>3 DEF PlanOK
  <2>8. ReadsOK(k, live, heads) /\ TagsOK(k, heads, tags)
    BY <1>1, <1>3, <2>1, NoReport DEF ReadsOK, TagsOK
  <2>9. JobOK(k, live, heads, tags)
    BY <2>1, <2>2, <2>4, <2>5, <2>6, <2>7, <2>8 DEF JobOK
  <2>. QED
    BY <1>1, <1>8, <2>9, SetKeeps DEF k
<1>. QED
  BY <1>5, <1>6, <1>7, <1>8 DEF Gather

-----------------------------------------------------------------------------
(***************************************************************************)
(* One lemma per call.                                                     *)
(***************************************************************************)
LEMMA NoJobIsJob ==
  /\ NoJob \in Job /\ NoJob.pc = "idle" /\ NoJob.cmd = None /\ NoJob.docs = Nothing
  /\ NoJob.todo = {} /\ NoJob.plan = <<>> /\ NoJob.blocked = {} /\ NoJob.results = Nothing
  /\ NoJob.failed = {} /\ NoJob.pending = {} /\ NoJob.report = None
  /\ NoJob.wrote = {} /\ NoJob.touched = {}
<1>1. /\ NoHead \in HeadType /\ <<>> \in Seq(PlanEntry)
      /\ Nothing \in Partial(Records, Doc) /\ Nothing \in Partial(Records, States)
  BY PartialFacts DEF NoHead, HeadType
<1>. HIDE DEF Nothing, NoHead
<1>. QED
  BY <1>1 DEF NoJob, Job, Pcs

(* Nothing is written, or planned, yet.                                    *)
Fresh(k) ==
  /\ k \in Job /\ k.plan = <<>> /\ k.blocked = {} /\ k.failed = {} /\ k.pending = {}
  /\ k.report = None /\ k.wrote = {} /\ k.touched = {}

(* A job whose documents are all still to be judged is right.              *)
LEMMA PlanStarts ==
  ASSUME NEW k, Fresh(k), k.pc = "plan", k.cmd \in Writers, k.todo = DOMAIN k.docs,
         DOMAIN k.results \cap DOMAIN k.docs = {}, Claimed(k) = {},
         NEW lv, NEW hs, NEW tg, \A r \in DOMAIN k.docs : Exists(hs[r])
                                          \/ k.cmd = "commit"
  PROVE  JobOK(k, lv, hs, tg)
<1>1. Judged(k) = {} /\ RecordsOf(k.plan) = {} /\ DOMAIN k.plan = {}
  BY DEF Fresh, Judged, RecordsOf
<1>2. PcOK(k) /\ WroteOK(k)
  BY DEF Fresh, PcOK, WroteOK, Executing, Looking
<1>3. CountsOK(k) /\ PlanOK(k, lv, hs)
  BY <1>1 DEF Fresh, CountsOK, Accounts, Distinct, PlanOK
<1>4. ReportOK(k) /\ ReadsOK(k, lv, hs) /\ TagsOK(k, hs, tg)
  BY NoReport DEF Fresh, ReportOK, ReadsOK, TagsOK, Successes
<1>. QED
  BY <1>2, <1>3, <1>4 DEF Fresh, JobOK

(* commit_many begins with the documents it was given.                     *)
LEMMA StartCommitManyStep ==
  ASSUME IInv, NEW o \in Operators, NEW dry \in BOOLEAN, NEW S \in SUBSET Records,
         NEW docs \in [S -> Doc], StartCommitMany(o, docs, dry)
  PROVE  IInv'
<1>. DEFINE k == [NoJob EXCEPT !.pc = "plan", !.cmd = "commit", !.dry = dry,
                               !.docs = docs, !.todo = DOMAIN docs]
<1>1. docs \in Partial(Records, Doc) /\ DOMAIN docs \in SUBSET Records
  BY PartialFacts
<1>2. "plan" \in Pcs /\ "commit" \in Commands
  BY DEF Pcs, Planning, Commands
<1>3. /\ k \in Job /\ k.pc = "plan" /\ k.cmd = "commit" /\ k.docs = docs
      /\ k.todo = DOMAIN docs /\ k.plan = <<>> /\ k.blocked = {} /\ k.results = Nothing
      /\ k.failed = {} /\ k.pending = {} /\ k.report = None /\ k.wrote = {} /\ k.touched = {}
  BY ZenonT(30), <1>1, <1>2, NoJobIsJob DEF Job
<1>. HIDE DEF k
<1>4. DOMAIN k.results = {} /\ Claimed(k) = {}
  BY <1>3, PartialFacts DEF Claimed
<1>5. JobOK(k, live, heads, tags)
  BY <1>3, <1>4, PlanStarts DEF Fresh, Writers
<1>. QED
  BY <1>5, SetKeeps DEF StartCommitMany, Begin, k

(* restore_as_of begins with every record that cfgit knows.                *)
LEMMA StartRestoreAsOfStep ==
  ASSUME IInv, NEW o \in Operators, NEW dry \in BOOLEAN, NEW t \in 0 .. MaxClock,
         StartRestoreAsOf(o, t, dry)
  PROVE  IInv'
<1>. DEFINE k == [NoJob EXCEPT !.pc = "gather", !.cmd = "restore", !.dry = dry,
                               !.when = t, !.todo = Known]
<1>1. Known \in SUBSET Records /\ t \in Nat /\ "gather" \in Pcs /\ "restore" \in Commands
  BY ClockAssumption DEF Known, IInv, StoreOK, Pcs, Commands
<1>2. /\ k \in Job /\ k.pc = "gather" /\ k.cmd = "restore" /\ k.docs = Nothing
      /\ k.plan = <<>> /\ k.blocked = {} /\ k.results = Nothing
      /\ k.failed = {} /\ k.pending = {} /\ k.report = None /\ k.wrote = {} /\ k.touched = {}
  BY ZenonT(30), <1>1, NoJobIsJob DEF Job
<1>. HIDE DEF k
<1>3. DOMAIN k.docs = {} /\ DOMAIN k.results = {} /\ Claimed(k) = {}
  BY <1>2, PartialFacts DEF Claimed
<1>4. PcOK(k) /\ WroteOK(k) /\ CountsOK(k) /\ PlanOK(k, live, heads)
  BY <1>2, <1>3 DEF PcOK, WroteOK, CountsOK, PlanOK, Planning, Executing, Looking
<1>5. ReportOK(k) /\ ReadsOK(k, live, heads) /\ TagsOK(k, heads, tags)
  BY <1>2, <1>3, NoReport DEF ReportOK, ReadsOK, TagsOK, Successes
<1>6. JobOK(k, live, heads, tags)
  BY <1>2, <1>4, <1>5 DEF JobOK
<1>. QED
  BY <1>6, SetKeeps DEF StartRestoreAsOf, Begin, k

(* restore_tag begins with the tagged records, each at its last tagged     *)
(* version.                                                                *)
LEMMA StartRestoreTagStep ==
  ASSUME IInv, NEW o \in Operators, NEW dry \in BOOLEAN, StartRestoreTag(o, dry)
  PROVE  IInv'
<1>. DEFINE tagged == {r \in Records : TaggedRows(r) # {}}
            docs == [r \in tagged |-> history[r][Largest(TaggedRows(r))].doc]
            results == [r \in Known \ tagged |-> "not_in_tag"]
            j == [NoJob EXCEPT !.cmd = "restore", !.dry = dry, !.when = "tag"]
            k == [j EXCEPT !.pc = "plan", !.todo = tagged, !.docs = docs, !.results = results]
<1>1. ASSUME NEW r \in tagged
      PROVE  Exists(heads[r]) /\ docs[r] \in Doc
  <2>. DEFINE S == TaggedRows(r)
  <2>1. r \in Records /\ S \subseteq DOMAIN history[r] /\ S # {}
    BY DEF TaggedRows
  <2>. HIDE DEF S
  <2>2. Exists(heads[r]) /\ history[r][Largest(S)].doc \in Doc
    BY <2>1, FoundRow DEF IInv
  <2>. QED
    BY <2>2 DEF S
<1>2. docs \in [tagged -> Doc] /\ tagged \in SUBSET Records
  BY <1>1
<1>3. docs \in Partial(Records, Doc) /\ DOMAIN docs = tagged
  BY <1>2, PartialFacts
<1>4. results \in [Known \ tagged -> States] /\ Known \ tagged \in SUBSET Records
  BY DEF Known, States
<1>5. /\ results \in Partial(Records, States) /\ DOMAIN results \cap tagged = {}
      /\ \A r \in DOMAIN results : results[r] = "not_in_tag"
  <2>1. results \in Partial(Records, States)
    BY <1>4, PartialFacts
  <2>. QED
    BY <2>1
<1>6. "plan" \in Pcs /\ "restore" \in Commands /\ "raised" \in Reports
  BY DEF Pcs, Planning, Commands, Reports
<1>. HIDE DEF tagged, docs, results
<1>7. /\ j \in Job /\ j.cmd = "restore" /\ j.docs = Nothing
      /\ j.plan = <<>> /\ j.blocked = {} /\ j.results = Nothing
      /\ j.failed = {} /\ j.pending = {} /\ j.report = None /\ j.wrote = {} /\ j.touched = {}
  BY <1>6, NoJobIsJob DEF Job
<1>. HIDE DEF j
<1>8. JobOK(Returned(j, "raised"), live, heads, tags)
  <2>. DEFINE f == Returned(j, "raised")
  <2>1. /\ f \in Job /\ f.pc = "done" /\ f.report = "raised" /\ f.docs = Nothing
        /\ f.wrote = {}
    BY <1>6, <1>7, ReturnFields
  <2>. HIDE DEF f
  <2>2. DOMAIN f.docs = {}
    BY <2>1, PartialFacts
  <2>3. ReportOK(f) /\ ReadsOK(f, live, heads) /\ TagsOK(f, heads, tags)
    BY <2>1, <2>2 DEF ReportOK, ReadsOK, TagsOK, Successes
  <2>4. JobOK(f, live, heads, tags)
    BY <2>1, <2>3, ReturnKeeps
  <2>. QED
    BY <2>4 DEF f
<1>9. JobOK(k, live, heads, tags)
  <2>1. /\ k \in Job /\ k.pc = "plan" /\ k.cmd = "restore" /\ k.docs = docs
        /\ k.todo = tagged /\ k.plan = <<>> /\ k.blocked = {} /\ k.results = results
        /\ k.failed = {} /\ k.pending = {} /\ k.report = None /\ k.wrote = {} /\ k.touched = {}
    BY ZenonT(30), <1>2, <1>3, <1>5, <1>6, <1>7 DEF Job
  <2>. HIDE DEF k
  <2>2. Claimed(k) = {}
    BY <1>5, <2>1 DEF Claimed
  <2>. QED
    BY <1>1, <1>3, <1>5, <2>1, <2>2, PlanStarts DEF Fresh, Writers
<1>. QED
  BY <1>8, <1>9, SetKeeps DEF StartRestoreTag, Begin, tagged, docs, results, j, k

-----------------------------------------------------------------------------
(***************************************************************************)
(* The operations that have no plan.                                       *)
(***************************************************************************)
LEMMA PlainKeeps ==
  ASSUME NEW k \in Job, NEW hs, NEW tg, TagsOK(k, hs, tg),
         \/ k.pc = "tag" /\ k.cmd = "tag"
         \/ k.pc = "add_tag" /\ k.cmd = "tag" /\ k.rec \in Records
         \/ k.pc \in Looking \cup {"sweep"} /\ k.cmd \in {"import", "adopt"},
         k.report = None, NEW lv
  PROVE  JobOK(k, lv, hs, tg)
<1>1. PcOK(k) /\ WroteOK(k) /\ CountsOK(k) /\ PlanOK(k, lv, hs)
  BY DEF PcOK, WroteOK, CountsOK, PlanOK, Planning, Executing, Looking
<1>2. ReportOK(k) /\ ReadsOK(k, lv, hs)
  BY NoReport DEF ReportOK, ReadsOK, Writers, Successes, Looking
<1>. QED
  BY <1>1, <1>2 DEF JobOK

(* ... and their return.                                                   *)
LEMMA PlainReturns ==
  ASSUME NEW j \in Job, j.cmd \in {"tag", "import", "adopt"}, NEW hs, NEW tg,
         NEW state \in {"tagged", "swept", "raised"},
         state = "tagged" => \A r \in Records \ j.touched : Exists(hs[r]) => <<r, hs[r].seq>> \in tg,
         NEW lv
  PROVE  JobOK(Returned(j, state), lv, hs, tg)
<1>. DEFINE k == Returned(j, state)
<1>1. state \in Reports /\ state \notin Successes \cup {"partial"}
  BY DEF Reports, Successes
<1>2. k \in Job /\ k.pc = "done" /\ k.report = state /\ k.cmd = j.cmd /\ k.touched = j.touched
  BY <1>1, ReturnFields
<1>. HIDE DEF k
<1>3. ReportOK(k) /\ ReadsOK(k, lv, hs) /\ TagsOK(k, hs, tg)
  BY <1>1, <1>2 DEF ReportOK, ReadsOK, TagsOK, Writers, Successes
<1>. QED
  BY <1>2, <1>3, ReturnKeeps DEF k

(* A record that is in no list has no history.                             *)
LEMMA HeadIsKnown ==
  ASSUME StoreOK, NEW r \in Records, Exists(heads[r])
  PROVE  r \in Known
<1>1. heads[r].seq \in Nat \ {0} /\ DOMAIN history[r] = 1 .. heads[r].seq
  BY DEF StoreOK, RowsOK, HeadType, Exists
<1>2. 1 \in DOMAIN history[r]
  BY <1>1
<1>. QED
  BY <1>2 DEF Known

(* tag begins with every record that cfgit knows.                          *)
LEMMA StartTagStep ==
  ASSUME IInv, NEW o \in Operators, StartTag(o)
  PROVE  IInv'
<1>. DEFINE k == [NoJob EXCEPT !.pc = "tag", !.cmd = "tag", !.todo = Known]
<1>1. Known \in SUBSET Records /\ "tag" \in Pcs /\ "tag" \in Commands
  BY DEF Known, Pcs, Commands
<1>2. /\ k \in Job /\ k.pc = "tag" /\ k.cmd = "tag" /\ k.todo = Known /\ k.report = None
  BY <1>1, NoJobIsJob DEF Job
<1>. HIDE DEF k
<1>3. \A r \in Records : r \in k.todo \/ ~Exists(heads[r])
  BY <1>2, HeadIsKnown DEF IInv
<1>4. TagsOK(k, heads, tags)
  BY <1>2, <1>3 DEF TagsOK
<1>5. JobOK(k, live, heads, tags)
  BY <1>2, <1>4, PlainKeeps
<1>. QED
  BY <1>5, SetKeeps DEF StartTag, Begin, k

(* import --all begins with every record that is there.                    *)
LEMMA StartImportAllStep ==
  ASSUME IInv, NEW o \in Operators, StartImportAll(o)
  PROVE  IInv'
<1>. DEFINE todo == {r \in Records : live[r] # None}
            k == [NoJob EXCEPT !.pc = "sweep", !.cmd = "import", !.todo = todo]
<1>1. todo \in SUBSET Records /\ "sweep" \in Pcs /\ "import" \in Commands
  BY DEF Pcs, Commands
<1>. HIDE DEF todo
<1>2. k \in Job /\ k.pc = "sweep" /\ k.cmd = "import" /\ k.report = None
  BY <1>1, NoJobIsJob DEF Job
<1>. HIDE DEF k
<1>3. TagsOK(k, heads, tags)
  BY <1>2, NoReport DEF TagsOK
<1>4. JobOK(k, live, heads, tags)
  BY <1>2, <1>3, PlainKeeps
<1>. QED
  BY <1>4, SetKeeps DEF StartImportAll, Begin, k, todo

(* adopt --all begins with every record that cfgit knows.                  *)
LEMMA StartAdoptAllStep ==
  ASSUME IInv, NEW o \in Operators, StartAdoptAll(o)
  PROVE  IInv'
<1>. DEFINE k == [NoJob EXCEPT !.pc = "status", !.cmd = "adopt", !.todo = Known]
<1>1. Known \in SUBSET Records /\ "status" \in Pcs /\ "adopt" \in Commands
  BY DEF Known, Pcs, Looking, Commands
<1>2. k \in Job /\ k.pc = "status" /\ k.cmd = "adopt" /\ k.report = None
  BY <1>1, NoJobIsJob DEF Job
<1>. HIDE DEF k
<1>3. TagsOK(k, heads, tags)
  BY <1>2, NoReport DEF TagsOK
<1>4. JobOK(k, live, heads, tags)
  BY <1>2, <1>3, PlainKeeps DEF Looking
<1>. QED
  BY <1>4, SetKeeps DEF StartAdoptAll, Begin, k

(* status reads the live records, or the HEADs, of them all,               *)
LEMMA StatusFirstStep ==
  ASSUME IInv, NEW o \in Operators, StatusFirst(o)
  PROVE  IInv'
<1>. DEFINE j == job[o]
            liveOnes == {r \in j.todo : live[r] # None}
            recorded == {r \in j.todo : Exists(GetHead(r))}
            lives == [r \in liveOnes |-> live[r]]
            docs == [r \in recorded |-> history[r][heads[r].seq].doc]
<1>1. /\ StoreOK /\ j \in Job /\ j.cmd \in {"import", "adopt"} /\ j.report = None
      /\ UNCHANGED storeVars /\ UNCHANGED tags
      /\ \/ Set(o, [j EXCEPT !.pc = "status_heads", !.docs = lives])
         \/ Set(o, [j EXCEPT !.pc = "status_live", !.docs = docs])
  BY DEF IInv, JobsOK, JobOK, PcOK, StatusFirst, Looking
<1>2. liveOnes \in SUBSET Records /\ recorded \in SUBSET Records
  BY <1>1 DEF Job
<1>3. lives \in [liveOnes -> Doc]
  BY <1>1, <1>2 DEF StoreOK
<1>4. ASSUME NEW r \in recorded
      PROVE  history[r][heads[r].seq].doc \in Doc
  <2>1. /\ r \in Records /\ RowsOK(heads[r], history[r])
        /\ heads[r].seq \in Nat /\ heads[r].seq # 0
    BY <1>1, <1>2, GetHeadIsPointer DEF StoreOK, HeadType, Exists
  <2>2. heads[r].seq \in 1 .. heads[r].seq
    BY <2>1
  <2>. QED
    BY <2>1, <2>2 DEF RowsOK, Row
<1>5. docs \in [recorded -> Doc]
  BY <1>4
<1>. HIDE DEF lives, docs, liveOnes, recorded
<1>6. lives \in Partial(Records, Doc) /\ docs \in Partial(Records, Doc)
      /\ "status_heads" \in Pcs /\ "status_live" \in Pcs
  <2>1. lives \in Partial(Records, Doc)
    BY <1>2, <1>3, PartialFacts
  <2>2. docs \in Partial(Records, Doc)
    BY <1>2, <1>5, PartialFacts
  <2>. QED
    BY <2>1, <2>2 DEF Pcs, Looking
<1>7. ASSUME NEW pc \in {"status_heads", "status_live"}, NEW read \in {lives, docs},
             NEW k, k = [j EXCEPT !.pc = pc, !.docs = read], Set(o, k)
      PROVE  IInv'
  <2>1. k \in Job /\ k.pc = pc /\ k.cmd = j.cmd /\ k.report = None
    BY ZenonT(30), <1>1, <1>6, <1>7 DEF Job
  <2>2. TagsOK(k, heads, tags)
    BY <2>1, NoReport DEF TagsOK
  <2>3. JobOK(k, live, heads, tags)
    BY <1>1, <2>1, <2>2, PlainKeeps DEF Looking
  <2>. QED
    BY <1>1, <1>7, <2>3, SetKeeps
<1>. QED
  BY <1>1, <1>7

(* and then the others: adopt --all takes up those that differ.            *)
LEMMA StatusSecondStep ==
  ASSUME IInv, NEW o \in Operators, StatusSecond(o)
  PROVE  IInv'
<1>. DEFINE j == job[o]
            changed ==
              IF j.pc = "status_heads" THEN {r \in DOMAIN j.docs : Drift(j.docs[r], GetHead(r))}
              ELSE {r \in DOMAIN j.docs :
                      live[r] # None /\ HashDoc(live[r]) # HashDoc(j.docs[r])}
            k == [j EXCEPT !.pc = "sweep", !.docs = Nothing, !.todo = changed]
<1>1. /\ j \in Job /\ j.cmd \in {"import", "adopt"} /\ j.report = None
      /\ Set(o, k) /\ UNCHANGED storeVars /\ UNCHANGED tags
  BY DEF IInv, JobsOK, JobOK, PcOK, StatusSecond, Looking
<1>2. j.docs \in Partial(Records, Doc)
  BY <1>1 DEF Job
<1>3. changed \in SUBSET Records /\ Nothing \in Partial(Records, Doc) /\ "sweep" \in Pcs
  BY <1>2, PartialFacts DEF Pcs
<1>. HIDE DEF changed, Nothing
<1>4. k \in Job /\ k.pc = "sweep" /\ k.cmd = j.cmd /\ k.report = None
  BY ZenonT(30), <1>1, <1>3 DEF Job
<1>. HIDE DEF k
<1>5. TagsOK(k, heads, tags)
  BY <1>4, NoReport DEF TagsOK
<1>6. JobOK(k, live, heads, tags)
  BY <1>1, <1>4, <1>5, PlainKeeps
<1>. QED
  BY <1>1, <1>6, SetKeeps

(* tag reads the HEAD of a record.                                         *)
LEMMA TagHeadStep ==
  ASSUME IInv, NEW o \in Operators, TagHead(o)
  PROVE  IInv'
<1>. DEFINE j == job[o]
<1>1. /\ StoreOK /\ j \in Job /\ j.pc = "tag" /\ j.cmd = "tag" /\ j.report = None
      /\ UNCHANGED storeVars /\ UNCHANGED tags /\ j.todo \in SUBSET Records
      /\ j.results \in Partial(Records, States)
      /\ \A r \in Records \ j.touched :
           r \in j.todo \/ (Exists(heads[r]) => <<r, heads[r].seq>> \in tags)
  <2>1. StoreOK /\ JobOK(j, live, heads, tags) /\ j.pc = "tag"
        /\ UNCHANGED storeVars /\ UNCHANGED tags
    BY DEF IInv, JobsOK, TagHead
  <2>. QED
    BY <2>1 DEF JobOK, PcOK, TagsOK, Job
<1>2. CASE j.todo = {} /\ Set(o, Returned(j, "tagged"))
  <2>1. JobOK(Returned(j, "tagged"), live, heads, tags)
    BY <1>1, <1>2, PlainReturns
  <2>. QED
    BY <1>1, <1>2, <2>1, SetKeeps
<1>3. ASSUME NEW r \in j.todo, Exists(GetHead(r)),
             Set(o, [j EXCEPT !.todo = @ \ {r}, !.pc = "add_tag", !.rec = r, !.head = GetHead(r)])
      PROVE  IInv'
  <2>. DEFINE k == [j EXCEPT !.todo = @ \ {r}, !.pc = "add_tag", !.rec = r, !.head = GetHead(r)]
  <2>1. r \in Records /\ GetHead(r) = heads[r] /\ heads[r] \in HeadType /\ "add_tag" \in Pcs
    BY <1>1, GetHeadIsPointer DEF Pcs
  <2>2. /\ k \in Job /\ k.pc = "add_tag" /\ k.cmd = "tag" /\ k.rec = r /\ k.head = heads[r]
        /\ k.report = None /\ k.touched = j.touched /\ k.todo = j.todo \ {r}
    BY ZenonT(30), <1>1, <2>1 DEF Job
  <2>. HIDE DEF k
  <2>3. TagsOK(k, heads, tags)
    BY <1>1, <2>2 DEF TagsOK
  <2>4. JobOK(k, live, heads, tags)
    BY <2>1, <2>2, <2>3, PlainKeeps
  <2>. QED
    BY <1>1, <1>3, <2>4, SetKeeps DEF k
<1>4. ASSUME NEW r \in j.todo, ~Exists(GetHead(r)),
             Set(o, [j EXCEPT !.todo = @ \ {r}, !.results = With(@, r, "skipped_no_head")])
      PROVE  IInv'
  <2>. DEFINE res == With(j.results, r, "skipped_no_head")
              k == [j EXCEPT !.todo = @ \ {r}, !.results = res]
  <2>1. r \in Records /\ ~Exists(heads[r]) /\ "skipped_no_head" \in States
    BY <1>1, <1>4, GetHeadIsPointer DEF States
  <2>2. res \in Partial(Records, States)
    BY <1>1, <2>1, WithIsPartial
  <2>. HIDE DEF res
  <2>3. /\ k \in Job /\ k.pc = "tag" /\ k.cmd = "tag"
        /\ k.report = None /\ k.touched = j.touched /\ k.todo = j.todo \ {r}
    BY ZenonT(30), <1>1, <2>2 DEF Job
  <2>. HIDE DEF k
  <2>4. TagsOK(k, heads, tags)
    BY <1>1, <2>1, <2>3 DEF TagsOK
  <2>5. JobOK(k, live, heads, tags)
    BY <2>3, <2>4, PlainKeeps
  <2>. QED
    BY <1>1, <1>4, <2>5, SetKeeps DEF k, res
<1>. QED
  BY <1>2, <1>3, <1>4 DEF TagHead

(* tag writes the tag, on the version it read.                             *)
LEMMA AddTagStep ==
  ASSUME IInv, NEW o \in Operators, AddTag(o)
  PROVE  IInv'
<1>. DEFINE j == job[o]  r == j.rec  res == With(j.results, r, "tagged")
            k == [j EXCEPT !.pc = "tag", !.rec = None, !.head = NoHead, !.results = res]
<1>1. JobOK(j, live, heads, tags) /\ j.pc = "add_tag"
  BY DEF IInv, JobsOK, AddTag
<1>2. /\ j \in Job /\ j.cmd = "tag" /\ j.report = None /\ r \in Records
      /\ UNCHANGED storeVars /\ tags' = tags \cup {<<r, j.head.seq>>} /\ Set(o, k)
      /\ j.results \in Partial(Records, States)
      /\ r \notin j.touched => j.head = heads[r]
      /\ \A x \in Records \ j.touched :
           x \in j.todo \/ x = r \/ (Exists(heads[x]) => <<x, heads[x].seq>> \in tags)
  BY <1>1 DEF JobOK, PcOK, TagsOK, Job, AddTag
<1>3. "tagged" \in States /\ NoHead \in HeadType /\ "tag" \in Pcs
  BY DEF States, NoHead, HeadType, Pcs
<1>4. res \in Partial(Records, States)
  BY <1>2, <1>3, WithIsPartial
<1>. HIDE DEF res
<1>5. /\ k \in Job /\ k.pc = "tag" /\ k.cmd = "tag" /\ k.report = None
      /\ k.touched = j.touched /\ k.todo = j.todo
  BY ZenonT(30), <1>2, <1>3, <1>4 DEF Job
<1>. HIDE DEF k
<1>6. TagsOK(k, heads, tags')
  BY <1>2, <1>5 DEF TagsOK
<1>7. JobOK(k, live, heads, tags')
  BY <1>5, <1>6, PlainKeeps
<1>. QED
  BY <1>2, <1>7, SetKeeps

(* A transaction on r is a write of r to everybody else.                   *)
LEMMA ApplyRewrites ==
  ASSUME StoreOK, NEW r \in Records, NEW item, Apply(r, item)
  PROVE  Rewrites(r, live, heads, live', heads') /\ UNCHANGED clock
<1>1. /\ heads'[r] = [oid |-> item.entry.oid, seq |-> heads[r].seq + 1]
      /\ \A x \in Records \ {r} : live'[x] = live[x] /\ heads'[x] = heads[x]
  BY ApplyChanges
<1>2. heads[r].seq \in Nat
  BY DEF StoreOK, HeadType
<1>3. Exists(heads'[r])
  BY <1>1, <1>2 DEF Exists
<1>. QED
  BY <1>1, <1>3 DEF Rewrites, Apply

(* So is a version that the main line makes.                               *)
LEMMA VersionRewrites ==
  ASSUME StoreOK, NEW r \in Records, Version(r)
  PROVE  StoreOK' /\ Rewrites(r, live, heads, live', heads') /\ UNCHANGED clock
<1>1. PICK item : Apply(r, item)
  BY DEF Version, Import, Adopt, Commit, Restore
<1>. QED
  BY <1>1, VersionStep, ApplyRewrites

(* A sweep's import or adopt is one of the main line.                      *)
LEMMA SweepIsVersion ==
  ASSUME StoreOK, NEW r \in Records,
         (\E d \in Doc : Import(r, d, clock)) \/ (\E d \in Doc : Adopt(r, d, clock))
  PROVE  Version(r)
<1>1. clock \in 0 .. MaxClock
  BY DEF StoreOK
<1>. QED
  BY <1>1 DEF Version

(* The sweep goes on after r.                                              *)
Swept(j, r, state) == [j EXCEPT !.todo = @ \ {r}, !.results = With(@, r, state)]

(* What import --all and adopt --all note of a record.                     *)
LEMMA SweptFields ==
  ASSUME NEW j \in Job, NEW r \in Records, NEW state \in States
  PROVE  /\ Swept(j, r, state) \in Job /\ Swept(j, r, state).pc = j.pc
         /\ Swept(j, r, state).cmd = j.cmd /\ Swept(j, r, state).report = j.report
<1>. DEFINE res == With(j.results, r, state)
<1>1. j.results \in Partial(Records, States) /\ j.todo \ {r} \in SUBSET Records
  BY DEF Job
<1>2. res \in Partial(Records, States)
  BY <1>1, WithIsPartial
<1>. HIDE DEF res
<1>3. Swept(j, r, state) = [j EXCEPT !.todo = @ \ {r}, !.results = res]
  BY DEF res, Swept
<1>. QED
  BY ZenonT(30), <1>1, <1>2, <1>3 DEF Job

(* import --all or adopt --all takes the next record, in a transaction of  *)
(* its own.                                                                *)
LEMMA SweepStep ==
  ASSUME IInv, NEW o \in Operators, Sweep(o)
  PROVE  IInv'
<1>. DEFINE j == job[o]  rest(r, state) == Swept(j, r, state)
<1>1. /\ StoreOK /\ j \in Job /\ j.pc = "sweep" /\ j.cmd \in {"import", "adopt"}
      /\ j.report = None /\ j.todo \in SUBSET Records /\ j.results \in Partial(Records, States)
      /\ UNCHANGED tags
  <2>1. StoreOK /\ JobOK(j, live, heads, tags) /\ j.pc = "sweep" /\ UNCHANGED tags
    BY DEF IInv, JobsOK, Sweep
  <2>. QED
    BY <2>1 DEF JobOK, PcOK, Job
<1>2. ASSUME NEW k \in Job, k.pc = "sweep", k.cmd = j.cmd, k.report = None, NEW lv, NEW hs
      PROVE  JobOK(k, lv, hs, tags)
  <2>1. TagsOK(k, hs, tags)
    BY <1>2, NoReport DEF TagsOK
  <2>. QED
    BY <1>1, <1>2, <2>1, PlainKeeps
<1>3. ASSUME NEW r \in j.todo, NEW state \in States
      PROVE  /\ rest(r, state) \in Job /\ rest(r, state).pc = "sweep"
             /\ rest(r, state).cmd = j.cmd /\ rest(r, state).report = None
             /\ r \in Records
  BY <1>1, SweptFields
<1>4. ASSUME NEW f \in Job, f.cmd = j.cmd, NEW state \in {"swept", "raised"},
             Set(o, Returned(f, state)), UNCHANGED storeVars
      PROVE  IInv'
  <2>1. JobOK(Returned(f, state), live, heads, tags)
    BY <1>1, <1>4, PlainReturns
  <2>. QED
    BY <1>1, <1>4, <2>1, SetKeeps
<1>5. {"imported", "adopted", "exists", "missing", "clean"} \subseteq States
  BY DEF States
<1>. HIDE DEF rest
<1>6. ASSUME NEW r \in j.todo, NEW state \in {"imported", "adopted"}, Version(r),
             SetWrote(o, rest(r, state), r)
      PROVE  IInv'
  <2>. DEFINE k == rest(r, state)  w == [k EXCEPT !.wrote = @ \cup {r}]
  <2>1. k \in Job /\ k.pc = "sweep" /\ k.cmd = j.cmd /\ k.report = None /\ r \in Records
    BY <1>3, <1>5
  <2>. HIDE DEF k
  <2>2. w \in Job /\ w.pc = "sweep" /\ w.cmd = j.cmd /\ w.report = None
    BY <2>1, WroteFields
  <2>3. StoreOK' /\ Rewrites(r, live, heads, live', heads') /\ UNCHANGED clock
    BY <1>1, <1>6, <2>1, VersionRewrites
  <2>. HIDE DEF w
  <2>4. JobOK(w, live', heads', tags)
    BY <1>2, <2>2
  <2>. QED
    BY <1>1, <1>6, <2>1, <2>3, <2>4, SetWroteKeeps DEF k, w
<1>7. ASSUME NEW r \in j.todo, NEW state \in {"exists", "missing", "clean"},
             Set(o, rest(r, state)), UNCHANGED storeVars
      PROVE  IInv'
  <2>1. JobOK(rest(r, state), live, heads, tags)
    BY <1>2, <1>3, <1>5
  <2>. QED
    BY <1>1, <1>7, <2>1, SetKeeps
<1>8. CASE j.todo = {} /\ Set(o, Returned(j, "swept")) /\ UNCHANGED storeVars
  BY <1>1, <1>4, <1>8
<1>9. ASSUME NEW r \in j.todo, SweepOne(o, r)
      PROVE  IInv'
  <2>1. \/ /\ \E d \in Doc : Import(r, d, clock)
           /\ SetWrote(o, rest(r, "imported"), r)
        \/ /\ \E d \in Doc : Adopt(r, d, clock)
           /\ SetWrote(o, rest(r, "adopted"), r)
        \/ Set(o, rest(r, "exists")) /\ UNCHANGED storeVars
        \/ Set(o, rest(r, "missing")) /\ UNCHANGED storeVars
        \/ Set(o, rest(r, "clean")) /\ UNCHANGED storeVars
        \/ /\ Set(o, Returned([j EXCEPT !.results = Nothing], "raised"))
           /\ UNCHANGED storeVars
    BY <1>9 DEF SweepOne, Swept, rest
  <2>2. CASE Set(o, Returned([j EXCEPT !.results = Nothing], "raised")) /\ UNCHANGED storeVars
    <3>. DEFINE f == [j EXCEPT !.results = Nothing]
    <3>1. Nothing \in Partial(Records, States)
      BY PartialFacts
    <3>2. f \in Job /\ f.cmd = j.cmd
      BY <1>1, <3>1 DEF Job
    <3>. HIDE DEF f
    <3>. QED
      BY <1>4, <2>2, <3>2 DEF f
  <2>3. CASE (\E d \in Doc : Import(r, d, clock)) /\ SetWrote(o, rest(r, "imported"), r)
    BY <1>1, <1>6, <2>3, SweepIsVersion
  <2>4. CASE (\E d \in Doc : Adopt(r, d, clock)) /\ SetWrote(o, rest(r, "adopted"), r)
    BY <1>1, <1>6, <2>4, SweepIsVersion
  <2>. QED
    BY <1>7, <2>1, <2>2, <2>3, <2>4
<1>. QED
  BY <1>8, <1>9 DEF Sweep

(* The process of an operator dies.                                        *)
LEMMA DieStep ==
  ASSUME IInv, NEW o \in Operators, Die(o)
  PROVE  IInv'
<1>. DEFINE k == [NoJob EXCEPT !.pc = "done", !.report = "died"]
<1>1. "done" \in Pcs /\ "died" \in Reports
  BY DEF Pcs, Reports
<1>2. /\ k \in Job /\ k.pc = "done" /\ k.report = "died" /\ k.docs = Nothing /\ k.wrote = {}
  BY <1>1, NoJobIsJob DEF Job
<1>. HIDE DEF k
<1>3. DOMAIN k.docs = {}
  BY <1>2, PartialFacts
<1>4. ReportOK(k) /\ ReadsOK(k, live, heads) /\ TagsOK(k, heads, tags)
  BY <1>2, <1>3 DEF ReportOK, ReadsOK, TagsOK, Successes
<1>5. JobOK(k, live, heads, tags)
  BY <1>2, <1>4, ReturnKeeps
<1>. QED
  BY <1>5, SetKeeps DEF Die, k

-----------------------------------------------------------------------------
(***************************************************************************)
(* The steps of others, and the start.                                     *)
(***************************************************************************)
LEMMA SeedStep ==
  ASSUME StoreOK, NEW r \in Records, NEW s \in DOMAIN history[r],
         NEW at \in 0 .. MaxClock, Seed(r, history[r][s].doc, at)
  PROVE  /\ history[r][s].doc \in Doc
         /\ StoreOK' /\ Rewrites(r, live, heads, live', heads') /\ UNCHANGED clock
<1>. DEFINE d == history[r][s].doc  item == SeedItem(r, d, at)
<1>1. history[r][s] \in Row
  BY DEF StoreOK, RowsOK
<1>2. d \in Doc /\ at \in Nat /\ GetHead(r).oid \in Bodies \cup {None}
  BY <1>1, GetHeadIsPointer, ClockAssumption DEF Row, StoreOK, HeadType
<1>. HIDE DEF d
<1>3. Entry(r, "restore", d, at) \in Row
  BY <1>2, StoredIsDoc DEF Entry, Row, OpNames
<1>4. GoodItem(item)
  BY <1>2, <1>3 DEF GoodItem, SeedItem, Entry
<1>5. Apply(r, item)
  BY DEF Seed, d
<1>. HIDE DEF item
<1>. QED
  BY <1>2, <1>4, <1>5, ApplyStep, ApplyRewrites DEF d

(* Another client or the application writes a record, which is touched for *)
(* every job.                                                              *)
LEMMA OthersStep ==
  ASSUME IInv, Others
  PROVE  IInv'
<1>1. StoreOK /\ UNCHANGED tags
  BY DEF IInv, Others
<1>2. ASSUME NEW r \in Records,
             \/ Version(r)
             \/ \E s \in DOMAIN history[r], at \in 0 .. MaxClock : Seed(r, history[r][s].doc, at)
             \/ Behind(r),
             job' = [o \in Operators |-> Touch(job[o], r)]
      PROVE  IInv'
  <2>1. StoreOK' /\ Rewrites(r, live, heads, live', heads')
    <3>1. CASE Behind(r)
      <4>1. Rewrites(r, live, heads, live', heads')
        BY <1>1, <3>1 DEF Behind, RawWrite, Rewrites, StoreOK
      <4>. QED
        BY <1>1, <3>1, <4>1, BehindStep
    <3>. QED
      BY <1>1, <1>2, <3>1, VersionRewrites, SeedStep
  <2>2. ASSUME NEW o \in Operators
        PROVE  JobOK(job'[o], live', heads', tags')
    <3>1. JobOK(job[o], live, heads, tags)
      BY DEF IInv, JobsOK
    <3>2. JobOK(Touch(job[o], r), live', heads', tags)
      BY <2>1, <3>1, TouchKeeps
    <3>. QED
      BY <1>1, <1>2, <3>2
  <2>3. job' \in [Operators -> Job]
    <3>1. \A o \in Operators : Touch(job[o], r) \in Job
      BY <1>2, <2>2 DEF JobOK
    <3>. QED
      BY <1>2, <3>1
  <2>. QED
    BY <2>1, <2>2, <2>3 DEF IInv, JobsOK
<1>3. ASSUME Tick, UNCHANGED job
      PROVE  IInv'
  <2>1. StoreOK'
    BY <1>1, <1>3 DEF Tick, StoreOK
  <2>. QED
    BY <1>1, <1>3, <2>1 DEF IInv, JobsOK, Tick
<1>. QED
  BY <1>2, <1>3 DEF Others

(* Of the histories an operator may begin with.                            *)
LEMMA PastIsHistory ==
  ASSUME NEW p \in Pasts, NEW ign \in Ignored, NEW at \in [1 .. MaxPast -> 0 .. MaxClock]
  PROVE  RowsOK(IF p = <<>> THEN NoHead ELSE [oid |-> p[Len(p)], seq |-> Len(p)],
                PastRows(p, ign, at))
<1>. DEFINE head == IF p = <<>> THEN NoHead ELSE [oid |-> p[Len(p)], seq |-> Len(p)]
            rows == PastRows(p, ign, at)
<1>1. PICK n \in 0 .. MaxPast : p \in [1 .. n -> Bodies]
  BY DEF Pasts
<1>2. n \in Nat /\ p \in Seq(Bodies)
  BY <1>1, OperatorBounds, SeqDef
<1>3. Len(p) = n /\ (p = <<>> <=> n = 0)
  BY <1>1, <1>2
<1>4. head = IF n = 0 THEN NoHead ELSE [oid |-> p[n], seq |-> n]
  BY <1>3
<1>5. /\ DOMAIN rows = 1 .. n
      /\ \A s \in 1 .. n :
           rows[s] = [oid |-> p[s], parent |-> IF s = 1 THEN None ELSE p[s - 1],
                      doc |-> [body |-> p[s], ign |-> ign, sec |-> None],
                      op |-> IF s = 1 THEN "import" ELSE "commit",
                      from |-> at[s], to |-> IF s = n THEN None ELSE at[s + 1]]
  BY <1>3 DEF PastRows
<1>. HIDE DEF rows, head
<1>6. head \in HeadType /\ head.seq = n /\ (n # 0 => head.oid = p[n])
      /\ (n = 0 => head.oid = None)
  BY <1>1, <1>2, <1>4 DEF HeadType, NoHead
<1>7. ASSUME NEW s \in 1 .. n
      PROVE  /\ rows[s] \in Row
             /\ rows[s].parent = IF s = 1 THEN None ELSE rows[s - 1].oid
             /\ rows[s].to = IF s = n THEN None ELSE rows[s + 1].from
  <2>1. s \in Nat /\ s - 1 \in Nat /\ p[s] \in Bodies
    BY <1>1, <1>2
  <2>2. s # 1 => s - 1 \in 1 .. n /\ p[s - 1] \in Bodies
    BY <1>1, <1>2
  <2>3. s # n => s + 1 \in 1 .. n /\ (s + 1) - 1 = s
    BY <1>1, <1>2
  <2>4. at[s] \in Nat /\ (s # n => at[s + 1] \in Nat)
    <3>1. \A i \in 1 .. n : i \in 1 .. MaxPast /\ at[i] \in Nat
      BY <1>1, OperatorBounds, ClockAssumption
    <3>. QED
      BY <2>3, <3>1
  <2>5. rows[s] \in Row
    BY <1>5, <2>1, <2>2, <2>4 DEF Row, Doc, OpNames
  <2>6. s # n => rows[s + 1].from = at[s + 1]
    BY <1>5, <2>3
  <2>7. rows[s].to = IF s = n THEN None ELSE at[s + 1]
    BY <1>5
  <2>8. rows[s].parent = IF s = 1 THEN None ELSE rows[s - 1].oid
    BY <1>5, <2>2
  <2>. QED
    BY <2>5, <2>6, <2>7, <2>8
<1>8. n # 0 => n \in 1 .. n /\ rows[n].oid = p[n]
  BY <1>2, <1>5
<1>. QED
  BY <1>5, <1>6, <1>7, <1>8 DEF RowsOK, head, rows

(* At first no job runs.                                                   *)
LEMMA InitIInv ==
  BulkInit => IInv
<1>. SUFFICES ASSUME BulkInit PROVE IInv
  OBVIOUS
<1>1. PICK past \in [Records -> Pasts], ign \in Ignored, at \in [1 .. MaxPast -> 0 .. MaxClock] :
        /\ history = [r \in Records |-> PastRows(past[r], ign, at)]
        /\ heads = [r \in Records |->
             IF past[r] = <<>> THEN NoHead
             ELSE [oid |-> past[r][Len(past[r])], seq |-> Len(past[r])]]
  BY DEF BulkInit
<1>2. ASSUME NEW r \in Records
      PROVE  RowsOK(heads[r], history[r])
  <2>1. past[r] \in Pasts
    OBVIOUS
  <2>. QED
    BY <1>1, <2>1, PastIsHistory
<1>3. heads \in [Records -> HeadType] /\ DOMAIN history = Records
  <2>1. \A r \in Records : heads[r] \in HeadType
    BY <1>2 DEF RowsOK
  <2>. QED
    BY <1>1, <2>1
<1>4. clock \in 0 .. MaxClock
  BY ClockAssumption DEF BulkInit
<1>5. StoreOK
  BY <1>2, <1>3, <1>4 DEF StoreOK, BulkInit
<1>6. JobOK(NoJob, live, heads, tags)
  <2>. DEFINE k == NoJob
  <2>1. k \in Job /\ k.pc = "idle" /\ k.cmd = None /\ k.report = None /\ k.wrote = {}
        /\ k.docs = Nothing /\ k = NoJob
    BY NoJobIsJob
  <2>. HIDE DEF k
  <2>2. DOMAIN k.docs = {}
    BY <2>1, PartialFacts
  <2>3. PcOK(k) /\ WroteOK(k) /\ CountsOK(k) /\ PlanOK(k, live, heads)
    BY <2>1 DEF PcOK, WroteOK, CountsOK, PlanOK, Planning, Executing, Looking
  <2>4. ReportOK(k) /\ ReadsOK(k, live, heads) /\ TagsOK(k, heads, tags)
    BY <2>1, <2>2, NoReport DEF ReportOK, ReadsOK, TagsOK, Successes
  <2>5. JobOK(k, live, heads, tags)
    BY <2>1, <2>3, <2>4 DEF JobOK
  <2>. QED
    BY <2>5 DEF k
<1>7. job = [o \in Operators |-> NoJob]
  BY DEF BulkInit
<1>8. JobsOK
  BY <1>6, <1>7 DEF JobsOK, JobOK
<1>. QED
  BY <1>5, <1>8 DEF IInv

(* Every step keeps it.                                                    *)
LEMMA NextIInv ==
  IInv /\ [BulkNext]_bulkVars => IInv'
<1>. SUFFICES ASSUME IInv, [BulkNext]_bulkVars PROVE IInv'
  OBVIOUS
<1>1. ASSUME NEW o \in Operators, Call(o) PROVE IInv'
  BY <1>1, StartCommitManyStep, StartRestoreAsOfStep, StartRestoreTagStep, StartTagStep,
     StartImportAllStep, StartAdoptAllStep DEF Call
<1>2. ASSUME NEW o \in Operators, Work(o) PROVE IInv'
  BY <1>2, GatherStep, PlanLiveStep, PlanHeadStep, WriteNextStep, RestoreLiveStep,
     RestoreHeadStep, RestoreApplyStep, TagHeadStep, AddTagStep, StatusFirstStep,
     StatusSecondStep, SweepStep DEF Work
<1>3. ASSUME NEW o \in Operators, Die(o) PROVE IInv'
  BY <1>3, DieStep
<1>4. CASE UNCHANGED bulkVars
  <2>1. StoreOK' /\ UNCHANGED <<live, heads, clock, tags, job>>
    BY <1>4 DEF IInv, StoreOK, bulkVars
  <2>. QED
    BY <2>1 DEF IInv, JobsOK
<1>. QED
  BY <1>1, <1>2, <1>3, <1>4, OthersStep DEF BulkNext

-----------------------------------------------------------------------------
(***************************************************************************)
(* The theorems.                                                           *)
(***************************************************************************)

(* Whatever others write meanwhile, the store is in order and every job is *)
(* right about the records nobody else wrote (commit_many, tag,            *)
(* restore_system_as_of and the --all verbs).                              *)
THEOREM Invariance ==
  BulkSpec => []IInv
<1>. QED
  BY InitIInv, NextIInv, PTL DEF BulkSpec

(* The jobs have their types.                                              *)
THEOREM JobTypes ==
  BulkSpec => [](job \in [Operators -> Job] /\ live \in [Records -> Doc \cup {None}])
<1>1. IInv => job \in [Operators -> Job] /\ live \in [Records -> Doc \cup {None}]
  BY DEF IInv, JobsOK, StoreOK
<1>. QED
  BY <1>1, Invariance, PTL

(* One record that may not be written keeps all others from being written, *)
(* and a preview writes nothing, whatever others do meanwhile.             *)
THEOREM BlockedIsUntouched ==
  BulkSpec => []BlockedWritesNothing
<1>1. IInv => BlockedWritesNothing
  BY DEF IInv, JobsOK, JobOK, ReportOK, BlockedWritesNothing, Writers
<1>. QED
  BY <1>1, Invariance, PTL

(* A report accounts for every record of the call.                         *)
THEOREM ReportsAccount ==
  BulkSpec => []ReportAccounts
<1>1. ASSUME IInv, NEW o \in Operators,
             job[o].report \in {"committed", "noop", "restored", "partial"}
      PROVE  /\ DOMAIN job[o].docs \subseteq
                  DOMAIN job[o].results \cup job[o].failed \cup job[o].pending
             /\ DOMAIN job[o].results \cap (job[o].failed \cup job[o].pending) = {}
             /\ job[o].failed \cap job[o].pending = {}
             /\ Claimed(job[o]) \subseteq job[o].wrote
             /\ job[o].wrote \subseteq Claimed(job[o]) \cup job[o].failed \cup job[o].pending
  <2>1. ReportOK(job[o]) /\ job[o].report \in Successes \cup {"partial"}
    BY <1>1 DEF IInv, JobsOK, JobOK, Successes
  <2>. QED
    BY <2>1 DEF ReportOK
<1>2. IInv => ReportAccounts
  BY <1>1 DEF ReportAccounts
<1>. QED
  BY <1>2, Invariance, PTL

(* What a success reports is there, of all records nobody else wrote.      *)
THEOREM SuccessesAreThere ==
  BulkSpec => []SuccessIsThere
<1>1. ASSUME IInv, NEW o \in Operators, job[o].report \in {"committed", "noop", "restored"},
             NEW r \in DOMAIN job[o].docs \ job[o].touched
      PROVE  LET oid == HashDoc(job[o].docs[r])
             IN  /\ Exists(GetHead(r)) /\ GetHead(r).oid = oid
                 /\ live[r] # None
                 /\ HashDoc(live[r]) = IF r \in job[o].wrote THEN RuntimeBody[oid] ELSE oid
  <2>. DEFINE j == job[o]
  <2>1. /\ StoreOK /\ j \in Job /\ ReportOK(j) /\ ReadsOK(j, live, heads)
        /\ j.report \in Successes
    BY <1>1 DEF IInv, JobsOK, JobOK, Successes
  <2>2. r \in Records /\ j.docs[r] \in Doc
    BY <2>1, PartialFacts DEF Job
  <2>. HIDE DEF j
  <2>3. j.cmd \in Writers /\ r \in (DOMAIN j.results \cap DOMAIN j.docs) \ j.touched
    BY <1>1, <2>1 DEF ReportOK, j
  <2>4. IsThere(j, r, j.results[r], live, heads)
    BY <2>1, <2>3 DEF ReadsOK
  <2>5. r \in j.wrote <=> j.results[r] \in Claims
    BY <2>1, <2>3 DEF ReportOK, Claimed, Claims
  <2>6. GetHead(r) = heads[r] /\ (Exists(heads[r]) <=> heads[r].oid # None)
    BY <2>1, <2>2, GetHeadIsPointer, HeadHasOid
  <2>7. HashDoc(j.docs[r]) # None
    BY <2>2, StoredIsDoc
  <2>. QED
    BY <2>4, <2>5, <2>6, <2>7 DEF IsThere, j
<1>2. IInv => SuccessIsThere
  BY <1>1 DEF SuccessIsThere
<1>. QED
  BY <1>2, Invariance, PTL

(* A tag names HEAD of all records nobody wrote while it was being set.    *)
THEOREM TagsAreHeads ==
  BulkSpec => []TagIsHeads
<1>1. ASSUME IInv, NEW o \in Operators, job[o].report = "tagged",
             NEW r \in Records \ job[o].touched, Exists(GetHead(r))
      PROVE  <<r, heads[r].seq>> \in tags
  <2>1. JobOK(job[o], live, heads, tags)
    BY <1>1 DEF IInv, JobsOK
  <2>2. job[o].pc = "done"
    BY <1>1, <2>1, NoReport DEF JobOK, PcOK
  <2>3. GetHead(r) = heads[r]
    BY <1>1, GetHeadIsPointer DEF IInv
  <2>. QED
    BY <1>1, <2>1, <2>2, <2>3 DEF JobOK, TagsOK
<1>2. IInv => TagIsHeads
  BY <1>1 DEF TagIsHeads
<1>. QED
  BY <1>2, Invariance, PTL

(* The store is in order whatever these operations do.                     *)
THEOREM StoreStays ==
  BulkSpec => [](HeadIsLastRow /\ ParentChain /\ IntervalsAbut)
<1>1. ASSUME IInv, NEW r \in Records
      PROVE  RowsOK(heads[r], history[r])
  BY <1>1 DEF IInv, StoreOK
<1>2. IInv => HeadIsLastRow
  <2>1. ASSUME IInv, NEW r \in Records
        PROVE  /\ DOMAIN history[r] = 1 .. heads[r].seq
               /\ heads[r].oid = IF heads[r].seq = 0 THEN None ELSE history[r][heads[r].seq].oid
    BY <1>1, <2>1 DEF RowsOK
  <2>. QED
    BY <2>1 DEF HeadIsLastRow
<1>3. IInv => ParentChain
  BY <1>1 DEF RowsOK, ParentChain
<1>4. IInv => IntervalsAbut
  BY <1>1 DEF RowsOK, IntervalsAbut
<1>. QED
  BY <1>2, <1>3, <1>4, Invariance, PTL

-----------------------------------------------------------------------------
(***************************************************************************)
(* What a step of these operations writes.                                 *)
(***************************************************************************)
LEMMA SweepWrites ==
  ASSUME StoreOK, NEW o \in Operators, Sweep(o), job[o].todo \subseteq Records
  PROVE  UNCHANGED storeVars \/ \E r \in Records : Version(r)
<1>1. ASSUME NEW r \in job[o].todo, SweepOne(o, r)
      PROVE  UNCHANGED storeVars \/ Version(r)
  BY <1>1, SweepIsVersion DEF SweepOne
<1>. QED
  BY <1>1 DEF Sweep

(* Every step that writes the store is one of the main line, or inserts    *)
(* where nothing is live, decided on the present.                          *)
THEOREM ActOnPresent ==
  BulkSpec => BulkActsOnPresent
<1>. DEFINE Allowed == \/ UNCHANGED storeVars
                       \/ MainNext
                       \/ \E r \in Records, d \in Doc, at \in 0 .. MaxClock : Seed(r, d, at)
<1>1. ASSUME IInv, NEW o \in Operators, Call(o) PROVE UNCHANGED storeVars
  BY <1>1 DEF Call, StartCommitMany, StartRestoreAsOf, StartRestoreTag, StartTag,
     StartImportAll, StartAdoptAll, Begin
<1>2. ASSUME IInv, NEW o \in Operators, WriteNext(o) PROVE Allowed
  <2>. DEFINE j == job[o]  p == Head(j.plan)
  <2>1. StoreOK /\ JobOK(j, live, heads, tags) /\ j.pc = "write" /\ j.cmd = "commit"
    BY <1>2 DEF IInv, JobsOK, WriteNext
  <2>2. \/ UNCHANGED storeVars
        \/ j.plan # <<>> /\ p.state = "ready" /\ Apply(p.rec, BulkItem(p, "commit"))
    BY <1>2 DEF WriteNext
  <2>3. ASSUME j.plan # <<>>, p.state = "ready", Apply(p.rec, BulkItem(p, "commit"))
        PROVE  \E r \in Records : Version(r)
    <3>1. p.rec \in Records
      BY <2>1, <2>3, HeadEntry DEF Executing
    <3>2. Commit(p.rec, p.doc, p.from) /\ p.doc \in Doc /\ p.from \in 0 .. MaxClock
      BY <2>1, <2>3, WriteIsCommit
    <3>. QED
      BY <3>1, <3>2 DEF Version
  <2>. QED
    BY <2>2, <2>3 DEF MainNext
<1>3. ASSUME IInv, NEW o \in Operators, RestoreApply(o) PROVE Allowed
  <2>. DEFINE j == job[o]  p == Head(j.plan)
  <2>1. StoreOK /\ JobOK(j, live, heads, tags) /\ j.pc = "restore_apply"
    BY <1>3 DEF IInv, JobsOK, RestoreApply
  <2>2. UNCHANGED storeVars \/ Apply(p.rec, BulkItem(p, "restore"))
    BY <1>3 DEF RestoreApply
  <2>3. ASSUME Apply(p.rec, BulkItem(p, "restore"))
        PROVE  Allowed
    <3>1. j.plan # <<>>
      BY <2>1 DEF JobOK, PcOK
    <3>2. p.rec \in Records
      BY <2>1, <3>1, HeadEntry DEF Executing
    <3>3. /\ Restore(p.rec, p.doc, p.from) \/ Seed(p.rec, p.doc, p.from)
          /\ p.doc \in Doc /\ p.from \in 0 .. MaxClock
      BY <2>1, <2>3, RestoreIsRestore
    <3>. QED
      BY <3>2, <3>3 DEF Version, MainNext
  <2>. QED
    BY <2>2, <2>3
<1>4. ASSUME IInv, NEW o \in Operators, Sweep(o) PROVE Allowed
  <2>1. StoreOK /\ job[o].todo \subseteq Records
    BY <1>4 DEF IInv, JobsOK, Job
  <2>. QED
    BY <1>4, <2>1, SweepWrites DEF MainNext
<1>5. ASSUME IInv, NEW o \in Operators, Work(o) PROVE Allowed
  <2>1. \/ UNCHANGED storeVars \/ WriteNext(o) \/ RestoreApply(o) \/ Sweep(o)
    BY <1>5 DEF Work, Gather, PlanLive, PlanHead, RestoreLive, RestoreHead, TagHead, AddTag,
       StatusFirst, StatusSecond
  <2>. QED
    BY <1>2, <1>3, <1>4, <1>5, <2>1
<1>6. ASSUME IInv, Others PROVE Allowed
  <2>1. \/ Tick
        \/ \E r \in Records :
             \/ Version(r)
             \/ \E s \in DOMAIN history[r], at \in 0 .. MaxClock : Seed(r, history[r][s].doc, at)
             \/ Behind(r)
    BY <1>6 DEF Others
  <2>2. ASSUME NEW r \in Records, NEW s \in DOMAIN history[r], NEW at \in 0 .. MaxClock,
               Seed(r, history[r][s].doc, at)
        PROVE  Allowed
    <3>1. history[r][s].doc \in Doc
      BY <1>6, <2>2, SeedStep DEF IInv
    <3>. QED
      BY <2>2, <3>1
  <2>. QED
    BY <2>1, <2>2 DEF MainNext
<1>7. IInv /\ [BulkNext]_bulkVars => [Allowed]_storeVars
  <2>1. ASSUME IInv, NEW o \in Operators, Die(o) PROVE UNCHANGED storeVars
    BY <2>1 DEF Die
  <2>2. UNCHANGED bulkVars => UNCHANGED storeVars
    BY DEF bulkVars, storeVars
  <2>. HIDE DEF Allowed
  <2>3. ASSUME UNCHANGED storeVars PROVE Allowed
    BY <2>3 DEF Allowed
  <2>. QED
    BY <1>1, <1>5, <1>6, <2>1, <2>2, <2>3 DEF BulkNext
<1>. QED
  BY <1>7, Invariance, PTL DEF BulkSpec, BulkActsOnPresent

-----------------------------------------------------------------------------
(***************************************************************************)
(* What a job writes.                                                      *)
(***************************************************************************)

(* Every record o writes in this step that nobody else wrote was missing,  *)
(* or gets another content at HEAD.                                        *)
NoRewrite(o) ==
  job[o].cmd \in Writers =>
    \A r \in (job'[o].wrote \ job[o].wrote) \ job[o].touched :
      live[r] = None \/ heads'[r].oid # heads[r].oid

(* A job that only reads, or stops, has written nothing more.              *)
LEMMA SetWrites ==
  ASSUME IInv, NEW o \in Operators, NEW k, Set(o, k), k.wrote \subseteq job[o].wrote,
         NEW x \in Operators
  PROVE  job'[x].wrote \subseteq job[x].wrote
BY DEF Set, IInv, JobsOK

Quiet(o) == \A x \in Operators : job'[x].wrote \subseteq job[x].wrote

(* A step that notes no further record as written is quiet.                *)
LEMMA SetIsQuiet ==
  ASSUME IInv, NEW o \in Operators
  PROVE  \A k : Set(o, k) /\ k.wrote \subseteq job[o].wrote => Quiet(o)
BY SetWrites DEF Quiet

(* So is a command that begins.                                            *)
LEMMA BeginIsQuiet ==
  ASSUME IInv, NEW o \in Operators
  PROVE  \A k : Begin(o, k) /\ k.wrote \subseteq {} => Quiet(o)
BY SetIsQuiet DEF Begin

(* What is quiet rewrites nothing.                                         *)
LEMMA QuietIsNoRewrite ==
  ASSUME NEW o, Quiet(o), NEW x \in Operators
  PROVE  NoRewrite(x)
BY DEF Quiet, NoRewrite

(* That others wrote is not what a job wrote.                              *)
LEMMA TouchWrites ==
  ASSUME IInv, NEW x \in Operators, NEW r
  PROVE  Touch(job[x], r).wrote = job[x].wrote
<1>1. job[x] \in Job
  BY DEF IInv, JobsOK
<1>. QED
  BY <1>1 DEF Touch, Job

(* A write of the first entry of the plan.                                 *)
LEMMA EntryWrites ==
  ASSUME IInv, NEW o \in Operators, job[o].pc \in Executing, job[o].plan # <<>>,
         NEW p, p = Head(job[o].plan), p.state = "ready",
         NEW op \in {"commit", "restore"}, Apply(p.rec, BulkItem(p, op)),
         NEW k, SetWrote(o, k, p.rec), "wrote" \in DOMAIN k, k.wrote \subseteq job[o].wrote,
         NEW x \in Operators
  PROVE  NoRewrite(x)
<1>. DEFINE j == job[o]  r == p.rec
<1>1. StoreOK /\ JobOK(j, live, heads, tags)
  BY DEF IInv, JobsOK
<1>2. /\ heads[r].oid = p.head.oid /\ heads'[r].oid = HashDoc(p.doc)
      /\ r \notin j.touched => EntryFresh(p, live, heads)
  BY <1>1, EntryApplies, HeadEntry
<1>3. r \notin j.touched => live[r] = None \/ heads'[r].oid # heads[r].oid
  BY <1>2 DEF EntryFresh
<1>4. CASE x = o
  <2>1. job'[x] = [k EXCEPT !.wrote = @ \cup {r}]
    BY <1>4 DEF SetWrote
  <2>2. job'[x].wrote = k.wrote \cup {r}
    BY <2>1
  <2>. QED
    BY <1>3, <1>4, <2>2 DEF NoRewrite
<1>5. CASE x # o
  <2>1. job'[x] = Touch(job[x], r)
    BY <1>5 DEF SetWrote
  <2>. QED
    BY <2>1, TouchWrites DEF NoRewrite
<1>. QED
  BY <1>4, <1>5

(* A command that returns keeps the list of what it wrote.                 *)
LEMMA ReturnWrites ==
  ASSUME NEW j \in Job, NEW state
  PROVE  Returned(j, state).wrote = j.wrote /\ "wrote" \in DOMAIN Returned(j, state)
BY DEF Returned, Job

(* So does one that fails or is cancelled,                                 *)
LEMMA StopWrites ==
  ASSUME NEW j \in Job
  PROVE  /\ Failed(j).wrote = j.wrote /\ "wrote" \in DOMAIN Failed(j)
         /\ Cancelled(j).wrote = j.wrote /\ "wrote" \in DOMAIN Cancelled(j)
BY DEF Failed, Cancelled, Returned, Job

(* and one that notes what became of a record.                             *)
LEMMA NotedWrites ==
  ASSUME NEW j \in Job, NEW state
  PROVE  Noted(j, state).wrote = j.wrote /\ "wrote" \in DOMAIN Noted(j, state)
BY DEF Noted, Job

(* Neither a bulk commit nor a system restore writes what HEAD says        *)
(* already, of a record nobody else writes.                                *)
THEOREM RerunsSkip ==
  BulkSpec => RerunSkipsApplied
<1>1. ASSUME IInv, NEW o \in Operators, NEW k, Set(o, k), k.wrote \subseteq job[o].wrote,
             NEW x \in Operators
      PROVE  NoRewrite(x)
  BY <1>1, SetWrites DEF NoRewrite
<1>2. ASSUME IInv, NEW o \in Operators, Call(o) \/ Die(o), NEW x \in Operators
      PROVE  NoRewrite(x)
  <2>1. ASSUME NEW docs, NEW dry, StartCommitMany(o, docs, dry) PROVE Quiet(o)
    BY <1>2, <2>1, BeginIsQuiet DEF StartCommitMany, NoJob
  <2>2. ASSUME NEW t, NEW dry, StartRestoreAsOf(o, t, dry) PROVE Quiet(o)
    BY <1>2, <2>2, BeginIsQuiet DEF StartRestoreAsOf, NoJob
  <2>3. ASSUME NEW dry, StartRestoreTag(o, dry) PROVE Quiet(o)
    BY <1>2, <2>3, BeginIsQuiet DEF StartRestoreTag, NoJob, Returned
  <2>4. ASSUME StartTag(o) PROVE Quiet(o)
    BY <1>2, <2>4, BeginIsQuiet DEF StartTag, NoJob
  <2>5. ASSUME StartImportAll(o) PROVE Quiet(o)
    BY <1>2, <2>5, BeginIsQuiet DEF StartImportAll, NoJob
  <2>6. ASSUME StartAdoptAll(o) PROVE Quiet(o)
    BY <1>2, <2>6, BeginIsQuiet DEF StartAdoptAll, NoJob
  <2>7. ASSUME Die(o) PROVE Quiet(o)
    BY <1>2, <2>7, SetIsQuiet DEF Die, NoJob
  <2>. QED
    BY <1>2, <2>1, <2>2, <2>3, <2>4, <2>5, <2>6, <2>7, QuietIsNoRewrite DEF Call
<1>3. ASSUME IInv, NEW o \in Operators, NEW x \in Operators,
             \/ Gather(o) \/ PlanLive(o) \/ PlanHead(o) \/ RestoreLive(o) \/ RestoreHead(o)
             \/ TagHead(o) \/ AddTag(o) \/ StatusFirst(o) \/ StatusSecond(o)
      PROVE  NoRewrite(x)
  <2>. DEFINE j == job[o]
  <2>1. j \in Job /\ "wrote" \in DOMAIN j
    BY <1>3 DEF IInv, JobsOK, Job
  <2>2. \A state : Returned(j, state).wrote = j.wrote
    BY <2>1, ReturnWrites
  <2>3. ASSUME Gather(o) PROVE Quiet(o)
    BY <1>3, <2>1, <2>2, <2>3, SetIsQuiet DEF Gather
  <2>4. ASSUME PlanLive(o) PROVE Quiet(o)
    BY <1>3, <2>1, <2>4, SetIsQuiet DEF PlanLive
  <2>5. ASSUME PlanHead(o) PROVE Quiet(o)
    BY <1>3, <2>1, <2>2, <2>5, SetIsQuiet DEF PlanHead, AfterPlan, Returned
  <2>6. ASSUME RestoreLive(o) PROVE Quiet(o)
    BY <1>3, <2>1, <2>2, <2>6, SetIsQuiet DEF RestoreLive
  <2>7. ASSUME RestoreHead(o) PROVE Quiet(o)
    BY <1>3, <2>1, <2>7, SetIsQuiet DEF RestoreHead, Noted
  <2>8. ASSUME TagHead(o) PROVE Quiet(o)
    BY <1>3, <2>1, <2>2, <2>8, SetIsQuiet DEF TagHead
  <2>9. ASSUME AddTag(o) PROVE Quiet(o)
    BY <1>3, <2>1, <2>9, SetIsQuiet DEF AddTag
  <2>10. ASSUME StatusFirst(o) PROVE Quiet(o)
    BY <1>3, <2>1, <2>10, SetIsQuiet DEF StatusFirst
  <2>11. ASSUME StatusSecond(o) PROVE Quiet(o)
    BY <1>3, <2>1, <2>11, SetIsQuiet DEF StatusSecond
  <2>. QED
    BY <1>3, <2>3, <2>4, <2>5, <2>6, <2>7, <2>8, <2>9, <2>10, <2>11, QuietIsNoRewrite
<1>4. ASSUME IInv, NEW o \in Operators, WriteNext(o), NEW x \in Operators
      PROVE  NoRewrite(x)
  <2>. DEFINE j == job[o]  p == Head(j.plan)
  <2>1. j \in Job /\ j.pc \in Executing
    BY <1>4 DEF IInv, JobsOK, WriteNext, Executing
  <2>2. /\ Returned(j, Overall(j)).wrote = j.wrote
        /\ Failed(j).wrote = j.wrote /\ "wrote" \in DOMAIN Failed(j)
        /\ Cancelled(j).wrote = j.wrote /\ "wrote" \in DOMAIN Cancelled(j)
    BY <2>1, ReturnWrites, StopWrites
  <2>3. /\ Noted(j, "noop").wrote = j.wrote
        /\ Noted(j, "committed").wrote = j.wrote /\ "wrote" \in DOMAIN Noted(j, "committed")
    BY <2>1, NotedWrites
  <2>4. \/ \E k : Set(o, k) /\ k.wrote = j.wrote
        \/ /\ j.plan # <<>> /\ p.state = "ready" /\ Apply(p.rec, BulkItem(p, "commit"))
           /\ \E k \in {Noted(j, "committed"), Failed(j), Cancelled(j)} : SetWrote(o, k, p.rec)
    BY <1>4, <2>2, <2>3 DEF WriteNext
  <2>5. ASSUME j.plan # <<>>, p.state = "ready", Apply(p.rec, BulkItem(p, "commit")),
               NEW k \in {Noted(j, "committed"), Failed(j), Cancelled(j)}, SetWrote(o, k, p.rec)
        PROVE  NoRewrite(x)
    <3>1. "wrote" \in DOMAIN k /\ k.wrote \subseteq job[o].wrote
      BY <2>2, <2>3, <2>5
    <3>. QED
      BY <1>4, <2>1, <2>5, <3>1, EntryWrites
  <2>. QED
    BY <1>1, <1>4, <2>4, <2>5
<1>5. ASSUME IInv, NEW o \in Operators, RestoreApply(o), NEW x \in Operators
      PROVE  NoRewrite(x)
  <2>. DEFINE j == job[o]  p == Head(j.plan)
              back == [j EXCEPT !.pc = "write", !.rec = None, !.live = None, !.head = NoHead]
              failed == [back EXCEPT !.plan = Tail(@), !.failed = @ \cup {p.rec}]
              state == IF p.seed THEN "restored_deleted" ELSE "restored"
  <2>1. /\ j \in Job /\ j.pc \in Executing /\ j.plan # <<>> /\ p.state = "ready"
    <3>1. JobOK(j, live, heads, tags) /\ j.pc = "restore_apply"
      BY <1>5 DEF IInv, JobsOK, RestoreApply
    <3>2. j.plan # <<>> /\ j.cmd = "restore"
      BY <3>1 DEF JobOK, PcOK
    <3>3. EntryOK(j, p)
      BY <3>1, <3>2, HeadEntry DEF Executing
    <3>. QED
      BY <3>1, <3>2, <3>3 DEF EntryOK, Executing, JobOK
  <2>2. back \in Job /\ back.wrote = j.wrote
    BY <2>1, BackFields DEF BackTo
  <2>3. failed.wrote = j.wrote /\ "wrote" \in DOMAIN failed
    BY <2>1 DEF Job
  <2>. HIDE DEF back, failed, state
  <2>4. Noted(back, state).wrote = j.wrote /\ "wrote" \in DOMAIN Noted(back, state)
    BY <2>2, NotedWrites
  <2>5. \/ Set(o, failed)
        \/ /\ Apply(p.rec, BulkItem(p, "restore"))
           /\ \E k \in {Noted(back, state), failed} : SetWrote(o, k, p.rec)
    BY <1>5 DEF RestoreApply, failed, back, state
  <2>6. ASSUME Apply(p.rec, BulkItem(p, "restore")),
               NEW k \in {Noted(back, state), failed}, SetWrote(o, k, p.rec)
        PROVE  NoRewrite(x)
    <3>1. "wrote" \in DOMAIN k /\ k.wrote \subseteq job[o].wrote
      BY <2>3, <2>4
    <3>. QED
      BY <1>5, <2>1, <2>6, <3>1, EntryWrites
  <2>7. Set(o, failed) => NoRewrite(x)
    BY <1>1, <1>5, <2>3
  <2>. QED
    BY <2>5, <2>6, <2>7
<1>6. ASSUME IInv, NEW o \in Operators, Sweep(o), NEW x \in Operators
      PROVE  NoRewrite(x)
  <2>1. CASE x = o
    <3>1. JobOK(job[o], live, heads, tags) /\ job[o].pc = "sweep"
      BY <1>6 DEF IInv, JobsOK, Sweep
    <3>2. job[o].cmd \notin Writers
      BY <3>1 DEF JobOK, PcOK, Writers
    <3>. QED
      BY <2>1, <3>2 DEF NoRewrite
  <2>2. CASE x # o
    <3>1. (\E k : Set(o, k)) \/ (\E k, r : SetWrote(o, k, r))
      BY <1>6 DEF Sweep, SweepOne
    <3>2. job'[x] = job[x] \/ \E r : job'[x] = Touch(job[x], r)
      BY <1>6, <2>2, <3>1 DEF Set, SetWrote, IInv, JobsOK
    <3>3. job'[x].wrote = job[x].wrote
      BY <1>6, <3>2, TouchWrites
    <3>. QED
      BY <3>3 DEF NoRewrite
  <2>. QED
    BY <2>1, <2>2
<1>7. ASSUME IInv, Others, NEW x \in Operators
      PROVE  NoRewrite(x)
  <2>1. job'[x] = job[x] \/ \E r : job'[x] = Touch(job[x], r)
    BY <1>7 DEF Others
  <2>2. job'[x].wrote = job[x].wrote
    BY <1>7, <2>1, TouchWrites
  <2>. QED
    BY <2>2 DEF NoRewrite
<1>8. ASSUME IInv, UNCHANGED bulkVars, NEW x \in Operators
      PROVE  NoRewrite(x)
  BY <1>8 DEF bulkVars, NoRewrite
<1>9. ASSUME IInv, [BulkNext]_bulkVars, NEW x \in Operators
      PROVE  NoRewrite(x)
  <2>1. ASSUME NEW o \in Operators, Call(o) \/ Work(o) \/ Die(o)
        PROVE  NoRewrite(x)
    BY <1>2, <1>3, <1>4, <1>5, <1>6, <1>9, <2>1 DEF Work
  <2>. QED
    BY <1>7, <1>8, <1>9, <2>1 DEF BulkNext
<1>. DEFINE NoOther == \A o \in Operators : NoRewrite(o)
<1>10. IInv /\ [BulkNext]_bulkVars => [NoOther]_bulkVars
  BY <1>9
<1>11. NoOther => \A o \in Operators :
         LET new == job'[o].wrote \ job[o].wrote
         IN  job[o].cmd \in {"commit", "restore"} =>
               \A r \in new \ job[o].touched :
                 live[r] = None \/ heads'[r].oid # heads[r].oid
  BY DEF NoRewrite, Writers
<1>. HIDE DEF NoOther
<1>. QED
  BY <1>10, <1>11, Invariance, PTL DEF BulkSpec, RerunSkipsApplied
=============================================================================
