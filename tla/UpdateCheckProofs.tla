------------------------- MODULE UpdateCheckProofs -------------------------
(***************************************************************************)
(* Proofs about UpdateCheck, for any number of processes, any interval,    *)
(* any snooze and any bounds.                                              *)
(***************************************************************************)
EXTENDS UpdateCheck, TLAPS

(***************************************************************************)
(* The types of what the invariant speaks of.                              *)
(***************************************************************************)
MaybeNat == Nat \cup {None}

Saved == [latest : MaybeNat, checked : MaybeNat, until : MaybeNat]

Agreement == [checked : MaybeNat, until : MaybeNat]

Kinds == {"nudge", "agent", "asked", "snooze"}

Job ==
  [pc : {"idle", "load", "fetch", "empty", "fill", "done"}, kind : Kinds \cup {None},
   at : Nat, state : Saved, agreed : Agreement, alone : BOOLEAN, says : MaybeNat]

UpdateTypeOK ==
  /\ clock \in Nat /\ installed \in Nat /\ released \in Nat /\ begun \in Nat
  /\ file \in Saved
  /\ agreed \in Agreement
  /\ proc \in [Procs -> Job]

(***************************************************************************)
(* The inductive invariant.  What was agreed is what the file says, as     *)
(* long as nobody is half way through writing it ...                       *)
(***************************************************************************)
Covers(a, state) ==
  /\ a.until # None => state.until = a.until
  /\ a.checked # None => state.checked = a.checked

FileKept == (\A p \in Procs : ~Writing(p)) => Covers(agreed, file)

(* ... and what an undisturbed call remembers of the file, and is going to *)
(* write back, is what was agreed when it read it; a reminder gets past    *)
(* the read only when no silence was promised, and to the network only     *)
(* when the last check is old.                                             *)
JobOK(j) ==
  j.alone =>
    /\ j.pc = "fetch" => j.kind # "snooze" /\ Covers(j.agreed, j.state)
    /\ j.pc \in {"empty", "fill"} => Covers(Agreed(j), j.state)
    /\ j.kind = "nudge" =>
         /\ (j.pc \in {"fetch", "empty", "fill"} \/ (j.pc = "done" /\ j.says # None))
              => ~Snoozed(j.agreed, j.at)
         /\ j.pc = "fetch" => ~CheckedRecently(j.agreed, j.at)

IInv ==
  /\ UpdateTypeOK
  /\ FileKept
  /\ \A p \in Procs : JobOK(proc[p])

-----------------------------------------------------------------------------
(***************************************************************************)
(* Lemmas about jobs.                                                      *)
(***************************************************************************)

(* A process that is not calling, or died, is safe.                        *)
LEMMA IdleIsJob == Idle \in Job /\ JobOK(Idle)
<1>1. Empty \in Saved /\ Nothing \in Agreement
  BY DEF Empty, Saved, Nothing, Agreement, MaybeNat
<1>2. Idle \in Job
  BY <1>1 DEF Idle, Job, MaybeNat
<1>3. Idle.pc = "idle" /\ Idle.kind = None
  BY DEF Idle
<1>. QED
  BY <1>2, <1>3 DEF JobOK, Idle

(* A call that returns has its type, and what it says is all that counts.  *)
LEMMA ReturnIsJob ==
  ASSUME NEW j \in Job, NEW says \in MaybeNat
  PROVE  /\ Return(j, says) \in Job
         /\ Return(j, says).pc = "done" /\ Return(j, says).kind = j.kind
         /\ Return(j, says).at = j.at /\ Return(j, says).agreed = j.agreed
         /\ Return(j, says).alone = j.alone /\ Return(j, says).says = says
<1>1. Idle \in Job
  BY IdleIsJob
<1>. QED
  BY <1>1 DEF Return, Job

(* Returning is safe for a call that says nothing, and for one whose       *)
(* reminder was not to be silenced.                                        *)
LEMMA ReturnIsOK ==
  ASSUME NEW j \in Job, NEW says \in MaybeNat,
         j.alone /\ j.kind = "nudge" /\ says # None => ~Snoozed(j.agreed, j.at)
  PROVE  JobOK(Return(j, says))
BY ReturnIsJob DEF JobOK

(* What is not promised in the file as it is covers no snooze and no check.*)
LEMMA CoversHolds ==
  ASSUME NEW a, NEW state, NEW ts, Covers(a, state)
  PROVE  /\ ~Snoozed(state, ts) => ~Snoozed(a, ts)
         /\ ~CheckedRecently(state, ts) => ~CheckedRecently(a, ts)
BY DEF Covers, Snoozed, CheckedRecently

(* A process that sets its own job leaves those of the others; one that    *)
(* touched the file only lets them know.                                   *)
LEMMA SetProcKeeps ==
  ASSUME UpdateTypeOK, \A q \in Procs : JobOK(proc[q]),
         NEW p \in Procs, NEW j \in Job, JobOK(j), SetProc(p, j)
  PROVE  /\ proc' \in [Procs -> Job]
         /\ \A q \in Procs : JobOK(proc'[q])
         /\ proc'[p] = j
         /\ \A q \in Procs \ {p} : proc'[q] = proc[q]
BY DEF UpdateTypeOK, SetProc

(* A process that writes the file touches the others, who stay right: what *)
(* they knew of the file is marked as touched.                             *)
LEMMA SetTouchedKeeps ==
  ASSUME UpdateTypeOK, \A q \in Procs : JobOK(proc[q]),
         NEW p \in Procs, NEW j \in Job, JobOK(j), SetTouched(p, j)
  PROVE  /\ proc' \in [Procs -> Job]
         /\ \A q \in Procs : JobOK(proc'[q])
         /\ proc'[p] = j
         /\ \A q \in Procs \ {p} : proc'[q].pc = proc[q].pc
<1>1. ASSUME NEW q \in Procs
      PROVE  proc'[q] = IF q = p THEN j
                        ELSE IF Working(q) THEN [proc[q] EXCEPT !.alone = FALSE] ELSE proc[q]
  BY DEF SetTouched
<1>2. ASSUME NEW q \in Procs
      PROVE  /\ [proc[q] EXCEPT !.alone = FALSE] \in Job
             /\ [proc[q] EXCEPT !.alone = FALSE].pc = proc[q].pc
             /\ JobOK([proc[q] EXCEPT !.alone = FALSE])
  <2>1. proc[q] \in Job
    BY DEF UpdateTypeOK
  <2>. QED
    BY <2>1 DEF Job, JobOK
<1>3. \A q \in Procs : proc[q] \in Job
  BY DEF UpdateTypeOK
<1>4. proc' = [q \in Procs |-> proc'[q]]
  BY DEF SetTouched
<1>5. \A q \in Procs : proc'[q] \in Job /\ JobOK(proc'[q])
  BY <1>1, <1>2, <1>3
<1>. QED
  BY <1>1, <1>2, <1>4, <1>5

-----------------------------------------------------------------------------
(***************************************************************************)
(* One lemma per action.                                                   *)
(***************************************************************************)
LEMMA BeginStep ==
  ASSUME IInv, NEW p \in Procs, NEW kind \in Kinds, Begin(p, kind)
  PROVE  IInv'
<1>. DEFINE j == [Idle EXCEPT !.pc = "load", !.kind = kind, !.at = clock]
<1>1. /\ j \in Job /\ j.pc = "load"
  BY IdleIsJob DEF IInv, UpdateTypeOK, Job
<1>2. JobOK(j)
  BY <1>1 DEF JobOK
<1>3. SetProc(p, j) /\ UpdateTypeOK /\ \A q \in Procs : JobOK(proc[q])
  BY DEF Begin, IInv
<1>. HIDE DEF j
<1>4. /\ proc' \in [Procs -> Job] /\ \A q \in Procs : JobOK(proc'[q])
      /\ proc'[p] = j /\ \A q \in Procs \ {p} : proc'[q] = proc[q]
  BY <1>1, <1>2, <1>3, SetProcKeeps
<1>5. UpdateTypeOK'
  BY <1>4 DEF IInv, UpdateTypeOK, Begin, World
<1>6. \A q \in Procs : Writing(q) => Writing(q)'
  BY <1>4 DEF Begin, Writing, Working
<1>7. FileKept'
  BY <1>6 DEF IInv, FileKept, Begin
<1>. QED
  BY <1>4, <1>5, <1>7 DEF IInv

(* Where nobody else is writing the file, what it says is what was agreed. *)
LEMMA LoadStep ==
  ASSUME IInv, NEW p \in Procs, Load(p)
  PROVE  IInv'
<1>. DEFINE a == \A q \in Procs : ~Writing(q)
            j == [proc[p] EXCEPT !.state = file, !.agreed = agreed, !.alone = a]
            snooze == [j EXCEPT !.pc = "empty", !.state = SnoozedState(j, file)]
            fetch == [j EXCEPT !.pc = "fetch"]
<1>1. UpdateTypeOK /\ proc[p] \in Job /\ file \in Saved /\ agreed \in Agreement
  BY DEF IInv, UpdateTypeOK
<1>2. /\ j \in Job /\ j.pc = proc[p].pc /\ j.kind = proc[p].kind /\ j.at = proc[p].at
      /\ j.state = file /\ j.agreed = agreed /\ j.alone = a
  BY <1>1 DEF Job
<1>3. j.pc = "load" /\ UNCHANGED <<World, file, agreed, begun>>
  BY DEF Load
<1>4. a => Covers(agreed, file)
  BY DEF IInv, FileKept
<1>5. \/ SetProc(p, snooze) /\ j.kind = "snooze"
      \/ SetProc(p, Return(j, None))
      \/ SetProc(p, Return(j, Nudge(file.latest))) /\ ~Snoozed(file, j.at)
      \/ /\ SetProc(p, fetch) /\ j.kind # "snooze"
         /\ j.kind = "nudge" => ~Snoozed(file, j.at) /\ ~CheckedRecently(file, j.at)
  <2>1. CASE j.kind = "snooze"
    BY <2>1 DEF Load
  <2>2. CASE j.kind # "snooze" /\ ~Forced(j) /\ Snoozed(file, j.at)
    BY <2>2 DEF Load
  <2>3. CASE /\ j.kind # "snooze" /\ ~Forced(j) /\ ~Snoozed(file, j.at)
             /\ CheckedRecently(file, j.at)
    BY <2>3 DEF Load
  <2>4. CASE /\ j.kind # "snooze"
             /\ Forced(j) \/ (~Snoozed(file, j.at) /\ ~CheckedRecently(file, j.at))
    <3>1. SetProc(p, fetch)
      BY <2>4 DEF Load
    <3>. QED
      BY <2>4, <3>1 DEF Forced
  <2>. QED
    BY <2>1, <2>2, <2>3, <2>4
<1>. DEFINE new == proc'[p]
<1>. HIDE DEF a, j
<1>6. PICK k \in Job : SetProc(p, k) /\ JobOK(k) /\ k.pc # "fill"
  <2>1. CASE SetProc(p, snooze) /\ j.kind = "snooze"
    <3>. DEFINE s == [file EXCEPT !.until = j.at + Snooze]
    <3>1. /\ s \in Saved /\ s.until = j.at + Snooze /\ s.checked = file.checked
          /\ SnoozedState(j, file) = s
      BY <1>1, <1>2, TimesAssumption DEF Saved, MaybeNat, SnoozedState, Job
    <3>. HIDE DEF s
    <3>2. /\ snooze \in Job /\ snooze.pc = "empty" /\ snooze.state = s
          /\ snooze.kind = "snooze" /\ snooze.at = j.at /\ snooze.agreed = agreed
          /\ snooze.alone = a
      BY <1>2, <2>1, <3>1 DEF Job
    <3>. HIDE DEF snooze
    <3>3. Agreed(snooze) = [agreed EXCEPT !.until = j.at + Snooze]
      BY <3>2 DEF Agreed
    <3>4. Agreed(snooze).until = j.at + Snooze /\ Agreed(snooze).checked = agreed.checked
      BY <1>1, <3>3 DEF Agreement
    <3>5. a => Covers(Agreed(snooze), s)
      BY <1>4, <3>1, <3>4 DEF Covers
    <3>6. JobOK(snooze)
      BY <3>2, <3>5 DEF JobOK
    <3>. QED
      BY <2>1, <3>2, <3>6
  <2>2. CASE SetProc(p, Return(j, None))
    <3>1. None \in MaybeNat
      BY DEF MaybeNat
    <3>. QED
      BY <1>2, <2>2, <3>1, ReturnIsJob, ReturnIsOK
  <2>3. CASE SetProc(p, Return(j, Nudge(file.latest))) /\ ~Snoozed(file, j.at)
    <3>1. Nudge(file.latest) \in MaybeNat
      BY <1>1 DEF Nudge, Saved, MaybeNat
    <3>2. j.alone => ~Snoozed(j.agreed, j.at)
      BY <1>2, <1>4, <2>3, CoversHolds
    <3>. QED
      BY <1>2, <2>3, <3>1, <3>2, ReturnIsJob, ReturnIsOK
  <2>4. CASE /\ SetProc(p, fetch) /\ j.kind # "snooze"
             /\ j.kind = "nudge" => ~Snoozed(file, j.at) /\ ~CheckedRecently(file, j.at)
    <3>1. /\ fetch \in Job /\ fetch.pc = "fetch" /\ fetch.state = file
          /\ fetch.kind = j.kind /\ fetch.at = j.at /\ fetch.agreed = agreed
          /\ fetch.alone = a
      BY <1>2 DEF Job
    <3>. HIDE DEF fetch
    <3>2. a /\ j.kind = "nudge" => ~Snoozed(agreed, j.at) /\ ~CheckedRecently(agreed, j.at)
      BY <1>4, <2>4, CoversHolds
    <3>3. JobOK(fetch)
      BY <1>4, <2>4, <3>1, <3>2 DEF JobOK
    <3>. QED
      BY <2>4, <3>1, <3>3
  <2>. QED
    BY <1>5, <2>1, <2>2, <2>3, <2>4
<1>7. /\ proc' \in [Procs -> Job] /\ \A q \in Procs : JobOK(proc'[q])
      /\ proc'[p] = k /\ \A q \in Procs \ {p} : proc'[q] = proc[q]
  BY <1>6, SetProcKeeps DEF IInv
<1>8. UpdateTypeOK'
  BY <1>1, <1>3, <1>7 DEF UpdateTypeOK, World
<1>9. \A q \in Procs : Writing(q) => Writing(q)'
  BY <1>2, <1>3, <1>7 DEF Writing
<1>10. FileKept'
  BY <1>3, <1>9 DEF IInv, FileKept
<1>. QED
  BY <1>7, <1>8, <1>10 DEF IInv

(* fetch_latest_version: an answer, or none.                               *)
LEMMA FetchStep ==
  ASSUME IInv, NEW p \in Procs, Fetch(p)
  PROVE  IInv'
<1>. DEFINE j == proc[p]
            s == [j.state EXCEPT !.latest = released, !.checked = j.at]
            save == [j EXCEPT !.pc = "empty", !.state = CheckedState(j, released),
                              !.says = Nudge(released)]
<1>1. UpdateTypeOK /\ j \in Job /\ released \in Nat /\ JobOK(j)
  BY DEF IInv, UpdateTypeOK
<1>2. j.pc = "fetch" /\ UNCHANGED <<World, file, agreed, begun>>
  BY DEF Fetch
<1>3. SetProc(p, Return(j, None)) \/ SetProc(p, save)
  BY DEF Fetch
<1>. HIDE DEF j
<1>4. PICK k \in Job : SetProc(p, k) /\ JobOK(k) /\ k.pc # "fill"
  <2>1. CASE SetProc(p, Return(j, None))
    <3>1. None \in MaybeNat
      BY DEF MaybeNat
    <3>. QED
      BY <1>1, <2>1, <3>1, ReturnIsJob, ReturnIsOK
  <2>2. CASE SetProc(p, save)
    <3>1. /\ s \in Saved /\ s.checked = j.at /\ s.until = j.state.until
          /\ CheckedState(j, released) = s
      BY <1>1 DEF Saved, MaybeNat, CheckedState, Job
    <3>2. Nudge(released) \in MaybeNat
      BY <1>1 DEF Nudge, MaybeNat
    <3>. HIDE DEF s
    <3>3. /\ save \in Job /\ save.pc = "empty" /\ save.state = s /\ save.kind = j.kind
          /\ save.at = j.at /\ save.agreed = j.agreed /\ save.alone = j.alone
      BY <1>1, <3>1, <3>2 DEF Job
    <3>. HIDE DEF save
    <3>4. j.alone => /\ Covers(j.agreed, j.state) /\ j.kind # "snooze"
                     /\ j.kind = "nudge" => ~Snoozed(j.agreed, j.at)
      BY <1>1, <1>2 DEF JobOK
    <3>5. j.kind # "snooze" => Agreed(save) = [j.agreed EXCEPT !.checked = j.at]
      BY <3>3 DEF Agreed
    <3>6. j.kind # "snooze" =>
            Agreed(save).checked = j.at /\ Agreed(save).until = j.agreed.until
      BY <1>1, <3>5 DEF Agreement, Job
    <3>7. j.alone => Covers(Agreed(save), s)
      BY <3>1, <3>4, <3>6 DEF Covers
    <3>8. JobOK(save)
      BY <3>3, <3>4, <3>7 DEF JobOK
    <3>. QED
      BY <2>2, <3>3, <3>8
  <2>. QED
    BY <1>3, <2>1, <2>2
<1>5. /\ proc' \in [Procs -> Job] /\ \A q \in Procs : JobOK(proc'[q])
      /\ proc'[p] = k /\ \A q \in Procs \ {p} : proc'[q] = proc[q]
  BY <1>4, SetProcKeeps DEF IInv
<1>6. UpdateTypeOK'
  BY <1>1, <1>2, <1>5 DEF UpdateTypeOK, World
<1>7. \A q \in Procs : Writing(q) => Writing(q)'
  BY <1>2, <1>5 DEF Writing, j
<1>8. FileKept'
  BY <1>2, <1>7 DEF IInv, FileKept
<1>. QED
  BY <1>5, <1>6, <1>8 DEF IInv

(* The file is empty until it is filled; whoever else has it in mind is    *)
(* not alone any more.                                                     *)
LEMMA TruncateStep ==
  ASSUME IInv, NEW p \in Procs, Truncate(p)
  PROVE  IInv'
<1>. DEFINE j == proc[p]  fill == [j EXCEPT !.pc = "fill"]
<1>1. UpdateTypeOK /\ j \in Job /\ JobOK(j) /\ j.pc = "empty"
  BY DEF IInv, UpdateTypeOK, Truncate
<1>2. UNCHANGED <<World, agreed, begun>>
  BY DEF Truncate
<1>3. CASE file' = Empty /\ SetTouched(p, fill)
  <2>. HIDE DEF j
  <2>1. /\ fill \in Job /\ fill.pc = "fill" /\ fill.state = j.state /\ fill.kind = j.kind
        /\ fill.at = j.at /\ fill.agreed = j.agreed /\ fill.alone = j.alone
    BY <1>1 DEF Job
  <2>. HIDE DEF fill
  <2>2. Agreed(fill) = Agreed(j)
    BY <2>1 DEF Agreed
  <2>3. JobOK(fill)
    BY <1>1, <2>1, <2>2 DEF JobOK
  <2>4. /\ proc' \in [Procs -> Job] /\ \A q \in Procs : JobOK(proc'[q]) /\ proc'[p] = fill
    BY <1>3, <2>1, <2>3, SetTouchedKeeps DEF IInv
  <2>5. UpdateTypeOK'
    <3>1. Empty \in Saved
      BY DEF Empty, Saved, MaybeNat
    <3>. QED
      BY <1>1, <1>2, <1>3, <2>4, <3>1 DEF UpdateTypeOK, World
  <2>6. Writing(p)'
    BY <2>1, <2>4 DEF Writing
  <2>. QED
    BY <2>4, <2>5, <2>6 DEF IInv, FileKept
<1>4. CASE UNCHANGED file /\ SetProc(p, Return(j, j.says))
  <2>1. j.says \in MaybeNat
    BY <1>1 DEF Job
  <2>2. j.alone /\ j.kind = "nudge" => ~Snoozed(j.agreed, j.at)
    BY <1>1 DEF JobOK
  <2>. DEFINE k == Return(j, j.says)
  <2>3. k \in Job /\ JobOK(k) /\ k.pc = "done"
    BY <1>1, <2>1, <2>2, ReturnIsJob, ReturnIsOK
  <2>. HIDE DEF k
  <2>4. /\ proc' \in [Procs -> Job] /\ \A q \in Procs : JobOK(proc'[q])
        /\ proc'[p] = k /\ \A q \in Procs \ {p} : proc'[q] = proc[q]
    BY <1>4, <2>3, SetProcKeeps DEF IInv, k
  <2>5. UpdateTypeOK'
    BY <1>1, <1>2, <1>4, <2>4 DEF UpdateTypeOK, World
  <2>6. \A q \in Procs : Writing(q) => Writing(q)'
    BY <1>1, <2>4 DEF Writing
  <2>7. FileKept'
    BY <1>2, <1>4, <2>6 DEF IInv, FileKept
  <2>. QED
    BY <2>4, <2>5, <2>7 DEF IInv
<1>. QED
  BY <1>3, <1>4 DEF Truncate

(* What is written undisturbed is what is agreed from now on.              *)
LEMMA FillStep ==
  ASSUME IInv, NEW p \in Procs, Fill(p)
  PROVE  IInv'
<1>. DEFINE j == proc[p]  k == Return(j, j.says)
<1>1. UpdateTypeOK /\ j \in Job /\ JobOK(j) /\ j.pc = "fill"
  BY DEF IInv, UpdateTypeOK, Fill
<1>2. SetTouched(p, k) /\ UNCHANGED <<World, begun>>
  BY DEF Fill
<1>3. file' \in {j.state} \cup (IF j.alone THEN {} ELSE {Empty})
  BY DEF Fill
<1>4. agreed' = IF j.alone THEN Agreed(j) ELSE Nothing
  BY DEF Fill
<1>. HIDE DEF j
<1>5. j.says \in MaybeNat
  BY <1>1 DEF Job
<1>6. j.alone /\ j.kind = "nudge" => ~Snoozed(j.agreed, j.at)
  BY <1>1 DEF JobOK
<1>7. k \in Job /\ JobOK(k)
  BY <1>1, <1>5, <1>6, ReturnIsJob, ReturnIsOK
<1>. HIDE DEF k
<1>8. proc' \in [Procs -> Job] /\ \A q \in Procs : JobOK(proc'[q])
  BY <1>2, <1>7, SetTouchedKeeps DEF IInv
<1>9. file' \in Saved /\ agreed' \in Agreement
  <2>1. j.state \in Saved /\ j.agreed \in Agreement /\ j.at \in Nat /\ Empty \in Saved
    BY <1>1 DEF Job, Empty, Saved, MaybeNat
  <2>2. Nothing \in Agreement
    BY DEF Nothing, Agreement, MaybeNat
  <2>3. Agreed(j) \in Agreement
    BY <2>1, TimesAssumption DEF Agreed, Agreement, MaybeNat
  <2>. QED
    BY <1>3, <1>4, <2>1, <2>2, <2>3
<1>10. UpdateTypeOK'
  BY <1>1, <1>2, <1>8, <1>9 DEF UpdateTypeOK, World
<1>11. Covers(agreed', file')
  <2>1. CASE j.alone
    BY <1>1, <1>3, <1>4, <2>1 DEF JobOK
  <2>2. CASE ~j.alone
    BY <1>4, <2>2 DEF Covers, Nothing
  <2>. QED
    BY <2>1, <2>2
<1>. QED
  BY <1>8, <1>10, <1>11 DEF IInv, FileKept

(* A process dies before or after any of its writes.                       *)
LEMMA DieStep ==
  ASSUME IInv, NEW p \in Procs, Die(p)
  PROVE  IInv'
<1>1. UpdateTypeOK /\ SetProc(p, Idle) /\ UNCHANGED <<World, file, begun>>
  BY DEF Die, IInv
<1>2. /\ proc' \in [Procs -> Job] /\ \A q \in Procs : JobOK(proc'[q])
      /\ \A q \in Procs \ {p} : proc'[q] = proc[q]
  BY <1>1, IdleIsJob, SetProcKeeps DEF IInv
<1>3. agreed' = IF Writing(p) THEN Nothing ELSE agreed
  BY DEF Die
<1>4. agreed' \in Agreement
  BY <1>1, <1>3 DEF UpdateTypeOK, Nothing, Agreement, MaybeNat
<1>5. UpdateTypeOK'
  BY <1>1, <1>2, <1>4 DEF UpdateTypeOK, World
<1>6. FileKept'
  <2>1. CASE Writing(p)
    <3>1. Covers(agreed', file')
      BY <1>3, <2>1 DEF Covers, Nothing
    <3>. QED
      BY <3>1 DEF FileKept
  <2>2. CASE ~Writing(p)
    <3>1. \A q \in Procs : Writing(q) => Writing(q)'
      BY <1>2, <2>2 DEF Writing
    <3>. QED
      BY <1>1, <1>3, <2>2, <3>1 DEF IInv, FileKept
  <2>. QED
    BY <2>1, <2>2
<1>. QED
  BY <1>2, <1>5, <1>6 DEF IInv

(* Time, PyPI and the user's own upgrades touch neither file nor jobs.     *)
LEMMA OutsideStep ==
  ASSUME IInv, Release \/ Upgrade \/ Tick \/ UNCHANGED updateVars
  PROVE  IInv'
<1>1. UNCHANGED <<file, proc, agreed, begun>>
  BY DEF Release, Upgrade, Tick, updateVars
<1>2. clock' \in Nat /\ installed' \in Nat /\ released' \in Nat
  BY DEF IInv, UpdateTypeOK, Release, Upgrade, Tick, updateVars
<1>3. UpdateTypeOK'
  BY <1>1, <1>2 DEF IInv, UpdateTypeOK
<1>4. FileKept'
  BY <1>1 DEF IInv, FileKept, Writing
<1>. QED
  BY <1>1, <1>3, <1>4 DEF IInv

-----------------------------------------------------------------------------
(* At first nobody runs, and the file is what an earlier cfgit left.       *)
LEMMA InitIInv == UpdateInit => IInv
<1>. SUFFICES ASSUME UpdateInit PROVE IInv
  OBVIOUS
<1>1. Empty \in Saved /\ Nothing \in Agreement
  BY DEF Empty, Saved, Nothing, Agreement, MaybeNat
<1>2. UpdateTypeOK /\ \A p \in Procs : JobOK(proc[p])
  BY <1>1, IdleIsJob DEF UpdateInit, UpdateTypeOK
<1>3. Covers(agreed, file)
  BY DEF UpdateInit, Covers, Nothing
<1>. QED
  BY <1>2, <1>3 DEF IInv, FileKept

(* Every step keeps it.                                                    *)
LEMMA NextIInv == IInv /\ [UpdateNext]_updateVars => IInv'
<1>. SUFFICES ASSUME IInv, [UpdateNext]_updateVars PROVE IInv'
  OBVIOUS
<1>1. ASSUME NEW p \in Procs, NEW kind \in {"nudge", "agent", "asked", "snooze"},
             Begin(p, kind)
      PROVE  IInv'
  BY <1>1, BeginStep DEF Kinds
<1>2. ASSUME NEW p \in Procs, Load(p) PROVE IInv'
  BY <1>2, LoadStep
<1>3. ASSUME NEW p \in Procs, Fetch(p) PROVE IInv'
  BY <1>3, FetchStep
<1>4. ASSUME NEW p \in Procs, Truncate(p) PROVE IInv'
  BY <1>4, TruncateStep
<1>5. ASSUME NEW p \in Procs, Fill(p) PROVE IInv'
  BY <1>5, FillStep
<1>6. ASSUME NEW p \in Procs, Die(p) PROVE IInv'
  BY <1>6, DieStep
<1>. QED
  BY <1>1, <1>2, <1>3, <1>4, <1>5, <1>6, OutsideStep DEF UpdateNext

(* The inductive invariant, UpdateTypeOK and what each process may still   *)
(* write, holds of every reachable state (update_check.py).                *)
THEOREM Invariance == UpdateSpec => []IInv
BY InitIInv, NextIInv, PTL DEF UpdateSpec

(* The state file, the jobs and the clock keep their types: a time in the  *)
(* file is a number or missing.                                            *)
THEOREM TypesHold == UpdateSpec => []UpdateTypeOK
<1>1. IInv => UpdateTypeOK
  BY DEF IInv
<1>. QED
  BY <1>1, Invariance, PTL

(* What undisturbed calls agreed on is in the file whenever nobody is      *)
(* writing it: a snooze survives the checks that follow it, and a check    *)
(* the snoozes.                                                            *)
THEOREM AgreementIsKept == UpdateSpec => []FileKept
<1>1. IInv => FileKept
  BY DEF IInv
<1>. QED
  BY <1>1, Invariance, PTL

(* No command prints a reminder while a snooze lasts.                      *)
THEOREM SnoozesHold == UpdateSpec => []SnoozeHolds
<1>1. IInv => SnoozeHolds
  BY DEF IInv, JobOK, SnoozeHolds
<1>. QED
  BY <1>1, Invariance, PTL

(* No command asks PyPI again within the interval.                         *)
THEOREM ThrottlesHold == UpdateSpec => []ThrottleHolds
<1>1. IInv => ThrottleHolds
  BY DEF IInv, JobOK, ThrottleHolds
<1>. QED
  BY <1>1, Invariance, PTL
=============================================================================
