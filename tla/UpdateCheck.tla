---------------------------- MODULE UpdateCheck ----------------------------
(***************************************************************************)
(* The update check (update.py): after a cheap read command the CLI may    *)
(* print that a newer cfgit is on PyPI, and agents ask through an MCP      *)
(* tool.  One state file per user holds what PyPI said last, when, and     *)
(* until when the user wants silence.  It is read, kept over a wait for    *)
(* the network, and written back whole, by any number of processes.        *)
(***************************************************************************)
EXTENDS Naturals

CONSTANTS
  Procs,    \* processes that check or snooze
  None,
  Interval, \* CHECK_INTERVAL_S: ask PyPI at most once in so long
  Snooze,   \* how long a snooze lasts
  MaxClock, \* bound on the clock
  MaxCalls  \* bound on the checks and snoozes ever begun

ASSUME TimesAssumption ==
  Interval \in Nat /\ Snooze \in Nat /\ MaxClock \in Nat /\ MaxCalls \in Nat

ASSUME NoTime == None \notin Nat

VARIABLES
  clock,
  installed, \* the version that runs
  released,  \* the newest version on PyPI
  file,      \* the state file
  proc,      \* what each process is doing
  agreed,    \* ghost: when the last check was saved, and until when silence
             \* was promised, by calls that did not disturb each other
  begun      \* how many calls were begun

updateVars == <<clock, installed, released, file, proc, agreed, begun>>

(* A file that is absent, empty or cut off is read as this.                *)
Empty == [latest |-> None, checked |-> None, until |-> None]

Nothing == [checked |-> None, until |-> None]

Idle ==
  [pc     |-> "idle",
   kind   |-> None,   \* "nudge", after a command; "agent" and "asked" force
   at     |-> 0,      \* _now, taken before the file is read
   state  |-> Empty,  \* the file as read, then as it will be written
   agreed |-> Nothing, \* ghost: agreed when the file was read
   alone  |-> TRUE,   \* ghost: nobody else has the file half written, or
                      \* wrote it since it was read
   says   |-> None]   \* the version the user is told about

Working(p) == proc[p].pc \notin {"idle", "done"}

Writing(p) == proc[p].pc = "fill"

SetProc(p, j) == proc' = [proc EXCEPT ![p] = j]

(* The same, and p touched the file.                                       *)
SetTouched(p, j) ==
  proc' = [q \in Procs |-> IF q = p THEN j
                           ELSE IF Working(q) THEN [proc[q] EXCEPT !.alone = FALSE]
                           ELSE proc[q]]

Return(j, says) == [Idle EXCEPT !.pc = "done", !.kind = j.kind, !.at = j.at,
                                !.agreed = j.agreed, !.alone = j.alone, !.says = says]

World == <<clock, installed, released>>

Begin(p, kind) ==
  /\ ~Working(p) /\ begun < MaxCalls
  /\ begun' = begun + 1
  /\ SetProc(p, [Idle EXCEPT !.pc = "load", !.kind = kind, !.at = clock])
  /\ UNCHANGED <<World, file, agreed>>

Gt(latest) == latest # None /\ latest > installed

(* What a check says of a version: it, when it is newer.                   *)
Nudge(latest) == IF Gt(latest) THEN latest ELSE None

Snoozed(state, ts) == state.until # None /\ ts < state.until

CheckedRecently(state, ts) == state.checked # None /\ ts < state.checked + Interval

Forced(j) == j.kind \in {"agent", "asked"}

(* Bug: the check keeps only its own part of the file.                     *)
CheckedAfresh(j, latest) == [Empty EXCEPT !.latest = latest, !.checked = j.at]

(* What a check writes back: the file it read, with what PyPI says now.    *)
CheckedState(j, latest) == [j.state EXCEPT !.latest = latest, !.checked = j.at]

(* Bug: the snooze keeps only its own part of the file.                    *)
SnoozedAfresh(j, state) == [Empty EXCEPT !.until = j.at + Snooze]

SnoozedState(j, state) == [state EXCEPT !.until = j.at + Snooze]

Load(p) ==
  LET j == [proc[p] EXCEPT !.state = file, !.agreed = agreed,
                           !.alone = \A q \in Procs : ~Writing(q)]
  IN  /\ j.pc = "load"
      /\ SetProc(p,
           CASE j.kind = "snooze" -> [j EXCEPT !.pc = "empty", !.state = SnoozedState(j, file)]
             [] j.kind # "snooze" /\ ~Forced(j) /\ Snoozed(file, j.at) -> Return(j, None)
             [] j.kind # "snooze" /\ ~Forced(j) /\ ~Snoozed(file, j.at)
                  /\ CheckedRecently(file, j.at) -> Return(j, Nudge(file.latest))
             [] OTHER -> [j EXCEPT !.pc = "fetch"])
      /\ UNCHANGED <<World, file, agreed, begun>>

(* PyPI answers, or the network fails and nothing is said or saved.        *)
Fetch(p) ==
  LET j == proc[p]
  IN  /\ j.pc = "fetch"
      /\ \/ SetProc(p, Return(j, None))
         \/ SetProc(p, [j EXCEPT !.pc = "empty", !.state = CheckedState(j, released),
                                 !.says = Nudge(released)])
      /\ UNCHANGED <<World, file, agreed, begun>>

(* write_text empties the file, then fills it; or the home is read-only.   *)
Truncate(p) ==
  LET j == proc[p]
  IN  /\ j.pc = "empty"
      /\ \/ /\ file' = Empty
            /\ SetTouched(p, [j EXCEPT !.pc = "fill"])
         \/ /\ UNCHANGED file
            /\ SetProc(p, Return(j, j.says))
      /\ UNCHANGED <<World, agreed, begun>>

Agreed(j) ==
  IF j.kind = "snooze" THEN [j.agreed EXCEPT !.until = j.at + Snooze]
  ELSE [j.agreed EXCEPT !.checked = j.at]

(* Of two texts written at once either may win, or a mixture no one reads. *)
Fill(p) ==
  LET j == proc[p]
  IN  /\ j.pc = "fill"
      /\ file' \in {j.state} \cup (IF j.alone THEN {} ELSE {Empty})
      /\ SetTouched(p, Return(j, j.says))
      /\ agreed' = IF j.alone THEN Agreed(j) ELSE Nothing
      /\ UNCHANGED <<World, begun>>

(* The process dies; if it was writing, the file stays empty.              *)
Die(p) ==
  /\ Working(p)
  /\ SetProc(p, Idle)
  /\ agreed' = IF Writing(p) THEN Nothing ELSE agreed
  /\ UNCHANGED <<World, file, begun>>

Release ==
  /\ released < 1
  /\ released' = released + 1
  /\ UNCHANGED <<clock, installed, file, proc, agreed, begun>>

Upgrade ==
  /\ installed' = released /\ installed # released
  /\ UNCHANGED <<clock, released, file, proc, agreed, begun>>

Tick ==
  /\ clock < MaxClock
  /\ clock' = clock + 1
  /\ UNCHANGED <<installed, released, file, proc, agreed, begun>>

UpdateInit ==
  /\ clock = 0 /\ installed = 0 /\ released = 0
  /\ file = Empty /\ agreed = Nothing
  /\ proc = [p \in Procs |-> Idle]
  /\ begun = 0

UpdateNext ==
  \/ \E p \in Procs :
       \/ \E kind \in {"nudge", "agent", "asked", "snooze"} : Begin(p, kind)
       \/ Load(p) \/ Fetch(p) \/ Truncate(p) \/ Fill(p) \/ Die(p)
  \/ Release \/ Upgrade \/ Tick

UpdateSpec == UpdateInit /\ [][UpdateNext]_updateVars

-----------------------------------------------------------------------------
(* "Snoozable: 'don't ask for 30 days' persists to the state file"         *)
(* (update.py): once a snooze is written, no command prints a reminder     *)
(* before it is over, unless a check and another write overlapped, or a    *)
(* write was cut off.  Checks in between keep it.                          *)
SnoozeHolds ==
  \A p \in Procs :
    LET j == proc[p]
    IN  j.pc = "done" /\ j.kind = "nudge" /\ j.says # None /\ j.alone
          => ~Snoozed(j.agreed, j.at)

(* "Throttled: hits PyPI at most once per CHECK_INTERVAL" (update.py):     *)
(* with the same exceptions, a command does not ask again what another     *)
(* check, forced or not, wrote less than an interval ago; a snooze in      *)
(* between does not make it forget.                                        *)
ThrottleHolds ==
  \A p \in Procs :
    proc[p].pc = "fetch" /\ proc[p].kind = "nudge" /\ proc[p].alone
      => ~CheckedRecently(proc[p].agreed, proc[p].at)

(* "a 30-day snooze taken in either place quiets both" (update.py): while  *)
(* a snooze lasts an agent, which asks at the start of its session, has    *)
(* nothing to tell either.                                                 *)
SnoozeQuietsBoth ==
  \A p \in Procs :
    LET j == proc[p]
    IN  j.pc = "done" /\ j.kind = "agent" /\ j.says # None /\ j.alone
          => ~Snoozed(j.agreed, j.at)
=============================================================================
