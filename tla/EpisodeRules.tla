---------------------------- MODULE EpisodeRules ----------------------------
(***************************************************************************)
(* Three published rules that turn one participant's log into app uses:     *)
(* foreground/background pairing, Draxler's interruption-aware rule and     *)
(* Morrison's lock-tolerant one.  Each reads the log once and decides at    *)
(* every row which open uses it ends; the definitions below name the same   *)
(* ends by looking at the whole log.  One step consumes one row.            *)
(***************************************************************************)
EXTENDS RuleRows

VARIABLES
  rule,     \* of the run
  log,      \* the rows read
  running,  \* the uses not yet ended, by the row that opened them
  lock,     \* the row of pending_lock, 0 for none
  uses,     \* the uses found
  over      \* the log is exhausted

rulesVars == <<rule, log, running, lock, uses, over>>

RulesTypeOK ==
  /\ rule \in Rules
  /\ log \in Seq(LogRows)
  /\ running \subseteq 1..Len(log)
  /\ lock \in 0..Len(log)
  /\ uses \subseteq Uses
  /\ over \in BOOLEAN

RulesInit ==
  /\ rule \in Rules
  /\ log = <<>>
  /\ running = {} /\ lock = 0 /\ uses = {}
  /\ over = FALSE

-----------------------------------------------------------------------------
(* The rules, row by row.                                                   *)

\* The uses that one row ends alike.
Ended(starts, stop, at, reason) ==
  {[start |-> s, stop |-> stop, at |-> at, reason |-> reason] : s \in starts}

Here == Len(log) + 1
Opens(e) == e.kind \in rule.openers
Opening(e) == IF Opens(e) THEN {Here} ELSE {}

\* Pauses of the app that opened s.
OwnPause(s, e) == e.kind = "paused" /\ e.app = log[s].app

\* The rules with a single open use hand it over to the next opener.
Closes(s, e) == Opens(e) \/ OwnPause(s, e)
ClosingReason(e) == IF Opens(e) THEN "handover" ELSE "paused"

\* A pause ends the use of its app that has been open for longest.
FirstOpen(e) == {s \in running : OwnPause(s, e) /\ \A t \in running : OwnPause(t, e) => s <= t}

Pair(e) ==
  /\ rule.name = "foregroundBackground"
  /\ uses' = uses \cup Ended(FirstOpen(e), Here, e.at, "paused")
  /\ running' = (running \ FirstOpen(e)) \cup Opening(e)
  /\ UNCHANGED lock

\* Nothing was logged for too long before e.
BreaksSilence(e) == log # <<>> /\ e.at - log[Len(log)].at > Silence

\* A silent stretch ends the use at the row before it, whatever e is.
Interrupt(e) ==
  LET cut == IF BreaksSilence(e) THEN running ELSE {}
      closed == {s \in running \ cut : Closes(s, e)}
      off == IF e.kind = "screenOff" THEN running \ cut ELSE {} IN
  /\ rule.name = "draxler"
  /\ uses' = uses \cup Ended(cut, Here, log[Len(log)].at, "silence")
                  \cup Ended(closed, Here, e.at, ClosingReason(e))
                  \cup Ended(off, Here, e.at, "screenOff")
  /\ running' = (running \ (cut \cup closed \cup off)) \cup Opening(e)
  /\ UNCHANGED lock

\* The screen was off for the timeout when e was logged.
LockLasted(e) == running # {} /\ lock # 0 /\ e.at - log[lock].at >= LockTimeout

\* Mutant: a second screen-off restarts the lock.
RestartedLock(e) ==
  CASE running # {} /\ e.kind = "screenOn" -> 0
    [] running # {} /\ e.kind = "screenOff" -> Here
    [] OTHER -> lock

\* What becomes of the pending lock if e ends no use: the screen comes back on,
\* or goes off while a use runs and no lock is pending.
HeldLock(e) ==
  CASE running # {} /\ e.kind = "screenOn" -> 0
    [] running # {} /\ e.kind = "screenOff" /\ lock = 0 -> Here
    [] OTHER -> lock

\* A lock is resolved by a later row: one that lasted ends the use where the
\* screen went off.
Tolerate(e) ==
  LET locked == IF LockLasted(e) THEN running ELSE {}
      closed == {s \in running \ locked : Closes(s, e)} IN
  /\ rule.name = "morrison"
  /\ uses' = uses \cup Ended(locked, lock, log[lock].at, "locked")
                  \cup Ended(closed, Here, e.at, ClosingReason(e))
  /\ running' = (running \ (locked \cup closed)) \cup Opening(e)
  /\ lock' = IF locked \cup closed # {} \/ Opens(e) THEN 0 ELSE HeldLock(e)

ReadRow(e) ==
  /\ ~over /\ Len(log) < LogLength
  /\ Pair(e) \/ Interrupt(e) \/ Tolerate(e)
  /\ log' = Append(log, e)
  /\ UNCHANGED <<rule, over>>

\* A log without an opener and without a pause is refused.
HasUsageSignal == \E i \in 1..Len(log) : Opens(log[i]) \/ log[i].kind = "paused"

\* A lock that nothing resolved lasted; what else is open was not seen to end.
Finish ==
  LET locked == IF lock # 0 THEN running ELSE {} IN
  /\ ~over /\ HasUsageSignal
  /\ uses' = uses \cup Ended(locked, lock, log[lock].at, "locked")
                  \cup Ended(running \ locked, 0, 0, "unobserved")
  /\ running' = {} /\ lock' = 0
  /\ over' = TRUE
  /\ UNCHANGED <<rule, log>>

Now == IF log = <<>> THEN 0 ELSE log[Len(log)].at

RulesNext ==
  \/ \E s \in Seen[rule.name], g \in Pause :
       ReadRow([app |-> s.app, kind |-> s.kind, at |-> Now + g])
  \/ Finish

RulesSpec == RulesInit /\ [][RulesNext]_rulesVars

-----------------------------------------------------------------------------
(* The same ends, over the whole log.                                       *)

After(s) == s + 1 .. Len(log)

\* u ends at the first of the rows S, and is not seen to end if there is none.
EndsAtFirst(u, S) ==
  IF S = {} THEN u.stop = 0 ELSE u.stop \in S /\ \A i \in S : u.stop <= i

Unobserved(u) == u.stop = 0 /\ u.at = 0 /\ u.reason = "unobserved"

ClosedByRow(u) ==
  /\ u.stop # 0 /\ u.at = log[u.stop].at
  /\ Closes(u.start, log[u.stop]) /\ u.reason = ClosingReason(log[u.stop])

\* The gap before row i is longer than the inactivity cut.
Silent(i) == i > 1 /\ log[i].at - log[i - 1].at > Silence

\* Draxler: the first of a silence, the next opener, the own pause, screen off.
DraxlerEnds(s) ==
  {i \in After(s) : Silent(i) \/ Closes(s, log[i]) \/ log[i].kind = "screenOff"}

DraxlerUse(u) ==
  /\ EndsAtFirst(u, DraxlerEnds(u.start))
  /\ \/ Unobserved(u)
     \/ u.stop # 0 /\ Silent(u.stop) /\ u.at = log[u.stop - 1].at /\ u.reason = "silence"
     \/ u.stop # 0 /\ ~Silent(u.stop) /\ ClosedByRow(u)
     \/ /\ u.stop # 0 /\ ~Silent(u.stop) /\ log[u.stop].kind = "screenOff"
        /\ u.at = log[u.stop].at /\ u.reason = "screenOff"

\* The screen goes off at k, after being on, during a use that s opened.
GoesOff(s, k) ==
  /\ log[k].kind = "screenOff"
  /\ \A i \in s + 1 .. k - 1 :
       log[i].kind = "screenOff" => \E j \in i + 1 .. k - 1 : log[j].kind = "screenOn"

\* It stays off for the timeout: neither a screen-on nor an end of the use
\* comes sooner.
StaysOff(s, k) ==
  \A i \in After(k) :
    log[i].kind = "screenOn" \/ Closes(s, log[i]) => log[i].at - log[k].at >= LockTimeout

LastingLocks(s) == {k \in After(s) : GoesOff(s, k) /\ StaysOff(s, k)}

\* Morrison: the first of a lock that lasts, the next opener, the own pause.
MorrisonEnds(s) == LastingLocks(s) \cup {i \in After(s) : Closes(s, log[i])}

MorrisonUse(u) ==
  /\ EndsAtFirst(u, MorrisonEnds(u.start))
  /\ \/ Unobserved(u)
     \/ u.stop \in LastingLocks(u.start) /\ u.at = log[u.stop].at /\ u.reason = "locked"
     \/ ClosedByRow(u)

EndsAUse(i) == \E v \in uses : v.stop = i

\* Foreground/background: the uses of an app end in the order in which they
\* began, and no pause of the app passes while one of them is open.
PairedUse(u) ==
  /\ \A i \in After(u.start) :
       (u.stop = 0 \/ i < u.stop) /\ OwnPause(u.start, log[i]) => EndsAUse(i)
  /\ \/ Unobserved(u)
     \/ /\ u.stop \in After(u.start) /\ OwnPause(u.start, log[u.stop])
        /\ u.at = log[u.stop].at /\ u.reason = "paused"
        /\ \A i \in 1..u.start - 1 : Opens(log[i]) /\ log[i].app = log[u.start].app =>
             \E v \in uses : v.start = i /\ v.stop \in 1..u.stop - 1

Defined(u) ==
  CASE rule.name = "foregroundBackground" -> PairedUse(u)
    [] rule.name = "draxler" -> DraxlerUse(u)
    [] rule.name = "morrison" -> MorrisonUse(u)

\* Read row by row, with a pending lock that only a later row can decide, every
\* opener gets the one end that the rule's definition gives it over the whole
\* log.
EndsAreDefined ==
  over => /\ {u.start : u \in uses} = {i \in 1..Len(log) : Opens(log[i])}
          /\ \A u \in uses : Defined(u)
          /\ \A u, v \in uses : u.start = v.start => u = v
=============================================================================
