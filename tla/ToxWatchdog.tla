---------------------------- MODULE ToxWatchdog ----------------------------
(* The watchdog of the Tox thread: the loop bumps a heartbeat, a 1 Hz timer  *)
(* checks it and aborts the process when it stays stale past the deadline    *)
(* for Confirmations checks in a row.  Time is counted in checks; it also    *)
(* passes while the process is suspended, where neither thread runs.  Every  *)
(* start of a daemon makes a new watchdog.                                   *)
EXTENDS Integers

CONSTANTS Deadline,      \* deadline_seconds_, in check intervals
          Confirmations  \* kConfirmationTicks

\* configure() takes no deadline below the five seconds of the confirmations.
ASSUME WatchdogAssumption == /\ Deadline \in Nat \ {0} /\ Confirmations \in Nat \ {0}
                             /\ Confirmations <= Deadline + 1

VARIABLES
  wd,     \* the watchdog: started, its generation, and what check_once() keeps
  lag,    \* age of the last heartbeat, up to one past the deadline
  awake,  \* of that, the time during which the process ran
  naps    \* how often the process was suspended since

watchVars == <<wd, lag, awake, naps>>
Over == Deadline + 1
Later(x) == IF x < Over THEN x + 1 ELSE x

\* gap: time since the last check, if there was one (checked).  moved: the
\* heartbeat moved since then.  blind: the last suspension came before the
\* first check, which measures no gap.
NewWatchdog == [on |-> FALSE, due |-> FALSE, checked |-> FALSE, gap |-> 0, moved |-> FALSE,
                ticks |-> 0, forgiven |-> FALSE, blind |-> FALSE, aborted |-> FALSE]
WatchInit == wd = NewWatchdog /\ lag = 0 /\ awake = 0 /\ naps = 0

\* start() seeds the heartbeat and arms the first wait.
start_watchdog ==
  /\ ~wd.on /\ ~wd.aborted
  /\ wd' = [NewWatchdog EXCEPT !.on = TRUE]
  /\ lag' = 0 /\ awake' = 0 /\ naps' = 0

\* stop() retires the generation, so a wait that already fired does nothing.
stop_watchdog ==
  /\ wd.on /\ wd' = [wd EXCEPT !.on = FALSE, !.due = FALSE]
  /\ UNCHANGED <<lag, awake, naps>>

heartbeat == /\ wd' = [wd EXCEPT !.moved = TRUE]
             /\ lag' = 0 /\ awake' = 0 /\ naps' = 0

\* A second of running time: the timer's wait completes.
SecondPasses ==
  /\ wd.on /\ ~wd.due /\ ~wd.aborted
  /\ lag' = Later(lag) /\ awake' = Later(awake)
  /\ UNCHANGED naps
  /\ wd' = [wd EXCEPT !.due = TRUE, !.gap = Later(@)]

\* The process is suspended for longer than the deadline.
Suspended ==
  /\ ~wd.aborted /\ naps < 2
  /\ lag' = Over /\ naps' = naps + 1
  /\ wd' = [wd EXCEPT !.gap = Over, !.due = wd.on, !.blind = ~wd.checked]
  /\ UNCHANGED awake

\* Mutant: two checks in a row never add up.
check_forgets ==
  /\ wd.due /\ ~wd.aborted
  /\ wd' = [wd EXCEPT !.due = FALSE, !.gap = 0, !.moved = FALSE,
                      !.ticks = IF ~wd.moved /\ lag > Deadline THEN 1 ELSE 0,
                      !.aborted = wd.ticks >= Confirmations]
  /\ UNCHANGED <<lag, awake, naps>>

\* check_once: a heartbeat that moved clears everything; a check that comes
\* late by more than the deadline is forgiven once per stall; otherwise checks
\* past the deadline add up.  The check and the re-arm are one step.
check_once ==
  LET late == wd.checked /\ wd.gap > Deadline /\ ~wd.forgiven
      ticks == IF wd.moved \/ late THEN 0
               ELSE IF lag > Deadline THEN wd.ticks + 1 ELSE wd.ticks
  IN  /\ wd.due /\ ~wd.aborted
      /\ wd' = [wd EXCEPT !.due = FALSE, !.checked = TRUE, !.gap = 0, !.moved = FALSE, !.ticks = ticks,
                          !.forgiven = ~wd.moved /\ (@ \/ late),
                          !.aborted = ticks >= Confirmations]
      /\ UNCHANGED <<lag, awake, naps>>

\* A suspend does not look like a hang: the process is only aborted after the
\* Tox thread had Confirmations seconds of running time without a heartbeat (one
\* less when the suspension came before the watchdog's first check), or was
\* suspended more than once in the same stall.
NoHastyAbort ==
  wd.aborted => awake + (IF wd.blind THEN 1 ELSE 0) >= Confirmations \/ naps > 1
============================================================================
