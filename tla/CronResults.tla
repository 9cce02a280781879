---------------------------- MODULE CronResults -----------------------------
(***************************************************************************)
(* What became of the runs of one cron job.  Three places know of a run    *)
(* and none of them names another: the executions ledger has its status,   *)
(* state.db a session (when an agent ran), the output folder a file named  *)
(* by the time of its end (when there was output).  They are matched by    *)
(* time, within a window.                                                  *)
(***************************************************************************)
EXTENDS Integers, Sequences, FiniteSetsExt

CONSTANTS Window,    \* SESSION_MATCH_WINDOW_S
          RunActive,  \* RUN_ACTIVE_WINDOW_S
          Lag,       \* the most a session starts after its execution
          Gap,       \* the least time between two starts
          MaxRuns, MaxClock

ASSUME ResultsAssumption == {Window, RunActive, Lag, Gap, MaxRuns, MaxClock} \subseteq Nat

VARIABLES clock,
          runs \* the runs of the job: in the ledger, in state.db, in the folder

resultVars == <<clock, runs>>

None == -1
NewRun(t) == [started |-> t, ended |-> None, status |-> "running",
           session |-> None, closed |-> None, file |-> None]
LastRun == runs[Len(runs)]
UnderWay == runs # <<>> /\ LastRun.status = "running"
Changes(new) == runs' = [runs EXCEPT ![Len(runs)] = new] /\ UNCHANGED clock

-----------------------------------------------------------------------------
(* The scheduler *)

TimePasses == clock < MaxClock /\ clock' = clock + 1 /\ UNCHANGED runs

RunBegins ==
  /\ ~UnderWay /\ Len(runs) < MaxRuns
  /\ runs # <<>> => clock - LastRun.started >= Gap
  /\ runs' = Append(runs, NewRun(clock)) /\ UNCHANGED clock

OpenSession ==
  /\ UnderWay /\ LastRun.session = None /\ clock - LastRun.started <= Lag
  /\ Changes([LastRun EXCEPT !.session = clock])

\* A run ends well or not, with output or without; the session is closed.
RunEnds ==
  /\ UnderWay
  /\ \E status \in {"completed", "failed"}, file \in {None, clock} :
       Changes([LastRun EXCEPT !.status = status, !.ended = clock, !.file = file,
                              !.closed = IF @ = None /\ LastRun.session # None THEN clock ELSE @])

\* The gateway stops in a run: nothing closes the session.
RunStops == UnderWay /\ Changes([LastRun EXCEPT !.status = "unknown", !.ended = clock])

-----------------------------------------------------------------------------
(* Matching *)

Apart(a, b) == IF a < b THEN b - a ELSE a - b

Near(times, t) == {i \in DOMAIN times : times[i] # None /\ Apart(times[i], t) <= Window}

\* (slip) the first within the window, the newest
FirstNear(times, t) == IF Near(times, t) = {} THEN 0 ELSE Max(Near(times, t))

\* The nearest within the window, and the newest of two as near; 0 for none.
Nearest(times, t) ==
  LET near == Near(times, t)
      best == {i \in near : \A k \in near : Apart(times[i], t) <= Apart(times[k], t)}
  IN  IF near = {} THEN 0 ELSE Max(best)

\* match_execution: the run of the ledger that the session of run i is taken for
ExecutionOf(i) == Nearest([k \in DOMAIN runs |-> runs[k].started], runs[i].session)

\* find_session_for_execution: the run whose session run i is taken to have
SessionOfRun(i) == Nearest([k \in DOMAIN runs |-> runs[k].session], runs[i].started)

\* output_file_text: the run whose file is shown for run i, the latest from the
\* window before its start to the window after its end
OutputOf(i) ==
  LET end == IF runs[i].ended = None THEN clock ELSE runs[i].ended
      fit == {k \in DOMAIN runs : /\ runs[k].file # None
                                  /\ runs[k].file \in (runs[i].started - Window)..(end + Window)}
  IN  IF fit = {} THEN 0 ELSE CHOOSE k \in fit : \A l \in fit : runs[l].file <= runs[k].file

\* run_status_for
Told(status) ==
  CASE status = "completed" -> "ok"
    [] status \in {"failed", "unknown"} -> "error"
    [] OTHER -> "none"

\* The row of cron_runs_for_job for the session of run i.  Its last activity is
\* taken to be its start, the oldest it can be.
RowStatus(i) ==
  IF runs[i].closed = None /\ clock - runs[i].session < RunActive THEN "running"
  ELSE IF ExecutionOf(i) = 0 \/ Told(runs[ExecutionOf(i)].status) = "none" THEN "unknown"
  ELSE Told(runs[ExecutionOf(i)].status)

-----------------------------------------------------------------------------

ResultsInit == clock = 0 /\ runs = <<>>

ResultsNext == TimePasses \/ RunBegins \/ OpenSession \/ RunEnds \/ RunStops

ResultsTypeOK ==
  /\ clock \in 0..MaxClock
  /\ Len(runs) <= MaxRuns
  /\ \A i \in DOMAIN runs :
       /\ {runs[i].ended, runs[i].session, runs[i].closed, runs[i].file} \subseteq 0..MaxClock \cup {None}
       /\ runs[i].status \in {"running", "completed", "failed", "unknown"}

\* A row of the run history never shows the outcome of another run, even when
\* two runs start within the window.  ("the nearer one is right", cron_results.py:94)
OwnStatus ==
  \A i \in DOMAIN runs : runs[i].session # None =>
    RowStatus(i) \in {"running", "unknown", Told(runs[i].status)}

\* The result of a run without a session is its own output or nothing.  ("the
\* result file of this run", cron_results.py:141; not so when the next run ends
\* within the window)
OwnText ==
  \A i \in DOMAIN runs : runs[i].status # "running" /\ runs[i].session = None => OutputOf(i) \in {0, i}

=============================================================================
