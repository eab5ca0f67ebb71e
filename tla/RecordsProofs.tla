---------------------------- MODULE RecordsProofs ---------------------------
(***************************************************************************)
(* Proofs about what is kept on disk, for any attempts, accounts, runs of  *)
(* setup, log lines and failures: the history of runs, the admins, the CA  *)
(* and the configs, the log's pages and the agents' failures; and about    *)
(* the numbers of the metrics page.                                        *)
(***************************************************************************)
EXTENDS RunHistory, Accounts, Setup, Diagnostics, Summary, SequenceTheorems,
        FiniteSetTheorems, NaturalsInduction, WellFoundedInduction, TLAPS

-----------------------------------------------------------------------------
(* RunHistory *)

\* What OutcomeTold rests on: only writes to a row that is there are heard.
ToldInv ==
  /\ heard \subseteq {"ran", "cancelled"}
  /\ jobRow \in {"missing", "none", "ran", "cancelled", "gone", "abandoned"}
  /\ jobRow = "missing" => heard = {}
  /\ "cancelled" \in heard => jobRow = "cancelled"
  /\ "ran" \in heard => jobRow \in {"ran", "cancelled"}
  /\ jobRow = "cancelled" => "cancelled" \in heard

HistoryInv ==
  /\ ended \in {"no", "success", "cancelled"}
  /\ ToldInv

\* No job has been seen.
LEMMA HistoryInitTold == HistoryInit => HistoryInv
<1>1. HistoryInit => heard = {} /\ jobRow = "missing" /\ ended = "no"
  BY DEF HistoryInit
<1>q. QED
  BY <1>1 DEF HistoryInv, ToldInv

\* A job that is removed is told once.
LEMMA RemovalTold ==
  ASSUME ToldInv, NEW outcome \in {"ran", "gone", "abandoned"}, RemoveJob(outcome)
  PROVE  ToldInv'
  BY DEF RemoveJob, JobEnded, JobWrite, ToldInv

\* Nothing happens to the job.
LEMMA JobKept ==
  ASSUME ToldInv, UNCHANGED <<jobRow, heard>>
  PROVE  ToldInv'
  BY DEF ToldInv

\* The job's part of the invariant is inductive.
LEMMA HistoryNextTold ==
  ASSUME HistoryInv, [HistoryNext]_historyVars
  PROVE  HistoryInv'
<1> USE DEF HistoryInv, webhookVars, jobVars
<1>1. CASE TakeJob
  BY <1>1, JobKept DEF TakeJob
<1>2. CASE \E conclusion \in {"success", "cancelled"} : EndJobRow(conclusion)
  BY <1>2, JobKept DEF EndJobRow
<1>3. CASE JobSeen
  BY <1>3 DEF JobSeen, ToldInv
<1>4. CASE HookInProgress
  BY <1>4 DEF HookInProgress, JobWrite, JobStarted, ToldInv
<1>5. CASE HookCompleted
  BY <1>5 DEF HookCompleted, JobWrite, JobCompleted, ToldInv
<1>6. CASE FleetJobCompleted
  BY <1>6, RemovalTold DEF FleetJobCompleted
<1>7. CASE VerifyGone
  BY <1>7, RemovalTold DEF VerifyGone
<1>8. CASE PruneRuns
  BY <1>8, JobKept DEF PruneRuns, ToldInv
<1>9. ASSUME NEW a \in Attempts,
             RequestRunner(a) \/ Accepted(a) \/ Rejected(a) \/ Recover(a) \/ EventStarted(a)
             \/ EventIgnored(a)
      PROVE  HistoryInv'
  BY <1>9, JobKept DEF RequestRunner, Accepted, Rejected, Recover, EventStarted, EventIgnored,
                       RunEvent, runVars, eventVars, careVars
<1>10. ASSUME NEW a \in Attempts, CommandFails(a) PROVE HistoryInv'
  BY <1>10, JobKept, RemovalTold DEF CommandFails
<1>11. ASSUME NEW a \in Attempts,
              CreateRunner(a) \/ CreateRunFails(a) \/ Move(a) \/ RunnerStarted(a)
              \/ (\E ok, destroyed \in BOOLEAN : RunEnds(a, ok, destroyed))
              \/ (\E type \in {"destroyed", "failed"} : DestroyReported(a, type))
       PROVE  HistoryInv'
  <2>1. AgentOnly
    BY <1>11 DEF CreateRunner, CreateRunFails, Move, RunnerStarted, RunEnds, DestroyReported
  <2>q. QED
    BY <2>1, JobKept DEF AgentOnly
<1>12. ASSUME NEW a \in Attempts, EventEnds(a) PROVE HistoryInv'
  <2>1. JobAfter(Head(events[a]).type) \/ UNCHANGED <<pending, jobRow, heard>>
    BY <1>12 DEF EventEnds
  <2>2. ToldInv'
    BY <2>1, JobKept, RemovalTold DEF JobAfter
  <2>3. UNCHANGED ended
    BY <1>12 DEF EventEnds, RunEvent
  <2>q. QED
    BY <2>2, <2>3
<1>13. ASSUME NEW a \in Attempts, \E why \in {"idled", "drained"} : Destroy(a, why)
       PROVE  HistoryInv'
  BY <1>13, JobKept DEF Destroy
<1>14. CASE UNCHANGED historyVars
  BY <1>14, JobKept DEF historyVars
<1>q. QED
  BY <1>1, <1>2, <1>3, <1>4, <1>5, <1>6, <1>7, <1>8, <1>9, <1>10, <1>11, <1>12, <1>13, <1>14
     DEF HistoryNext

(* The runners' rows. *)

\* The steps timed before a runner starts its job.
EarlySteps == {"create", "boot", "setup", "install"}
RunOutcomes == {"none", "rejected", "command_failed", "lost", "idled", "drained", "completed",
                "failed"}
StepMaps == UNION {[S -> {"timed", "skipped"}] : S \in SUBSET RunSteps}
Clocks == [on : BOOLEAN, step : RunSteps \cup {"none"}, failing : BOOLEAN,
           failed : RunSteps \cup {"none"}, steps : StepMaps]
RunEvents == [type : {"started", "completed", "failed", "destroyed"}, timings : Clocks]
RunnerRows == [outcome : RunOutcomes, failed : RunSteps \cup {"none"}, steps : StepMaps]

\* What the row and the events of an attempt say of its steps.
Told(a) == {events[a][i].timings : i \in DOMAIN events[a]}
           \cup (IF runRow[a] = NoRow THEN {} ELSE {runRow[a]})
Clean(ts, S) == \A t \in ts : t.failed = "none" /\ DOMAIN t.steps \subseteq S
Consistent(ts) == \A t, u \in ts : t.failed \notin DOMAIN u.steps

HistoryTypeOK ==
  /\ runRow \in [Attempts -> {NoRow} \cup RunnerRows]
  /\ first \in [Attempts -> RunOutcomes]
  /\ createAnswer \in [Attempts -> {"none", "awaited", "given"}]
  /\ clock \in [Attempts -> Clocks]
  /\ events \in [Attempts -> Seq(RunEvents)]

\* The clock of an attempt, in each phase of it, and what was told of it by then.
ClockInv(a) ==
  /\ ~clock[a].on => clock[a].step = "none" /\ Clean(Told(a), {})
  /\ clock[a].step # "none" =>
       /\ clock[a].step \in EarlySteps \cup {"job"}
       /\ ~clock[a].failing /\ Clean({clock[a]}, EarlySteps)
  /\ clock[a].step \in EarlySteps => Clean(Told(a), {})
  /\ clock[a].step = "job" => Clean(Told(a), EarlySteps)
  /\ clock[a].on /\ clock[a].step = "none" => Consistent(Told(a))

RowInv(a) ==
  /\ first[a] = IF runRow[a] = NoRow THEN "none" ELSE runRow[a].outcome
  /\ createAnswer[a] = "none" => ~clock[a].on /\ runRow[a] = NoRow

RunInv == HistoryTypeOK /\ \A a \in Attempts : ClockInv(a) /\ RowInv(a)

\* Timings with one more step.
LEMMA StepMapsThere ==
  ASSUME NEW f \in StepMaps
  PROVE  /\ DOMAIN f \subseteq RunSteps
         /\ \A s \in RunSteps : /\ Joined([x \in {s} |-> "timed"], f) \in StepMaps
                                /\ DOMAIN (Joined([x \in {s} |-> "timed"], f)) = DOMAIN f \cup {s}
                                /\ Joined(f, [x \in {s} |-> "skipped"]) \in StepMaps
                                /\ DOMAIN (Joined(f, [x \in {s} |-> "skipped"])) = DOMAIN f \cup {s}
                                /\ Without(f, s) \in StepMaps
                                /\ DOMAIN Without(f, s) = DOMAIN f \ {s}
         /\ \A g \in StepMaps : /\ Joined(g, f) \in StepMaps
                                 /\ DOMAIN (Joined(g, f)) = DOMAIN g \cup DOMAIN f
<1> DEFINE W == {"timed", "skipped"}
<1>1. \A g \in StepMaps : DOMAIN g \subseteq RunSteps /\ \A s \in DOMAIN g : g[s] \in W
  BY DEF StepMaps
<1>2. \A S \in SUBSET RunSteps : \A g : g \in [S -> W] => g \in StepMaps /\ DOMAIN g = S
  BY DEF StepMaps
<1> HIDE DEF W
<1>3. ASSUME NEW g \in StepMaps, NEW h \in StepMaps
      PROVE  Joined(g, h) \in StepMaps /\ DOMAIN (Joined(g, h)) = DOMAIN g \cup DOMAIN h
  <2> DEFINE S == DOMAIN g \cup DOMAIN h
  <2>1. [x \in S |-> IF x \in DOMAIN g THEN g[x] ELSE h[x]] \in [S -> W]
    BY <1>1
  <2>2. S \in SUBSET RunSteps
    BY <1>1
  <2>3. Joined(g, h) = [x \in S |-> IF x \in DOMAIN g THEN g[x] ELSE h[x]]
    BY Zenon DEF Joined
  <2>q. QED
    BY <1>2, <2>1, <2>2, <2>3
<1>4. ASSUME NEW s \in RunSteps, NEW w \in W
      PROVE  ([x \in {s} |-> w]) \in StepMaps /\ DOMAIN ([x \in {s} |-> w]) = {s}
  <2>1. [x \in {s} |-> w] \in [{s} -> W]
    OBVIOUS
  <2>q. QED
    BY <1>2, <2>1
<1>5. ASSUME NEW s \in RunSteps
      PROVE  Without(f, s) \in StepMaps /\ DOMAIN Without(f, s) = DOMAIN f \ {s}
  <2>1. [x \in DOMAIN f \ {s} |-> f[x]] \in [DOMAIN f \ {s} -> W]
    BY <1>1
  <2>2. DOMAIN f \ {s} \in SUBSET RunSteps
    BY <1>1
  <2>q. QED
    BY <1>2, <2>1, <2>2 DEF Without
<1>6. "timed" \in W /\ "skipped" \in W
  BY DEF W
<1>7. ASSUME NEW s \in RunSteps
      PROVE  /\ Joined([x \in {s} |-> "timed"], f) \in StepMaps
             /\ DOMAIN (Joined([x \in {s} |-> "timed"], f)) = DOMAIN f \cup {s}
  <2>1. [x \in {s} |-> "timed"] \in StepMaps /\ DOMAIN ([x \in {s} |-> "timed"]) = {s}
    BY <1>4, <1>6
  <2>2. /\ Joined([x \in {s} |-> "timed"], f) \in StepMaps
        /\ DOMAIN (Joined([x \in {s} |-> "timed"], f))
             = DOMAIN ([x \in {s} |-> "timed"]) \cup DOMAIN f
    BY <1>3, <2>1, Zenon
  <2>q. QED
    BY <2>1, <2>2, Zenon
<1>8. ASSUME NEW s \in RunSteps
      PROVE  /\ Joined(f, [x \in {s} |-> "skipped"]) \in StepMaps
             /\ DOMAIN (Joined(f, [x \in {s} |-> "skipped"])) = DOMAIN f \cup {s}
  <2>1. [x \in {s} |-> "skipped"] \in StepMaps /\ DOMAIN ([x \in {s} |-> "skipped"]) = {s}
    BY <1>4, <1>6
  <2>2. /\ Joined(f, [x \in {s} |-> "skipped"]) \in StepMaps
        /\ DOMAIN (Joined(f, [x \in {s} |-> "skipped"]))
             = DOMAIN f \cup DOMAIN ([x \in {s} |-> "skipped"])
    BY <1>3, <2>1, Zenon
  <2>q. QED
    BY <2>1, <2>2, Zenon
<1>q. QED
  BY <1>1, <1>3, <1>5, <1>7, <1>8, Zenon

\* Timings of no step.
LEMMA NoStepsThere == NoSteps \in StepMaps /\ DOMAIN NoSteps = {}
<1>1. [s \in {} |-> "timed"] \in [{} -> {"timed", "skipped"}]
  OBVIOUS
<1>q. QED
  BY <1>1 DEF NoSteps, StepMaps

\* The clocks and the rows that runs begin with.
LEMMA NoClockThere ==
  /\ NoClock \in Clocks /\ NewClock \in Clocks
  /\ NewRunner \in RunnerRows
<1>1. NoClock \in Clocks
  BY NoStepsThere DEF NoClock, Clocks
<1>2. NewClock \in Clocks
  BY <1>1 DEF NewClock, Clocks, RunSteps
<1>3. NewRunner \in RunnerRows
  BY NoStepsThere DEF NewRunner, RunnerRows, RunOutcomes
<1>q. QED
  BY <1>1, <1>2, <1>3

\* What each operation of the clock does to its fields.
LEMMA NextStepFields ==
  ASSUME NEW c \in Clocks, NEW step \in RunSteps \cup {"none"}
  PROVE  LET d == NextStep(c, step)
         IN  /\ d \in Clocks /\ d.on = c.on /\ d.failed = c.failed
             /\ d.step = step /\ d.failing = FALSE
             /\ c.failing \/ c.step = "none" => DOMAIN d.steps = DOMAIN c.steps
             /\ ~c.failing /\ c.step # "none" => DOMAIN d.steps = DOMAIN c.steps \cup {c.step}
<1> DEFINE d == NextStep(c, step)
<1>1. d \in Clocks
  BY StepMapsThere DEF Clocks, NextStep
<1>2. d.failing = FALSE /\ d.step = step /\ d.on = c.on /\ d.failed = c.failed
  BY DEF Clocks, NextStep
<1>3. /\ c.failing \/ c.step = "none" => DOMAIN d.steps = DOMAIN c.steps
      /\ ~c.failing /\ c.step # "none" => DOMAIN d.steps = DOMAIN c.steps \cup {c.step}
  BY StepMapsThere DEF Clocks, NextStep
<1>q. QED
  BY <1>1, <1>2, <1>3

\* What a failure leaves of a clock.
LEMMA FailRunFields ==
  ASSUME NEW c \in Clocks
  PROVE  LET d == FailRun(c)
             again == c.step = "none" \/ c.failed # "none"
         IN  /\ d \in Clocks /\ d.on = c.on /\ d.step = c.step /\ d.failing = TRUE
             /\ d.failed = IF again THEN c.failed ELSE c.step
             /\ DOMAIN d.steps = IF again THEN DOMAIN c.steps ELSE DOMAIN c.steps \ {c.step}
<1>1. [c EXCEPT !.failing = TRUE] \in Clocks
  BY DEF Clocks
<1>2. c.step \in RunSteps \cup {"none"} /\ c.steps \in StepMaps
  BY DEF Clocks
<1>3. ASSUME c.step # "none"
      PROVE  /\ Without(c.steps, c.step) \in StepMaps
             /\ DOMAIN Without(c.steps, c.step) = DOMAIN c.steps \ {c.step}
  BY <1>2, <1>3, StepMapsThere
<1>4. ASSUME c.step # "none"
      PROVE  [c EXCEPT !.failing = TRUE, !.failed = c.step,
                       !.steps = Without(c.steps, c.step)] \in Clocks
  BY <1>2, <1>3, <1>4 DEF Clocks
<1>5. FailRun(c) \in Clocks
  BY <1>1, <1>4 DEF FailRun, FailedStep
<1>q. QED
  BY <1>3, <1>5 DEF FailRun, FailedStep, Clocks

\* What skipping a step leaves of a clock.
LEMMA SkipFields ==
  ASSUME NEW c \in Clocks, NEW step \in RunSteps
  PROVE  LET d == Skip(c, step)
         IN  /\ d \in Clocks /\ d.on = c.on /\ d.step = c.step
             /\ d.failing = c.failing /\ d.failed = c.failed
             /\ DOMAIN d.steps = DOMAIN c.steps \cup {step}
  BY StepMapsThere DEF Clocks, Skip

\* No attempt has begun.
LEMMA HistoryInitRuns == HistoryInit => RunInv
<1> SUFFICES ASSUME HistoryInit PROVE RunInv
  OBVIOUS
<1> USE DEF HistoryInit
<1>1. HistoryTypeOK
  BY NoClockThere DEF HistoryTypeOK, RunOutcomes
<1>2. ASSUME NEW a \in Attempts PROVE ClockInv(a) /\ RowInv(a)
  <2>1. Told(a) = {}
    BY DEF Told
  <2>q. QED
    BY <2>1 DEF ClockInv, RowInv, Clean, Consistent, NoClock
<1>q. QED
  BY <1>1, <1>2 DEF RunInv

\* Nothing of an attempt changed but, at most, its create answer.
LEMMA AttemptKept ==
  ASSUME NEW a \in Attempts, ClockInv(a), RowInv(a),
         clock'[a] = clock[a], events'[a] = events[a], runRow'[a] = runRow[a],
         first'[a] = first[a], createAnswer'[a] \in {createAnswer[a], "given"}
  PROVE  ClockInv(a)' /\ RowInv(a)'
<1>1. Told(a)' = Told(a)
  BY DEF Told
<1>q. QED
  BY <1>1 DEF ClockInv, RowInv

\* The row changed to one that says no more of its steps than was told of them.
LEMMA RowChanged ==
  ASSUME NEW a \in Attempts, ClockInv(a), RowInv(a), runRow[a] # NoRow, runRow'[a] # NoRow,
         NEW t \in Told(a),
         runRow'[a].failed \in {runRow[a].failed, t.failed},
         DOMAIN runRow'[a].steps \subseteq DOMAIN runRow[a].steps \cup DOMAIN t.steps,
         \A u \in Told(a)' : u \in Told(a) \/ u = runRow'[a],
         clock'[a] = clock[a], createAnswer'[a] \in {createAnswer[a], "given"},
         first'[a] = runRow'[a].outcome
  PROVE  ClockInv(a)' /\ RowInv(a)'
<1>1. runRow[a] \in Told(a)
  BY DEF Told
<1>2. ASSUME NEW S, Clean(Told(a), S) PROVE Clean(Told(a), S)'
  BY <1>1, <1>2 DEF Clean
<1>3. Consistent(Told(a)) => Consistent(Told(a))'
  BY <1>1 DEF Consistent
<1>4. ClockInv(a)'
  BY <1>2, <1>3 DEF ClockInv, Clean
<1>q. QED
  BY <1>4 DEF RowInv

\* The row is as it was or gone, and no event came.
LEMMA ToldLess ==
  ASSUME NEW a \in Attempts, ClockInv(a), clock'[a] = clock[a], Told(a)' \subseteq Told(a)
  PROVE  ClockInv(a)'
  BY DEF ClockInv, Clean, Consistent

\* A write that may be lost to a row of an attempt none of whose events is read.
LEMMA FinishKeeps ==
  ASSUME RunInv, NEW a \in Attempts, NEW outcome \in RunOutcomes, Finish(a, outcome),
         UNCHANGED <<clock, events>>, Answered(a) \/ UNCHANGED createAnswer
  PROVE  RunInv'
<1> USE DEF HistoryTypeOK
<1>1. /\ first' \in [Attempts -> RunOutcomes]
      /\ \A b \in Attempts \ {a} : first'[b] = first[b]
  BY DEF Finish, RunInv, runVars
<1>4. /\ createAnswer' \in [Attempts -> {"none", "awaited", "given"}]
      /\ \A b \in Attempts : createAnswer'[b] \in {createAnswer[b], "given"}
  BY DEF Answered, RunInv
<1>5. /\ runRow' \in [Attempts -> {NoRow} \cup RunnerRows]
      /\ \A b \in Attempts \ {a} : runRow'[b] = runRow[b]
  <2>1. ASSUME runRow[a] # NoRow
        PROVE  FinishOnce(runRow[a], outcome) \in RunnerRows
    <3>1. runRow[a] \in RunnerRows
      BY <2>1 DEF RunInv
    <3>q. QED
      BY <3>1 DEF FinishOnce, RunnerRows
  <2>2. CASE UNCHANGED runVars
    BY <2>2 DEF runVars, RunInv
  <2>3. CASE runRow[a] # NoRow /\ RunWrite(a, FinishOnce(runRow[a], outcome))
    BY <2>1, <2>3 DEF RunWrite, RunInv
  <2>q. QED
    BY <2>2, <2>3 DEF Finish
<1>2. CASE UNCHANGED runVars
  BY <1>4, <1>2, AttemptKept DEF runVars, RunInv
<1>3. CASE ~UNCHANGED runVars
  <2>1. /\ runRow[a] # NoRow
        /\ runRow'[a] = FinishOnce(runRow[a], outcome)
        /\ first'[a] = IF first[a] = "none" THEN outcome ELSE first[a]
    BY <1>3 DEF Finish, RunWrite, RunInv
  <2>2. runRow[a] \in RunnerRows
    BY <2>1 DEF RunInv
  <2>3. runRow'[a] \in RunnerRows /\ runRow'[a].failed = runRow[a].failed
        /\ runRow'[a].steps = runRow[a].steps /\ first'[a] = runRow'[a].outcome
    BY <2>1, <2>2 DEF FinishOnce, RunnerRows, RunInv, RowInv
  <2>4. runRow[a] \in Told(a) /\ \A u \in Told(a)' : u \in Told(a) \/ u = runRow'[a]
    BY <2>1 DEF Told
  <2>5. ~(NoRow \in RunnerRows)
    BY DEF NoRow, RunnerRows
  <2>6. ClockInv(a)' /\ RowInv(a)'
    BY <1>1, <1>4, <2>1, <2>3, <2>4, <2>5, RowChanged DEF RunInv
  <2>q. QED
    BY <1>1, <1>4, <1>5, <2>6, AttemptKept DEF RunInv
<1>q. QED
  BY <1>2, <1>3

\* An event tells of the timings it carries.
LEMMA ToldSent ==
  ASSUME RunInv, NEW a \in Attempts, NEW type, NEW t, Send(a, type, t), UNCHANGED runRow
  PROVE  Told(a)' = Told(a) \cup {t}
<1> DEFINE e == [type |-> type, timings |-> t]
<1>1. events[a] \in Seq(RunEvents) /\ events'[a] = Append(events[a], e)
  BY DEF RunInv, HistoryTypeOK, Send
<1>2. Len(events[a]) \in Nat /\ DOMAIN events[a] = 1 .. Len(events[a])
  BY <1>1
<1>3. DOMAIN events'[a] = 1 .. (Len(events[a]) + 1)
  BY <1>1
<1>4. /\ \A i \in DOMAIN events[a] : i \in DOMAIN events'[a] /\ events'[a][i] = events[a][i]
      /\ Len(events[a]) + 1 \in DOMAIN events'[a] /\ events'[a][Len(events[a]) + 1] = e
      /\ \A i \in DOMAIN events'[a] : i \in DOMAIN events[a] \/ i = Len(events[a]) + 1
  BY <1>1, <1>2, <1>3
<1>5. {events'[a][i].timings : i \in DOMAIN events'[a]}
        = {events[a][i].timings : i \in DOMAIN events[a]} \cup {t}
  BY <1>4
<1>q. QED
  BY <1>5 DEF Told

\* A step of the agent's clock, with or without an event.
LEMMA TickKeeps ==
  ASSUME RunInv, NEW a \in Attempts, NEW c \in Clocks, NEW t \in Clocks, Tick(a, c), AgentOnly,
         UNCHANGED events
           \/ \E type \in {"started", "completed", "failed", "destroyed"} : Send(a, type, t),
         clock[a].on \/ createAnswer[a] = "awaited",
         ClockInv(a)'
  PROVE  RunInv'
<1> USE DEF HistoryTypeOK, RunInv
<1>1. /\ clock' \in [Attempts -> Clocks] /\ \A b \in Attempts \ {a} : clock'[b] = clock[b]
      /\ UNCHANGED <<createAnswer, runRow, first>>
  BY DEF Tick, AgentOnly, runVars
<1>2. events' \in [Attempts -> Seq(RunEvents)]
      /\ \A b \in Attempts \ {a} : events'[b] = events[b]
  <2>1. CASE UNCHANGED events
    BY <2>1
  <2>2. ASSUME NEW type \in {"started", "completed", "failed", "destroyed"}, Send(a, type, t)
        PROVE  events' \in [Attempts -> Seq(RunEvents)]
               /\ \A b \in Attempts \ {a} : events'[b] = events[b]
    <3>1. [type |-> type, timings |-> t] \in RunEvents
      BY DEF RunEvents
    <3>2. Append(events[a], [type |-> type, timings |-> t]) \in Seq(RunEvents)
      BY <3>1
    <3>q. QED
      BY <2>2, <3>2 DEF Send
  <2>q. QED
    BY <2>1, <2>2
<1>3. \A b \in Attempts \ {a} : ClockInv(b)' /\ RowInv(b)'
  BY <1>1, <1>2, AttemptKept
<1>4. RowInv(a)'
  BY <1>1 DEF RowInv
<1>q. QED
  BY <1>1, <1>2, <1>3, <1>4

\* What was told is of steps of a run.
LEMMA ToldTyped ==
  ASSUME HistoryTypeOK, NEW a \in Attempts, NEW t \in Told(a)
  PROVE  DOMAIN t.steps \subseteq RunSteps
<1>1. CASE t \in RunnerRows
  BY <1>1, StepMapsThere DEF RunnerRows
<1>2. CASE \E i \in DOMAIN events[a] : t = events[a][i].timings
  <2>1. PICK i \in DOMAIN events[a] : t = events[a][i].timings
    BY <1>2
  <2>2. events[a] \in Seq(RunEvents)
    BY DEF HistoryTypeOK
  <2>3. events[a][i] \in RunEvents
    BY <2>1, <2>2
  <2>q. QED
    BY <2>1, <2>3, StepMapsThere DEF RunEvents, Clocks
<1>q. QED
  BY <1>1, <1>2 DEF Told, HistoryTypeOK

\* The agent's own steps.
LEMMA CreateRunnerKeeps ==
  ASSUME RunInv, NEW a \in Attempts, CreateRunner(a)
  PROVE  RunInv'
<1>1. Told(a)' = Told(a)
  BY DEF CreateRunner, AgentOnly, runVars, Told
<1>2. clock'[a] = NewClock /\ ~clock[a].on
  BY DEF CreateRunner, Tick, RunInv, HistoryTypeOK
<1>3. NewClock.step = "create" /\ NewClock.failing = FALSE /\ NewClock.on = TRUE
      /\ NewClock.failed = "none" /\ NewClock.steps = NoSteps
  BY DEF NewClock, NoClock
<1>4. ClockInv(a)'
  BY <1>1, <1>2, <1>3, NoStepsThere DEF RunInv, ClockInv, Clean, EarlySteps
<1>q. QED
  BY <1>4, NoClockThere, TickKeeps DEF CreateRunner

\* A run that fails while its VM is created.
LEMMA CreateRunFailsKeeps ==
  ASSUME RunInv, NEW a \in Attempts, CreateRunFails(a)
  PROVE  RunInv'
<1> DEFINE t == FailRun(clock[a])
           c == [t EXCEPT !.step = "none"]
<1>1. clock[a] \in Clocks /\ clock[a].step = "create" /\ Tick(a, c) /\ Send(a, "failed", t)
  BY DEF CreateRunFails, RunInv, HistoryTypeOK
<1>2. c \in Clocks /\ t \in Clocks
  <2>1. t \in Clocks
    BY <1>1, FailRunFields
  <2> HIDE DEF t
  <2>q. QED
    BY <2>1 DEF Clocks
<1>3. t.failed = "create" /\ "create" \notin DOMAIN t.steps
      /\ clock[a].on /\ c.on /\ c.step = "none"
  <2>1. clock[a].on /\ clock[a].failed = "none"
    BY <1>1 DEF RunInv, ClockInv, Clean
  <2>2. t.failed = "create" /\ "create" \notin DOMAIN t.steps /\ t.on
    BY <1>1, <2>1, FailRunFields
  <2> HIDE DEF t
  <2>3. c.on = t.on /\ c.step = "none"
    BY <1>2 DEF Clocks
  <2>q. QED
    BY <2>1, <2>2, <2>3
<1> HIDE DEF c, t
<1>4. Told(a)' = Told(a) \cup {t} /\ clock'[a] = c
  BY <1>1, ToldSent DEF CreateRunFails, AgentOnly, runVars, Tick, RunInv, HistoryTypeOK
<1>5. Clean(Told(a), {})
  BY <1>1 DEF RunInv, ClockInv, EarlySteps
<1>6. DOMAIN t.steps \subseteq RunSteps
  BY <1>2, StepMapsThere DEF Clocks
<1>7. Consistent(Told(a))'
  BY <1>3, <1>4, <1>5, <1>6 DEF Clean, Consistent, RunSteps
<1>8. ClockInv(a)'
  BY <1>3, <1>4, <1>7 DEF ClockInv, EarlySteps
<1>q. QED
  BY <1>1, <1>2, <1>3, <1>8, TickKeeps DEF CreateRunFails

\* A run moves on to its next step.
LEMMA MoveKeeps ==
  ASSUME RunInv, NEW a \in Attempts, Move(a)
  PROVE  RunInv'
<1> DEFINE now == clock[a]
<1>1. now \in Clocks
  BY DEF RunInv, HistoryTypeOK
<1>2. PICK c : Tick(a, c) /\ \/ c = NextStep(now, "boot") \/ c = NextStep(now, "setup")
                             \/ c = NextStep(now, "install")
                             \/ c = Skip(now, "install")
  BY DEF Move
<1>3. now.step \in EarlySteps /\ UNCHANGED events /\ AgentOnly
  BY DEF Move, EarlySteps
<1>4. c \in Clocks
  <2>1. {"boot", "setup", "install"} \subseteq RunSteps
    BY DEF RunSteps
  <2>2. \A s \in {"boot", "setup", "install"} : NextStep(now, s) \in Clocks
    BY <1>1, <2>1, NextStepFields
  <2>3. Skip(now, "install") \in Clocks
    BY <1>1, <2>1, SkipFields
  <2>q. QED
    BY <1>2, <2>2, <2>3
<1>5. now.on /\ ~now.failing /\ now.failed = "none" /\ DOMAIN now.steps \subseteq EarlySteps
      /\ Clean(Told(a), {})
  BY <1>3 DEF RunInv, ClockInv, Clean, EarlySteps
<1>6. c.step \in EarlySteps /\ c.on /\ ~c.failing /\ c.failed = "none"
      /\ DOMAIN c.steps \subseteq EarlySteps
  <2>1. CASE c = Skip(now, "install")
    <3>1. "install" \in RunSteps \cup {"none"} /\ "install" # "none"
      BY DEF RunSteps
    <3>2. /\ c.on = now.on /\ c.step = now.step
          /\ c.failing = now.failing /\ c.failed = now.failed
          /\ DOMAIN c.steps = DOMAIN now.steps \cup {"install"}
      BY <1>1, <2>1, <3>1, SkipFields
    <3>q. QED
      BY <1>3, <1>5, <3>2 DEF EarlySteps
  <2>2. ASSUME NEW s \in EarlySteps, c = NextStep(now, s)
        PROVE  c.step \in EarlySteps /\ c.on /\ ~c.failing /\ c.failed = "none"
               /\ DOMAIN c.steps \subseteq EarlySteps
    <3>1. s \in RunSteps
      BY DEF EarlySteps, RunSteps
    <3>q. QED
      <4>1. /\ c.step = s /\ c.on = now.on /\ c.failing = FALSE /\ c.failed = now.failed
            /\ DOMAIN c.steps \subseteq DOMAIN now.steps \cup {now.step}
        BY <1>1, <2>2, <3>1, NextStepFields
      <4>q. QED
        BY <1>3, <1>5, <4>1
  <2>q. QED
    BY <1>2, <2>1, <2>2 DEF EarlySteps
<1>7. Told(a)' = Told(a) /\ clock'[a] = c
  BY <1>2, <1>3 DEF AgentOnly, runVars, Told, Tick, RunInv, HistoryTypeOK
<1>8. ClockInv(a)'
  BY <1>5, <1>6, <1>7 DEF ClockInv, Clean, EarlySteps
<1>q. QED
  BY <1>2, <1>3, <1>4, <1>5, <1>8, TickKeeps

\* The runner of a run has started.
LEMMA RunnerStartedKeeps ==
  ASSUME RunInv, NEW a \in Attempts, RunnerStarted(a)
  PROVE  RunInv'
<1> DEFINE now == clock[a]
           c == NextStep(now, "job")
<1>1. now \in Clocks /\ now.step = "setup" /\ Tick(a, c) /\ Send(a, "started", c)
  BY DEF RunInv, HistoryTypeOK, RunnerStarted
<1>2. c \in Clocks
  BY <1>1, NextStepFields DEF RunSteps
<1>3. now.on /\ ~now.failing /\ now.failed = "none" /\ DOMAIN now.steps \subseteq EarlySteps
      /\ Clean(Told(a), {})
  BY <1>1 DEF RunInv, ClockInv, Clean, EarlySteps
<1>4. c.step = "job" /\ c.on /\ ~c.failing /\ c.failed = "none"
      /\ DOMAIN c.steps \subseteq EarlySteps
  <2>1. "job" \in RunSteps \cup {"none"}
    BY DEF RunSteps
  <2>2. /\ c.step = "job" /\ c.on = now.on /\ c.failing = FALSE /\ c.failed = now.failed
        /\ DOMAIN c.steps \subseteq DOMAIN now.steps \cup {now.step}
    BY <1>1, <2>1, NextStepFields
  <2>q. QED
    BY <1>1, <1>3, <2>2 DEF EarlySteps
<1> HIDE DEF c
<1>5. Told(a)' = Told(a) \cup {c} /\ clock'[a] = c
  BY <1>1, ToldSent DEF RunnerStarted, AgentOnly, runVars, Tick, RunInv, HistoryTypeOK
<1>6. ClockInv(a)'
  BY <1>3, <1>4, <1>5 DEF ClockInv, Clean, EarlySteps
<1>q. QED
  BY <1>1, <1>2, <1>3, <1>6, TickKeeps DEF RunnerStarted

\* A run ends, well or not.
LEMMA RunEndsKeeps ==
  ASSUME RunInv, NEW a \in Attempts, NEW ok \in BOOLEAN, NEW destroyed \in BOOLEAN,
         RunEnds(a, ok, destroyed)
  PROVE  RunInv'
<1> DEFINE now == clock[a]
           run == IF ok THEN now ELSE FailRun(now)
           out == NextStep(run, "destroy")
           over == IF destroyed THEN out ELSE FailRun(out)
           end == NextStep(over, "none")
<1>1. /\ now \in Clocks /\ now.step \in {"boot", "setup", "install", "job"}
      /\ ok => now.step = "job"
      /\ Tick(a, end) /\ Send(a, IF ok THEN "completed" ELSE "failed", end) /\ AgentOnly
  BY DEF RunInv, HistoryTypeOK, RunEnds
<1>2. now.on /\ ~now.failing /\ now.failed = "none" /\ DOMAIN now.steps \subseteq EarlySteps
      /\ Clean(Told(a), EarlySteps) /\ (now.step # "job" => Clean(Told(a), {}))
  BY <1>1 DEF RunInv, ClockInv, Clean, EarlySteps
<1>3. "destroy" \in RunSteps /\ now.step \in RunSteps
  BY <1>1 DEF RunSteps
<1>4. /\ run \in Clocks /\ run.on /\ run.step = now.step
      /\ ok => ~run.failing /\ run.failed = "none" /\ run.steps = now.steps
      /\ ~ok => /\ run.failing /\ run.failed = now.step
                /\ DOMAIN run.steps = DOMAIN now.steps \ {now.step}
  BY <1>1, <1>2, FailRunFields
<1> HIDE DEF run
<1>5. /\ out \in Clocks /\ out.on /\ out.step = "destroy" /\ ~out.failing /\ out.failed = run.failed
      /\ ok => DOMAIN out.steps = DOMAIN now.steps \cup {"job"}
      /\ ~ok => DOMAIN out.steps = DOMAIN now.steps \ {now.step}
  <2>1. /\ out \in Clocks /\ out.on = run.on /\ out.failed = run.failed
        /\ out.step = "destroy" /\ out.failing = FALSE
        /\ run.failing \/ run.step = "none" => DOMAIN out.steps = DOMAIN run.steps
        /\ ~run.failing /\ run.step # "none" => DOMAIN out.steps = DOMAIN run.steps \cup {run.step}
    BY <1>3, <1>4, NextStepFields
  <2>q. QED
    BY <1>1, <1>4, <2>1
<1> HIDE DEF out
<1>6. /\ over \in Clocks /\ over.on /\ over.step = "destroy"
      /\ destroyed => ~over.failing /\ over.failed = run.failed /\ over.steps = out.steps
      /\ ~destroyed => /\ over.failing
                       /\ over.failed = IF ok THEN "destroy" ELSE now.step
                       /\ DOMAIN over.steps \subseteq DOMAIN out.steps
                       /\ ok => "destroy" \notin DOMAIN over.steps
  <2>1. CASE destroyed
    BY <1>5, <2>1
  <2>2. ASSUME ~destroyed
        PROVE  /\ over \in Clocks /\ over.on /\ over.step = "destroy" /\ over.failing
               /\ over.failed = IF out.failed # "none" THEN out.failed ELSE "destroy"
               /\ DOMAIN over.steps \subseteq DOMAIN out.steps
               /\ out.failed = "none" => "destroy" \notin DOMAIN over.steps
    <3>1. over = FailRun(out)
      BY <2>2 DEF over
    <3>2. out.step # "none"
      BY <1>5
    <3>3. /\ over \in Clocks /\ over.on = out.on /\ over.step = out.step /\ over.failing = TRUE
          /\ out.failed = "none" => /\ over.failed = out.step
                                   /\ DOMAIN over.steps = DOMAIN out.steps \ {out.step}
          /\ out.failed # "none" => /\ over.failed = out.failed
                                   /\ DOMAIN over.steps = DOMAIN out.steps
      BY <1>5, <3>1, <3>2, FailRunFields
    <3>q. QED
      BY <1>5, <3>3
  <2>q. QED
    BY <1>1, <1>4, <1>5, <2>1, <2>2
<1> HIDE DEF over
<1>7. /\ end \in Clocks /\ end.on /\ end.step = "none" /\ end.failed = over.failed
      /\ DOMAIN end.steps = DOMAIN over.steps \cup (IF destroyed THEN {"destroy"} ELSE {})
  <2>1. /\ end \in Clocks /\ end.on = over.on /\ end.step = "none" /\ end.failed = over.failed
        /\ over.failing \/ over.step = "none" => DOMAIN end.steps = DOMAIN over.steps
        /\ ~over.failing /\ over.step # "none" =>
             DOMAIN end.steps = DOMAIN over.steps \cup {over.step}
    <3>1. over \in Clocks /\ "none" \in RunSteps \cup {"none"}
      BY <1>6
    <3>q. QED
      BY <3>1, NextStepFields
  <2>q. QED
    BY <1>6, <2>1
<1> HIDE DEF end
<1>8. Told(a)' = Told(a) \cup {end} /\ clock'[a] = end
  BY <1>1, ToldSent DEF AgentOnly, runVars, Tick, RunInv, HistoryTypeOK
<1>9. end.failed \notin DOMAIN end.steps /\ end.failed \in {"none", "destroy", now.step}
  BY <1>1, <1>2, <1>3, <1>4, <1>5, <1>6, <1>7 DEF EarlySteps
<1>10. ASSUME NEW t \in Told(a)
       PROVE  end.failed \notin DOMAIN t.steps /\ t.failed \notin DOMAIN end.steps
  <2>1. DOMAIN end.steps \subseteq RunSteps
    BY <1>7, StepMapsThere DEF Clocks
  <2>2. t.failed = "none" /\ DOMAIN t.steps \subseteq EarlySteps
        /\ (now.step # "job" => DOMAIN t.steps = {})
    BY <1>2 DEF Clean
  <2>q. QED
    BY <1>9, <2>1, <2>2 DEF RunSteps, EarlySteps
<1>11. Consistent(Told(a))
  BY <1>2 DEF Clean, Consistent, EarlySteps
<1>12. Consistent(Told(a))'
  BY <1>8, <1>9, <1>10, <1>11 DEF Consistent
<1>13. ClockInv(a)'
  BY <1>7, <1>8, <1>12 DEF ClockInv, EarlySteps
<1>q. QED
  BY <1>1, <1>2, <1>7, <1>13, TickKeeps

\* The agent reports the end of a runner.
LEMMA DestroyReportedKeeps ==
  ASSUME RunInv, NEW a \in Attempts, NEW type \in {"destroyed", "failed"},
         DestroyReported(a, type)
  PROVE  RunInv'
<1>1. clock[a] \in Clocks /\ clock[a].on /\ clock[a].step = "none" /\ UNCHANGED clock
      /\ Send(a, type, NoClock) /\ AgentOnly
  BY DEF DestroyReported, RunInv, HistoryTypeOK
<1>2. Tick(a, clock[a])
  BY <1>1 DEF Tick, RunInv, HistoryTypeOK
<1>3. Told(a)' = Told(a) \cup {NoClock}
  BY <1>1, ToldSent DEF AgentOnly, runVars
<1>4. NoClock.failed = "none" /\ DOMAIN NoClock.steps = {}
  BY NoStepsThere DEF NoClock
<1>5. \A t \in Told(a) : "none" \notin DOMAIN t.steps
  BY ToldTyped DEF RunSteps, RunInv
<1>6. Consistent(Told(a))'
  BY <1>1, <1>3, <1>4, <1>5 DEF Consistent, RunInv, ClockInv
<1>7. ClockInv(a)'
  BY <1>1, <1>6 DEF ClockInv, EarlySteps
<1>q. QED
  BY <1>1, <1>2, <1>7, NoClockThere, TickKeeps

\* An event is read, its timings merge into the row, or not, and it may be the row's end.
LEMMA EventKeeps ==
  ASSUME RunInv, NEW a \in Attempts, NEW row, NEW types, RunEvent(a, row, types),
         NEW outcome \in RunOutcomes,
         \/ RunWrite(a, row) /\ UNCHANGED first
         \/ /\ row # NoRow /\ RunWrite(a, FinishOnce(row, outcome))
            /\ first' = [first EXCEPT ![a] = IF @ = "none" THEN outcome ELSE @]
  PROVE  RunInv'
<1> USE DEF HistoryTypeOK, RunInv
<1> DEFINE t == Head(events[a]).timings
<1>1. /\ events[a] \in Seq(RunEvents) /\ events[a] # <<>>
      /\ events' = [events EXCEPT ![a] = Tail(events[a])]
      /\ row \in Timings(a, t) /\ UNCHANGED <<createAnswer, clock>>
  BY DEF RunEvent
<1>2. /\ Tail(events[a]) \in Seq(RunEvents) /\ Head(events[a]) = events[a][1]
      /\ 1 \in DOMAIN events[a] /\ Head(events[a]) \in RunEvents
      /\ \A i \in DOMAIN Tail(events[a]) : /\ i + 1 \in DOMAIN events[a]
                                           /\ Tail(events[a])[i] = events[a][i + 1]
  BY <1>1
<1>3. t \in Clocks /\ t \in Told(a)
  BY <1>2 DEF RunEvents, Told
<1> HIDE DEF t
<1>4. /\ events' \in [Attempts -> Seq(RunEvents)]
      /\ events'[a] = Tail(events[a]) /\ \A b \in Attempts \ {a} : events'[b] = events[b]
  BY <1>1, <1>2
<1>5. \A u \in Told(a)' : u \in Told(a) \/ (runRow'[a] # NoRow /\ u = runRow'[a])
  BY <1>2, <1>4 DEF Told
<1>6. CASE runRow[a] = NoRow
  <2>1. row = NoRow
    BY <1>1, <1>6 DEF Timings
  <2>2. UNCHANGED <<runRow, first>>
    BY <1>6, <2>1 DEF RunWrite
  <2>3. ClockInv(a)' /\ RowInv(a)'
    BY <1>1, <1>5, <1>6, <2>2, ToldLess DEF RowInv
  <2>q. QED
    BY <1>1, <1>4, <2>2, <2>3, AttemptKept
<1>7. CASE runRow[a] # NoRow
  <2>1. runRow[a] \in RunnerRows
    BY <1>7
  <2>2. row \in RunnerRows /\ row.failed \in {runRow[a].failed, t.failed}
        /\ DOMAIN row.steps \subseteq DOMAIN runRow[a].steps \cup DOMAIN t.steps
        /\ row.outcome = runRow[a].outcome
    <3>1. CASE row = runRow[a]
      BY <2>1, <3>1
    <3>2. CASE row = Timed(runRow[a], t)
      <4>1. /\ t.steps \in StepMaps /\ runRow[a].steps \in StepMaps
            /\ t.failed \in RunSteps \cup {"none"}
        BY <1>3, <2>1 DEF Clocks, RunnerRows
      <4>2. /\ Joined(t.steps, runRow[a].steps) \in StepMaps
            /\ DOMAIN Joined(t.steps, runRow[a].steps) = DOMAIN t.steps \cup DOMAIN runRow[a].steps
        BY <4>1, StepMapsThere
      <4>q. QED
        BY <2>1, <3>2, <4>1, <4>2 DEF Timed, RunnerRows
    <3>q. QED
      BY <1>1, <1>7, <3>1, <3>2 DEF Timings
  <2>3. NoRow \notin RunnerRows
    BY DEF NoRow, RunnerRows
  <2>4. PICK new : /\ runRow' = [runRow EXCEPT ![a] = new] /\ new \in RunnerRows
                   /\ new.failed = row.failed /\ new.steps = row.steps
                   /\ first'[a] = new.outcome /\ first' \in [Attempts -> RunOutcomes]
                   /\ \A b \in Attempts \ {a} : first'[b] = first[b]
    <3>1. first[a] = row.outcome
      BY <1>7, <2>2 DEF RowInv
    <3>2. CASE RunWrite(a, row) /\ UNCHANGED first
      BY <1>7, <2>2, <3>1, <3>2 DEF RunWrite
    <3>3. CASE /\ RunWrite(a, FinishOnce(row, outcome))
               /\ first' = [first EXCEPT ![a] = IF @ = "none" THEN outcome ELSE @]
      <4>1. FinishOnce(row, outcome) \in RunnerRows
            /\ FinishOnce(row, outcome).failed = row.failed
            /\ FinishOnce(row, outcome).steps = row.steps
            /\ FinishOnce(row, outcome).outcome
                 = IF row.outcome = "none" THEN outcome ELSE row.outcome
        BY <2>2 DEF FinishOnce, RunnerRows
      <4>q. QED
        BY <1>7, <3>1, <3>3, <4>1 DEF RunWrite
    <3>q. QED
      BY <3>2, <3>3
  <2>5. runRow'[a] = new /\ \A b \in Attempts \ {a} : runRow'[b] = runRow[b]
    BY <2>4
  <2>6. ClockInv(a)' /\ RowInv(a)'
    BY <1>1, <1>3, <1>5, <1>7, <2>2, <2>3, <2>4, <2>5, RowChanged
  <2>q. QED
    BY <1>1, <1>4, <2>4, <2>5, <2>6, AttemptKept
<1>q. QED
  BY <1>6, <1>7

\* A runner is asked for.
LEMMA RequestKeeps ==
  ASSUME RunInv, NEW a \in Attempts, RequestRunner(a)
  PROVE  RunInv'
<1> USE DEF HistoryTypeOK, RunInv
<1>1. /\ createAnswer[a] = "none" /\ UNCHANGED <<first, clock, events>>
      /\ createAnswer' = [createAnswer EXCEPT ![a] = "awaited"]
      /\ runRow' = [runRow EXCEPT ![a] = NewRunner] \/ UNCHANGED runRow
  BY DEF RequestRunner
<1>2. runRow[a] = NoRow /\ ~clock[a].on /\ first[a] = "none"
  BY <1>1 DEF RowInv
<1>3. /\ runRow'[a] \in {NoRow, NewRunner} /\ createAnswer'[a] = "awaited"
      /\ \A b \in Attempts \ {a} : runRow'[b] = runRow[b] /\ createAnswer'[b] = createAnswer[b]
      /\ runRow' \in [Attempts -> {NoRow} \cup RunnerRows]
  BY <1>1, <1>2, NoClockThere
<1>4. \A u \in Told(a)' : u \in Told(a) \/ u = NewRunner
  BY <1>1, <1>3 DEF Told
<1>5. NewRunner.outcome = "none" /\ NewRunner.failed = "none" /\ DOMAIN NewRunner.steps = {}
  BY NoStepsThere DEF NewRunner
<1>6. ClockInv(a)'
  BY <1>1, <1>2, <1>4, <1>5 DEF ClockInv, Clean, EarlySteps
<1>7. RowInv(a)'
  BY <1>1, <1>2, <1>3, <1>5 DEF RowInv
<1>8. \A b \in Attempts \ {a} : ClockInv(b)' /\ RowInv(b)'
  BY <1>1, <1>3, AttemptKept
<1>9. HistoryTypeOK'
  BY <1>1, <1>3
<1>q. QED
  BY <1>6, <1>7, <1>8, <1>9

\* Old rows are taken away.
LEMMA PruneKeeps ==
  ASSUME RunInv, PruneRuns
  PROVE  RunInv'
<1> USE DEF HistoryTypeOK, RunInv
<1>1. /\ runRow' = [a \in Attempts |-> NoRow] /\ first' = [a \in Attempts |-> "none"]
      /\ UNCHANGED <<clock, events, createAnswer>>
  BY DEF PruneRuns, eventVars
<1>2. ASSUME NEW a \in Attempts PROVE ClockInv(a)' /\ RowInv(a)'
  <2>1. Told(a)' \subseteq Told(a)
    BY <1>1 DEF Told
  <2>q. QED
    BY <1>1, <2>1, ToldLess DEF RowInv
<1>q. QED
  BY <1>1, <1>2 DEF RunOutcomes

\* Nothing happens to the runs.
LEMMA RunsKept ==
  ASSUME RunInv, UNCHANGED <<runVars, clock, events>>, 
         UNCHANGED createAnswer \/ \E a \in Attempts : Answered(a)
  PROVE  RunInv'
<1> USE DEF HistoryTypeOK, RunInv
<1>1. /\ createAnswer' \in [Attempts -> {"none", "awaited", "given"}]
      /\ \A b \in Attempts : createAnswer'[b] \in {createAnswer[b], "given"}
  BY DEF Answered
<1>q. QED
  BY <1>1, AttemptKept DEF runVars

\* The runs' part of the invariant is inductive.
LEMMA HistoryNextRuns ==
  ASSUME RunInv, [HistoryNext]_historyVars
  PROVE  RunInv'
<1> USE DEF eventVars
<1>1. CASE \/ TakeJob \/ JobSeen \/ HookInProgress \/ HookCompleted \/ FleetJobCompleted
           \/ VerifyGone \/ UNCHANGED historyVars
           \/ \E conclusion \in {"success", "cancelled"} : EndJobRow(conclusion)
  BY <1>1, RunsKept DEF TakeJob, JobSeen, HookInProgress, HookCompleted, FleetJobCompleted,
                        VerifyGone, EndJobRow, historyVars, runVars
<1>2. CASE PruneRuns
  BY <1>2, PruneKeeps
<1>3. ASSUME NEW a \in Attempts, Accepted(a) \/ \E why \in {"idled", "drained"} : Destroy(a, why)
      PROVE  RunInv'
  BY <1>3, RunsKept DEF Accepted, Destroy
<1>4. ASSUME NEW a \in Attempts, Rejected(a) \/ CommandFails(a) \/ Recover(a)
      PROVE  RunInv'
  <2>1. PICK outcome \in RunOutcomes : Finish(a, outcome)
    BY <1>4 DEF Rejected, CommandFails, Recover, RunOutcomes
  <2>2. UNCHANGED <<clock, events>> /\ (Answered(a) \/ UNCHANGED createAnswer)
    BY <1>4 DEF Rejected, CommandFails, Recover
  <2>q. QED
    BY <2>1, <2>2, FinishKeeps
<1>5. ASSUME NEW a \in Attempts, EventStarted(a) \/ EventIgnored(a) PROVE RunInv'
  <2>1. PICK row, types : RunEvent(a, row, types) /\ RunWrite(a, row) /\ UNCHANGED first
    BY <1>5 DEF EventStarted, EventIgnored
  <2>2. "lost" \in RunOutcomes
    BY DEF RunOutcomes
  <2>q. QED
    BY <2>1, <2>2, EventKeeps
<1>6. ASSUME NEW a \in Attempts, EventEnds(a) PROVE RunInv'
  <2>1. Outcome(a, Head(events[a]).type) \in RunOutcomes
    BY DEF Outcome, RunOutcomes
  <2>q. QED
    BY <1>6, <2>1, EventKeeps DEF EventEnds
<1>q. QED
  BY <1>1, <1>2, <1>3, <1>4, <1>5, <1>6, RequestKeeps, CreateRunnerKeeps, CreateRunFailsKeeps,
     MoveKeeps, RunnerStartedKeeps, RunEndsKeeps, DestroyReportedKeeps DEF HistoryNext

\* HistoryHonest: the history blames a run on the step that failed and on no other, gives every
\* attempt one outcome, its first, and tells of a job what was first heard of its end, whatever
\* events come late, twice or never.
THEOREM HistoryTold == HistorySpec => []HistoryHonest
<1>1. HistoryInv /\ [HistoryNext]_historyVars => HistoryInv'
  BY HistoryNextTold
<1>2. RunInv /\ [HistoryNext]_historyVars => RunInv'
  BY HistoryNextRuns
<1>3. HistoryInv => OutcomeTold
  BY DEF HistoryInv, ToldInv, OutcomeTold
<1>4. RunInv => RunHonest
  <2> SUFFICES ASSUME RunInv, NEW a \in Attempts, runRow[a] # NoRow
               PROVE  /\ first[a] # "none" => runRow[a].outcome = first[a]
                      /\ runRow[a].failed \notin DOMAIN runRow[a].steps
    BY DEF RunHonest
  <2>1. first[a] = runRow[a].outcome
    BY DEF RunInv, RowInv
  <2>2. runRow[a] \in Told(a)
    BY DEF Told
  <2>3. ASSUME Consistent(Told(a)) PROVE runRow[a].failed \notin DOMAIN runRow[a].steps
    BY <2>2, <2>3 DEF Consistent
  <2>4. ASSUME NEW S, "none" \notin S, Clean(Told(a), S)
        PROVE  runRow[a].failed \notin DOMAIN runRow[a].steps
    BY <2>2, <2>4 DEF Clean
  <2>5. "none" \notin {} /\ "none" \notin EarlySteps
    BY DEF EarlySteps
  <2>6. ClockInv(a)
    BY DEF RunInv
  <2>7. runRow[a].failed \notin DOMAIN runRow[a].steps
    BY <2>3, <2>4, <2>5, <2>6 DEF ClockInv
  <2>q. QED
    BY <2>1, <2>7
<1>q. QED
  BY HistoryInitTold, HistoryInitRuns, <1>1, <1>2, <1>3, <1>4, PTL DEF HistorySpec, HistoryHonest

-----------------------------------------------------------------------------
(* Accounts *)

\* AdminRemains: user_delete counts and deletes in one transaction, so whoever deletes whom at once,
\* an admin stays (admin/auth.rs).
THEOREM AdminsRemain == AccountsSpec => AdminRemains
<1>1. ASSUME [AccountsNext]_accountVars, admins # {} PROVE admins' # {}
  <2>1. ASSUME NEW f \in Forms, UserDelete(f) PROVE admins' # {}
    BY <1>1, <2>1 DEF UserDelete, AnyLeft
  <2>2. ASSUME NEW f \in Forms, UserCreate(f) PROVE admins' # {}
    BY <1>1, <2>2 DEF UserCreate
  <2>3. ASSUME NEW user \in AdminNames, CliCreateUser(user) PROVE admins' # {}
    BY <1>1, <2>3 DEF CliCreateUser
  <2>4. ASSUME NEW f \in Forms,
               \/ \E user \in AdminNames : FindUser(f, user)
               \/ \E login \in logins, kind \in FormKinds, target \in AdminNames :
                    CheckAuth(f, login, kind, target)
               \/ OpenSession(f) \/ UserSetPassword(f) \/ ClearSessions(f)
               \/ Logout(f) \/ ApiTokenCreate(f) \/ ApiTokenDelete(f)
        PROVE  admins' = admins
    BY <2>4 DEF FindUser, CheckAuth, OpenSession, UserSetPassword, ClearSessions, Logout,
                ApiTokenCreate, ApiTokenDelete
  <2>5. CASE \/ \E login \in logins : SessionExpires(login)
             \/ \E user \in AdminNames : CliResetPassword(user)
             \/ CliClearSessions
    BY <1>1, <2>5 DEF SessionExpires, CliResetPassword, CliClearSessions
  <2>6. CASE UNCHANGED accountVars
    BY <1>1, <2>6 DEF accountVars
  <2>q. QED
    BY <1>1, <2>1, <2>2, <2>3, <2>4, <2>5, <2>6 DEF AccountsNext
<1>2. [AccountsNext]_accountVars => [admins # {} => admins' # {}]_accountVars
  BY <1>1
<1>q. QED
  BY <1>2, PTL DEF AccountsSpec, AdminRemains

-----------------------------------------------------------------------------
(* Setup *)

\* What a run goes through before it has a host to make a certificate for, and then.
Early == {"idle", "kept", "new", "token", "pasted"}
CaSteps == {"ca", "caCert", "caKey"}
ServerSteps == {"server", "serverCert", "serverKey"}
Saving == {"save", "config", "configOpen"}
Ending == {"admin", "done"}

\* The run: one that has only begun, `ca init`, `ca server-cert`, and setup with a config that
\* it keeps or that it saves.
SetupRun ==
  \/ setup \in [step : Early]
  \/ setup \in [step : CaSteps \cup {"done"}, then : {"init"}]
  \/ setup \in [step : ServerSteps \cup {"done"}, then : {"done"}, host : HostNames]
  \/ setup \in [step : CaSteps \cup ServerSteps \cup {"check"} \cup Ending, then : {"admin"},
                host : HostNames, config : Configs]
  \/ setup \in [step : CaSteps \cup ServerSteps \cup {"check"} \cup Saving \cup Ending,
                then : {"save"}, host : HostNames, config : Configs]

Signed == serverCert \notin FileStates

\* Keys are made once, and a CA's key is there only together with its certificate.
CaInv ==
  /\ caCert \notin FileStates => \E n \in 1..keysMade : caCert = KeyPair(n)
  /\ Signed => \E n \in 1..keysMade : serverCert.ca = KeyPair(n)
  /\ caKey \notin FileStates => caCert = caKey
  /\ Signed /\ serverCert.ca = caCert => caKey = caCert
  /\ trusting # {} => caCert \notin FileStates /\ caKey \notin FileStates

\* The files as each step of making certificates finds them.
KeyStepsInv ==
  /\ setup.step \in {"caCert", "caKey", "serverCert", "serverKey"} => keysMade >= 1
  /\ setup.step = "caCert" => caCert = Torn /\ caKey = Absent
  /\ setup.step = "caKey" => caCert = KeyPair(keysMade) /\ caKey = Torn
  /\ setup.step \in {"caCert", "caKey"} /\ Signed => serverCert.ca # KeyPair(keysMade)
  /\ setup.step = "serverCert" => serverCert = Torn /\ caCert \notin FileStates
                                  /\ caKey \notin FileStates

Planned == setup.step \notin Early

\* The config a run is about, and the one there is.
ConfigInv ==
  /\ setup.step = "kept" => configFile # Absent
  /\ setup.step \in {"token", "pasted"} => "pasted" \in ForgeKinds
  /\ setup.step = "pasted" => tokenFile = KeyPair(0)
  /\ Planned /\ setup.then = "admin" => configFile = setup.config
  /\ Planned /\ setup.then = "save" =>
       /\ ~setup.config.foreign
       /\ setup.config.forge # "none" => Resolves(setup.config)
       /\ setup.config.forge = "pasted" => tokenFile = KeyPair(0)
  /\ setup.step = "config" => configFile = Absent
  /\ setup.step = "configOpen" => configFile = Torn
  /\ setup.step \in Ending /\ setup.then = "save" => configFile = setup.config

\* From the server certificate's check on, it is good or somebody else's.
GoodInv ==
  setup.step \in Saving \cup Ending /\ setup.then \in {"admin", "save"} =>
    IdentityGood(setup.host) \/ setup.config.foreign

SetupInv == SetupTypeOK /\ SetupRun /\ CaInv /\ KeyStepsInv /\ ConfigInv /\ GoodInv

\* Keys and configs are no torn or absent files, and two key pairs differ.
LEMMA FilesApart ==
  /\ \A n : KeyPair(n) \notin FileStates /\ KeyPair(n) # Absent /\ KeyPair(n) # Torn
  /\ \A n, m : KeyPair(n) = KeyPair(m) => n = m
  /\ \A c \in Configs : c \notin FileStates
  /\ Absent \in FileStates /\ Torn \in FileStates /\ Absent # Torn
<1>1. \A n : DOMAIN KeyPair(n) = {"pair"} /\ KeyPair(n).pair = n
  BY DEF KeyPair
<1>2. \A c \in Configs : "run" \in DOMAIN c
  BY DEF Configs
<1>3. \A f \in FileStates : DOMAIN f = {"file"}
  BY DEF FileStates, Absent, Torn
<1>4. Absent \in FileStates /\ Torn \in FileStates /\ Absent # Torn
  BY DEF FileStates, Absent, Torn
<1>q. QED
  BY <1>1, <1>2, <1>3, <1>4

\* Nor is a certificate.
LEMMA SignedApart ==
  ASSUME NEW k, NEW a, NEW h, NEW d
  PROVE  [key |-> k, ca |-> a, host |-> h, inDate |-> d] \notin FileStates
<1>1. \A f \in FileStates : DOMAIN f = {"file"}
  BY DEF FileStates, Absent, Torn
<1>2. "key" \in DOMAIN [key |-> k, ca |-> a, host |-> h, inDate |-> d]
  OBVIOUS
<1>q. QED
  BY <1>1, <1>2

\* There is nothing yet.
LEMMA SetupStarts == SetupInit => SetupInv
<1> SUFFICES ASSUME SetupInit PROVE SetupInv
  OBVIOUS
<1>1. MaxKeys \in Nat /\ MaxRuns \in Nat
  BY SetupAssumption
<1>2. setup = [step |-> "idle"] /\ caCert = Absent /\ caKey = Absent /\ serverCert = Absent
      /\ serverKey = Absent /\ tokenFile = Absent /\ configFile = Absent /\ backups = {}
      /\ keysMade = 0 /\ runs = 0 /\ trusting = {}
  BY DEF SetupInit, NotRunning
<1>3. SetupTypeOK
  BY <1>1, <1>2, FilesApart DEF SetupTypeOK
<1>4. SetupRun
  BY <1>2 DEF SetupRun, Early
<1>5. CaInv /\ KeyStepsInv
  BY <1>2, FilesApart DEF CaInv, Signed, KeyStepsInv
<1>6. ConfigInv /\ GoodInv
  BY <1>2 DEF ConfigInv, GoodInv, Planned, Early, Saving, Ending
<1>q. QED
  BY <1>3, <1>4, <1>5, <1>6 DEF SetupInv

\* The fields of a run, by its step.
LEMMA RunFields ==
  ASSUME SetupRun
  PROVE  /\ setup.step \in Early => setup = [step |-> setup.step]
         /\ setup.step \in CaSteps => setup.then \in {"init", "admin", "save"}
         /\ setup.step \in ServerSteps =>
              setup.then \in {"done", "admin", "save"} /\ setup.host \in HostNames
         /\ setup.step \in Saving => setup.then = "save"
         /\ setup.step = "check" => setup.then \in {"admin", "save"} /\ setup.host \in HostNames
         /\ setup.step = "admin" => setup.then \in {"admin", "save"}
         /\ setup.step = "done" => setup.then \in {"init", "done", "admin", "save"}
         /\ setup.step \notin Early /\ setup.then \in {"admin", "save"} =>
              setup.config \in Configs /\ setup.host \in HostNames
         /\ setup.step \in Early \cup CaSteps \cup ServerSteps \cup {"check"}
                            \cup Saving \cup Ending
  BY DEF SetupRun, Early, CaSteps, ServerSteps, Saving, Ending

\* The types are kept.
LEMMA SetupTyped ==
  ASSUME SetupInv, [SetupNext]_setupVars
  PROVE  SetupTypeOK'
<1>1. SetupTypeOK /\ SetupRun /\ KeyStepsInv /\ ConfigInv
  BY DEF SetupInv
<1>2. MaxKeys \in Nat /\ MaxRuns \in Nat /\ keysMade \in Nat /\ runs \in Nat
  BY <1>1, SetupAssumption DEF SetupTypeOK
<1>3. Absent \in FileStates /\ Torn \in FileStates
  BY FilesApart
<1>4. keysMade >= 1 => KeyPair(keysMade) \in Keys
  BY <1>1, <1>2 DEF Keys, SetupTypeOK
<1> HIDE DEF SetupInv
<1>5. CASE KeepConfig \/ CaCommand
  BY <1>1, <1>2, <1>5
     DEF KeepConfig, CaCommand, SetupTypeOK, caFiles, serverFiles, configFiles
<1>6. CASE UNCHANGED <<caFiles, serverFiles, configFiles, keysMade, runs, trusting>>
  BY <1>1, <1>6 DEF SetupTypeOK, caFiles, serverFiles, configFiles
<1>7. CASE OpenToken \/ WriteToken
  BY <1>1, <1>3, <1>7 DEF OpenToken, WriteToken, SetupTypeOK, caFiles, configFiles
<1>8. CASE InitCa \/ GenerateServerCert
  <2>1. keysMade + 1 \in 0..MaxKeys
    BY <1>1, <1>2, <1>8 DEF InitCa, GenerateServerCert
  <2>q. QED
    BY <1>1, <1>3, <1>8, <2>1
       DEF InitCa, GenerateServerCert, SetupTypeOK, caFiles, serverFiles, configFiles
<1>9. CASE WriteCaCert \/ WriteCaKey
  BY <1>1, <1>3, <1>4, <1>9
     DEF WriteCaCert, WriteCaKey, SetupAt, KeyStepsInv, SetupTypeOK, serverFiles, configFiles
<1>10. CASE WriteServerCert
  <2>1. caKey \in Keys /\ keysMade >= 1 /\ setup.host \in HostNames
    BY <1>1, <1>10, RunFields DEF WriteServerCert, SetupAt, KeyStepsInv, SetupTypeOK, ServerSteps
  <2>2. serverCert' \in [key : Keys, ca : Keys, host : HostNames, inDate : BOOLEAN]
    BY <1>4, <1>10, <2>1 DEF WriteServerCert
  <2>q. QED
    BY <1>1, <1>3, <1>10, <2>2 DEF WriteServerCert, SetupTypeOK, caFiles, configFiles
<1>11. CASE WriteServerKey
  BY <1>1, <1>4, <1>11
     DEF WriteServerKey, SetupAt, KeyStepsInv, SetupTypeOK, caFiles, configFiles
<1>12. CASE BackUpConfig
  <2>1. configFile = Absent \/ configFile \in {Torn} \cup Configs
    BY <1>1 DEF SetupTypeOK, FileStates
  <2>q. QED
    BY <1>1, <1>3, <1>12, <2>1 DEF BackUpConfig, Backup, SetupTypeOK, caFiles, serverFiles
<1>13. CASE OpenConfig
  BY <1>1, <1>3, <1>13 DEF OpenConfig, SetupTypeOK, caFiles, serverFiles
<1>14. CASE WriteConfig
  <2>1. setup.config \in Configs
    BY <1>1, <1>14, RunFields DEF WriteConfig, SetupAt, Early, Saving
  <2>q. QED
    BY <1>1, <1>14, <2>1 DEF WriteConfig, SetupTypeOK, caFiles, serverFiles
<1>15. CASE CertExpires
  <2>1. serverCert' \in [key : Keys, ca : Keys, host : HostNames, inDate : BOOLEAN]
    BY <1>1, <1>15 DEF CertExpires, SetupTypeOK
  <2>q. QED
    BY <1>1, <1>15, <2>1 DEF CertExpires, SetupTypeOK, caFiles, configFiles
<1>16. CASE OperatorWrites
  BY <1>1, <1>16 DEF OperatorWrites, SetupTypeOK, caFiles, serverFiles
<1>17. CASE OperatorRemovesCa
  BY <1>1, <1>3, <1>17 DEF OperatorRemovesCa, SetupTypeOK, serverFiles, configFiles
<1>18. CASE AgentEnrolls
  <2>1. caCert \in Keys
    BY <1>1, <1>18 DEF AgentEnrolls, CanServe, SetupTypeOK
  <2>q. QED
    BY <1>1, <1>18, <2>1 DEF AgentEnrolls, SetupTypeOK, caFiles, serverFiles, configFiles
<1>q. QED
  BY <1>5, <1>6, <1>7, <1>8, <1>9, <1>10, <1>11, <1>12, <1>13, <1>14, <1>15, <1>16, <1>17, <1>18
     DEF SetupNext, setupVars, KeptHostname, NewConfig, CaStays, ServerCertStays, CheckServerCert,
         AdminStep, SetupRunEnds

\* A forge that is chosen is one of the kinds.
LEMMA ChoicesThere == ConfigInv => ForgeChoices \subseteq ForgeKinds
  BY DEF ForgeChoices, SetupAt, ConfigInv

\* A run only goes on to the steps that follow the one it is at.
LEMMA ShapeKept ==
  ASSUME SetupInv, [SetupNext]_setupVars
  PROVE  SetupRun'
<1>1. SetupRun /\ SetupTypeOK /\ ConfigInv /\ MaxRuns \in Nat
  BY SetupAssumption DEF SetupInv
<1>2. CASE UNCHANGED setup
  BY <1>1, <1>2 DEF SetupRun
<1>3. CASE KeepConfig \/ SetupRunEnds \/ OpenToken \/ WriteToken
  <2>1. setup' \in [step : Early]
    <3>1. setup.step \in Early => setup \in [step : Early]
      BY <1>1, RunFields
    <3>q. QED
      BY <1>3, <3>1 DEF KeepConfig, SetupRunEnds, OpenToken, WriteToken, NotRunning, SetupAt,
                         GoTo, Early
  <2>q. QED
    BY <2>1 DEF SetupRun
<1>4. CASE KeptHostname
  <2>1. PICK host \in HostNames :
          setup' = [step |-> "ca", then |-> "admin", host |-> host, config |-> configFile]
    BY <1>4 DEF KeptHostname, HostAnswers
  <2>2. configFile \in Configs
    BY <1>1, <1>4 DEF KeptHostname, SetupAt, ConfigInv, SetupTypeOK, FileStates
  <2>q. QED
    BY <2>1, <2>2 DEF SetupRun, CaSteps
<1>5. CASE NewConfig
  <2>1. PICK host \in HostNames, forge \in ForgeKinds, mode \in Modes :
          setup' = [step |-> "ca", then |-> "save", host |-> host,
                    config |-> [run |-> runs, host |-> host, forge |-> forge, mode |-> mode,
                                foreign |-> FALSE]]
    BY <1>1, <1>5, ChoicesThere DEF NewConfig, HostAnswers
  <2>2. runs \in 0..MaxRuns
    BY <1>1 DEF SetupTypeOK
  <2>q. QED
    BY <2>1, <2>2 DEF SetupRun, CaSteps, Configs
<1>6. CASE CaStays \/ InitCa \/ WriteCaCert \/ WriteCaKey
  BY <1>1, <1>6 DEF CaStays, InitCa, WriteCaCert, WriteCaKey, SetupAt, GoTo, SetupRun, Early,
                    CaSteps, ServerSteps, Saving, Ending
<1>7. CASE ServerCertStays \/ GenerateServerCert \/ WriteServerCert \/ WriteServerKey
           \/ CheckServerCert
  BY <1>1, <1>7 DEF ServerCertStays, GenerateServerCert, WriteServerCert, WriteServerKey,
                    CheckServerCert, SetupAt, GoTo, SetupRun, Early,
                    CaSteps, ServerSteps, Saving, Ending
<1>8. CASE BackUpConfig \/ OpenConfig \/ WriteConfig \/ AdminStep
  BY <1>1, <1>8 DEF BackUpConfig, OpenConfig, WriteConfig, AdminStep, SetupAt, GoTo, SetupRun,
                    Early, CaSteps, ServerSteps, Saving, Ending
<1>9. CASE CaCommand
  BY <1>9 DEF CaCommand, SetupRun, CaSteps, ServerSteps
<1>q. QED
  BY <1>2, <1>3, <1>4, <1>5, <1>6, <1>7, <1>8, <1>9
     DEF SetupNext, setupVars, CertExpires, OperatorWrites, OperatorRemovesCa, AgentEnrolls

\* The CA is only made where there is none, with a key pair that nothing was signed by.
LEMMA CaKept ==
  ASSUME SetupInv, [SetupNext]_setupVars
  PROVE  CaInv'
<1>1. /\ SetupTypeOK /\ SetupRun /\ CaInv /\ KeyStepsInv /\ keysMade \in Nat
      /\ keysMade + 1 \in Nat
  BY DEF SetupInv, SetupTypeOK
<1>2. CASE UNCHANGED <<caCert, caKey, serverCert, keysMade, trusting>>
  BY <1>1, <1>2 DEF CaInv, Signed
<1>3. CASE InitCa
  BY <1>1, <1>3, FilesApart DEF InitCa, NoCaFiles, CaInv, Signed, serverFiles
<1>4. CASE WriteCaCert
  <2>1. /\ caCert' = KeyPair(keysMade) /\ caKey' = Torn /\ caKey = Absent /\ caCert = Torn
        /\ keysMade >= 1 /\ UNCHANGED <<serverCert, keysMade, trusting>>
        /\ Signed => serverCert.ca # KeyPair(keysMade)
    BY <1>1, <1>4 DEF WriteCaCert, SetupAt, KeyStepsInv, serverFiles
  <2>q. QED
    BY <1>1, <2>1, FilesApart DEF CaInv, Signed
<1>5. CASE WriteCaKey
  <2>1. /\ caKey' = KeyPair(keysMade) /\ caCert = KeyPair(keysMade) /\ caKey = Torn
        /\ UNCHANGED <<caCert, serverCert, keysMade, trusting>>
        /\ Signed => serverCert.ca # KeyPair(keysMade)
    BY <1>1, <1>5 DEF WriteCaKey, SetupAt, KeyStepsInv, serverFiles
  <2>q. QED
    BY <1>1, <2>1, FilesApart DEF CaInv, Signed
<1>6. CASE GenerateServerCert
  BY <1>1, <1>6, FilesApart DEF GenerateServerCert, CaInv, Signed, caFiles
<1>7. CASE WriteServerCert
  <2>1. /\ caCert \notin FileStates /\ caKey \notin FileStates
        /\ UNCHANGED <<caCert, caKey, keysMade, trusting>>
        /\ serverCert'.ca = caKey
    BY <1>1, <1>7 DEF WriteServerCert, SetupAt, KeyStepsInv, caFiles
  <2>q. QED
    BY <1>1, <2>1 DEF CaInv, Signed
<1>8. CASE CertExpires
  <2>1. UNCHANGED <<caCert, caKey, keysMade, trusting>> /\ Signed /\ serverCert'.ca = serverCert.ca
    BY <1>1, <1>8 DEF CertExpires, Signed, SetupTypeOK, caFiles
  <2>q. QED
    BY <1>1, <2>1 DEF CaInv, Signed
<1>9. CASE OperatorRemovesCa
  <2>1. /\ caCert' = Absent /\ caKey' = Absent /\ trusting' = {}
        /\ UNCHANGED <<serverCert, keysMade>>
    BY <1>9 DEF OperatorRemovesCa, serverFiles
  <2>q. QED
    BY <1>1, <2>1, FilesApart DEF CaInv, Signed
<1>10. CASE AgentEnrolls
  <2>1. /\ caCert \notin FileStates /\ caKey \notin FileStates
        /\ UNCHANGED <<caCert, caKey, serverCert, keysMade>>
    BY <1>10 DEF AgentEnrolls, CanServe, caFiles, serverFiles
  <2>q. QED
    BY <1>1, <2>1 DEF CaInv, Signed
<1>q. QED
  BY <1>2, <1>3, <1>4, <1>5, <1>6, <1>7, <1>8, <1>9, <1>10
     DEF SetupNext, setupVars, caFiles, serverFiles, configFiles, KeepConfig, KeptHostname,
         OpenToken, WriteToken, NewConfig, CaStays, ServerCertStays, WriteServerKey,
         CheckServerCert, BackUpConfig, OpenConfig, WriteConfig, AdminStep, CaCommand,
         SetupRunEnds, OperatorWrites

\* Where the actions that give a run its form leave it.
LEMMA RunsAnew ==
  KeepConfig \/ KeptHostname \/ NewConfig \/ CaCommand \/ SetupRunEnds =>
    setup'.step \in {"idle", "kept", "new", "ca", "server"}
<1>1. KeepConfig \/ SetupRunEnds => setup'.step \in {"idle", "kept", "new"}
  BY DEF KeepConfig, SetupRunEnds, NotRunning
<1>2. KeptHostname => setup'.step = "ca"
  BY DEF KeptHostname
<1>3. NewConfig => setup'.step = "ca"
  BY DEF NewConfig
<1>4. CaCommand => setup'.step \in {"ca", "server"}
  BY DEF CaCommand
<1>q. QED
  BY <1>1, <1>2, <1>3, <1>4

\* A key pair goes into files that nobody else writes to.
LEMMA KeyStepsKept ==
  ASSUME SetupInv, [SetupNext]_setupVars
  PROVE  KeyStepsInv'
<1>1. /\ SetupTypeOK /\ SetupRun /\ CaInv /\ KeyStepsInv /\ keysMade \in Nat
      /\ keysMade + 1 >= 1
  BY RunFields DEF SetupInv, SetupTypeOK
<1>2. CASE /\ UNCHANGED <<caCert, caKey, serverCert, keysMade>>
           /\ setup' = setup \/ setup'.step \notin {"caCert", "caKey", "serverCert", "serverKey"}
  BY <1>1, <1>2 DEF KeyStepsInv, Signed
<1>3. CASE InitCa
  <2>1. /\ caCert' = Torn /\ caKey' = Absent /\ keysMade' = keysMade + 1
        /\ UNCHANGED serverCert /\ setup'.step = "caCert"
    BY <1>1, <1>3 DEF InitCa, NoCaFiles, SetupAt, GoTo, serverFiles, SetupRun, Early, CaSteps,
                      ServerSteps, Saving, Ending
  <2>2. Signed => serverCert.ca # KeyPair(keysMade + 1)
    BY <1>1, FilesApart DEF CaInv
  <2>q. QED
    BY <1>1, <2>1, <2>2 DEF KeyStepsInv, Signed
<1>4. CASE WriteCaCert
  <2>1. /\ caCert' = KeyPair(keysMade) /\ caKey' = Torn /\ setup.step = "caCert"
        /\ UNCHANGED <<serverCert, keysMade>> /\ setup'.step = "caKey"
    BY <1>1, <1>4 DEF WriteCaCert, SetupAt, GoTo, serverFiles, SetupRun, Early, CaSteps,
                      ServerSteps, Saving, Ending
  <2>q. QED
    BY <1>1, <2>1 DEF KeyStepsInv, Signed
<1>5. CASE GenerateServerCert
  <2>1. /\ caCert \notin FileStates /\ caKey \notin FileStates /\ serverCert' = Torn
        /\ UNCHANGED <<caCert, caKey>> /\ setup'.step = "serverCert" /\ keysMade' = keysMade + 1
    BY <1>1, <1>5 DEF GenerateServerCert, SetupAt, GoTo, caFiles, SetupRun, Early, CaSteps,
                      ServerSteps, Saving, Ending
  <2>q. QED
    BY <1>1, <2>1 DEF KeyStepsInv
<1>6. CASE WriteServerCert
  <2>1. setup.step = "serverCert" /\ setup'.step = "serverKey" /\ UNCHANGED keysMade
    BY <1>1, <1>6 DEF WriteServerCert, SetupAt, GoTo, SetupRun, Early, CaSteps,
                      ServerSteps, Saving, Ending
  <2>q. QED
    BY <1>1, <2>1 DEF KeyStepsInv
<1>7. CASE WriteCaKey \/ WriteServerKey
  <2>1. setup'.step \in {"done", "server", "check"}
    BY <1>1, <1>7 DEF WriteCaKey, WriteServerKey, SetupAt, GoTo, SetupRun, Early, CaSteps,
                      ServerSteps, Saving, Ending
  <2>q. QED
    BY <2>1 DEF KeyStepsInv
<1>8. CASE CertExpires \/ OperatorRemovesCa
  <2>1. setup'.step = "idle"
    BY <1>8 DEF CertExpires, OperatorRemovesCa, SetupAt
  <2>q. QED
    BY <2>1 DEF KeyStepsInv
<1>9. ASSUME \/ KeepConfig \/ KeptHostname \/ NewConfig \/ OpenToken \/ WriteToken \/ CaStays
             \/ ServerCertStays \/ CheckServerCert \/ BackUpConfig \/ OpenConfig \/ WriteConfig
             \/ AdminStep \/ CaCommand \/ SetupRunEnds
      PROVE  KeyStepsInv'
  <2>1. UNCHANGED <<caCert, caKey, serverCert, keysMade>>
    BY <1>9 DEF caFiles, serverFiles, configFiles, KeepConfig, KeptHostname, OpenToken, WriteToken,
         NewConfig, CaStays, ServerCertStays, CheckServerCert, BackUpConfig, OpenConfig,
         WriteConfig, AdminStep, CaCommand, SetupRunEnds
  <2>2. setup'.step \notin {"caCert", "caKey", "serverCert", "serverKey"}
    <3>1. CASE KeepConfig \/ KeptHostname \/ NewConfig \/ CaCommand \/ SetupRunEnds
      BY <3>1, RunsAnew
    <3>2. CASE OpenToken \/ WriteToken \/ CaStays \/ BackUpConfig \/ OpenConfig \/ WriteConfig
               \/ AdminStep
      BY <1>1, <3>2 DEF OpenToken, WriteToken, CaStays, BackUpConfig, OpenConfig, WriteConfig,
                   AdminStep, SetupAt, GoTo, SetupRun, Early, CaSteps, ServerSteps, Saving, Ending
    <3>3. CASE ServerCertStays \/ CheckServerCert
      BY <1>1, <3>3 DEF ServerCertStays, CheckServerCert, SetupAt, GoTo, SetupRun, Early,
                   CaSteps, ServerSteps, Saving, Ending
    <3>q. QED
      BY <1>9, <3>1, <3>2, <3>3
  <2>q. QED
    BY <1>2, <2>1, <2>2
<1>10. CASE UNCHANGED <<caCert, caKey, serverCert, keysMade, setup>>
  BY <1>2, <1>10
<1>q. QED
  BY <1>3, <1>4, <1>5, <1>6, <1>7, <1>8, <1>9, <1>10
     DEF SetupNext, setupVars, OperatorWrites, AgentEnrolls, caFiles, serverFiles, configFiles

\* The config: a run that keeps one keeps it, and a run that saves one has it checked.
LEMMA ConfigKept ==
  ASSUME SetupInv, [SetupNext]_setupVars
  PROVE  ConfigInv'
<1>1. SetupTypeOK /\ SetupRun /\ ConfigInv
  BY DEF SetupInv
<1>2. CASE UNCHANGED <<setup, configFile, tokenFile>>
  BY <1>1, <1>2 DEF ConfigInv, Planned, Resolves
<1>3. CASE KeepConfig \/ SetupRunEnds
  <2>1. \/ setup'.step = "kept" /\ configFile' = configFile /\ configFile # Absent
        \/ setup'.step \in {"new", "idle"}
    BY <1>3 DEF KeepConfig, SetupRunEnds, NotRunning, configFiles
  <2>q. QED
    BY <2>1 DEF ConfigInv, Planned, Early, Ending
<1>4. CASE OpenToken \/ WriteToken
  <2>1. \/ setup'.step = "token" /\ "pasted" \in ForgeKinds
        \/ setup'.step = "pasted" /\ tokenFile' = KeyPair(0) /\ "pasted" \in ForgeKinds
    BY <1>1, <1>4 DEF OpenToken, WriteToken, SetupAt, GoTo, ConfigInv, SetupRun, Early, CaSteps,
                      ServerSteps, Saving, Ending
  <2>q. QED
    BY <2>1 DEF ConfigInv, Planned, Early, Ending
<1>5. CASE KeptHostname
  <2>1. /\ setup'.step = "ca" /\ setup'.then = "admin" /\ setup'.config = configFile
        /\ UNCHANGED configFile
    BY <1>5 DEF KeptHostname, configFiles
  <2>q. QED
    BY <2>1 DEF ConfigInv, Planned, Early, Ending
<1>6. CASE NewConfig
  <2>1. PICK host \in HostNames, forge \in ForgeChoices, mode \in Modes :
          LET c == [run |-> runs, host |-> host, forge |-> forge, mode |-> mode, foreign |-> FALSE]
          IN /\ forge # "none" => Resolves(c)
             /\ setup' = [step |-> "ca", then |-> "save", host |-> host, config |-> c]
    BY <1>6 DEF NewConfig, HostAnswers
  <2>2. /\ setup'.step = "ca" /\ setup'.then = "save" /\ ~setup'.config.foreign
        /\ setup'.config.forge = forge /\ (forge # "none" => Resolves(setup'.config))
    BY <2>1
  <2>3. forge = "pasted" => tokenFile' = KeyPair(0)
    BY <1>1, <1>6 DEF NewConfig, ForgeChoices, SetupAt, ConfigInv, serverFiles
  <2>q. QED
    BY <2>2, <2>3 DEF ConfigInv, Planned, Early, Ending, Resolves
<1>7. ASSUME UNCHANGED <<configFile, tokenFile>>, Planned, setup'.step \notin Early,
             setup'.step \notin {"config", "configOpen"},
             setup'.step \in Ending => setup'.then # "save",
             setup'.then = setup.then,
             setup.then \in {"admin", "save"} => setup'.config = setup.config
      PROVE  ConfigInv'
  BY <1>1, <1>7 DEF ConfigInv, Planned, Resolves, Early, Ending
<1>8. CASE \/ CaStays \/ InitCa \/ WriteCaCert \/ WriteCaKey \/ GenerateServerCert
           \/ WriteServerCert \/ WriteServerKey
  <2>1. UNCHANGED <<configFile, tokenFile>>
    BY <1>8 DEF CaStays, InitCa, WriteCaCert, WriteCaKey, GenerateServerCert, WriteServerCert,
                WriteServerKey, serverFiles, configFiles
  <2>q. QED
  BY <1>1, <1>7, <1>8, <2>1
     DEF CaStays, InitCa, WriteCaCert, WriteCaKey, GenerateServerCert, WriteServerCert,
         WriteServerKey, SetupAt, GoTo, Planned, SetupRun, Early, CaSteps, ServerSteps, Saving,
         Ending
<1>9. CASE ServerCertStays \/ CheckServerCert
  <2>1. UNCHANGED <<configFile, tokenFile>>
    BY <1>9 DEF ServerCertStays, CheckServerCert, serverFiles, configFiles
  <2>2. setup'.step \in {"admin", "save"} /\ setup'.step = setup.then
    BY <1>1, <1>9 DEF ServerCertStays, CheckServerCert, SetupAt, GoTo, SetupRun,
                    Early, CaSteps, ServerSteps, Saving, Ending
  <2>3. setup'.then = setup.then /\ setup'.config = setup.config /\ Planned
    BY <1>1, <1>9 DEF ServerCertStays, CheckServerCert, SetupAt, GoTo, SetupRun, Planned,
                    Early, CaSteps, ServerSteps, Saving, Ending
  <2>q. QED
    BY <1>7, <2>1, <2>2, <2>3 DEF Early, Ending
<1>10. CASE BackUpConfig \/ OpenConfig \/ WriteConfig
  <2>1. /\ setup.step \in Saving /\ setup.then = "save" /\ setup'.then = "save" /\ Planned
        /\ setup'.config = setup.config /\ tokenFile' = tokenFile
        /\ setup'.step \in {"config", "configOpen", "admin"}
    BY <1>1, <1>10 DEF BackUpConfig, OpenConfig, WriteConfig, serverFiles, SetupAt, GoTo, SetupRun,
                    Planned, Early, CaSteps, ServerSteps, Saving, Ending
  <2>2. /\ setup'.step = "config" => configFile' = Absent
        /\ setup'.step = "configOpen" => configFile' = Torn
        /\ setup'.step = "admin" => configFile' = setup.config
    BY <1>1, <1>10 DEF BackUpConfig, OpenConfig, WriteConfig, SetupAt, GoTo, SetupRun,
                    Early, CaSteps, ServerSteps, Saving, Ending
  <2>q. QED
    BY <1>1, <2>1, <2>2 DEF ConfigInv, Planned, Resolves, Early, Ending
<1>11. CASE AdminStep
  <2>1. /\ setup.step = "admin" /\ setup'.step = "done" /\ setup'.then = setup.then
        /\ setup'.config = setup.config /\ UNCHANGED <<configFile, tokenFile>>
    BY <1>1, <1>11 DEF AdminStep, serverFiles, configFiles, SetupAt, GoTo, SetupRun,
                    Early, CaSteps, ServerSteps, Saving, Ending
  <2>q. QED
    BY <1>1, <2>1 DEF ConfigInv, Planned, Resolves, Early, Ending
<1>12. CASE CaCommand
  <2>1. setup'.step \in {"ca", "server"} /\ setup'.then \in {"init", "done"}
    BY <1>12 DEF CaCommand
  <2>q. QED
    BY <2>1 DEF ConfigInv, Planned, Early, Ending
<1>13. CASE OperatorWrites
  <2>1. setup'.step = "idle"
    BY <1>13 DEF OperatorWrites, SetupAt
  <2>q. QED
    BY <2>1 DEF ConfigInv, Planned, Early, Ending
<1>q. QED
  BY <1>2, <1>3, <1>4, <1>5, <1>6, <1>8, <1>9, <1>10, <1>11, <1>12, <1>13
     DEF SetupNext, setupVars, CertExpires, OperatorRemovesCa, AgentEnrolls, serverFiles,
         configFiles

\* The certificate that was checked stays what it is until the run ends.
LEMMA GoodKept ==
  ASSUME SetupInv, [SetupNext]_setupVars
  PROVE  GoodInv'
<1>1. SetupTypeOK /\ SetupRun /\ ConfigInv /\ GoodInv
  BY DEF SetupInv
<1>2. ASSUME UNCHANGED <<caCert, serverCert, serverKey, setup>>
      PROVE  GoodInv'
  BY <1>1, <1>2 DEF GoodInv, IdentityGood
<1>3. ASSUME setup'.step \notin Saving \cup Ending \/ setup'.then \notin {"admin", "save"}
      PROVE  GoodInv'
  BY <1>3 DEF GoodInv
<1>4. CASE ServerCertStays \/ CheckServerCert
  <2>1. /\ IdentityGood(setup.host) \/ ManagedElsewhere
        /\ UNCHANGED <<caCert, serverCert, serverKey>>
        /\ setup'.host = setup.host
        /\ ManagedElsewhere => setup'.config.foreign
    BY <1>1, <1>4 DEF ServerCertStays, CheckServerCert, ManagedElsewhere, SetupAt, GoTo, SetupRun,
                    caFiles, serverFiles, Early, CaSteps, ServerSteps, Saving, Ending
  <2>q. QED
    BY <2>1 DEF GoodInv, IdentityGood
<1>5. CASE BackUpConfig \/ OpenConfig \/ WriteConfig \/ AdminStep
  <2>1. UNCHANGED <<caCert, serverCert, serverKey>>
    BY <1>5 DEF BackUpConfig, OpenConfig, WriteConfig, AdminStep, caFiles, serverFiles
  <2>2. /\ setup.step \in Saving \cup Ending /\ setup'.host = setup.host
        /\ setup'.config = setup.config /\ setup'.then = setup.then
    BY <1>1, <1>5 DEF BackUpConfig, OpenConfig, WriteConfig, AdminStep, SetupAt, GoTo, SetupRun,
                    Early, CaSteps, ServerSteps, Saving, Ending
  <2>q. QED
    BY <1>1, <2>1, <2>2 DEF GoodInv, IdentityGood
<1>6. CASE KeepConfig \/ KeptHostname \/ NewConfig \/ CaCommand \/ SetupRunEnds
  <2>1. setup'.step \notin Saving \cup Ending
    BY <1>6, RunsAnew DEF Saving, Ending
  <2>q. QED
    BY <1>3, <2>1
<1>7. CASE \/ OpenToken \/ WriteToken \/ CaStays \/ InitCa \/ WriteCaCert \/ WriteCaKey
           \/ GenerateServerCert \/ WriteServerCert \/ WriteServerKey
  <2>1. setup'.step \notin Saving \cup Ending \/ setup'.then \notin {"admin", "save"}
    BY <1>1, <1>7 DEF OpenToken, WriteToken, CaStays, InitCa, WriteCaCert, WriteCaKey,
                    GenerateServerCert, WriteServerCert, WriteServerKey, SetupAt, GoTo, SetupRun,
                    Early, CaSteps, ServerSteps, Saving, Ending
  <2>q. QED
    BY <1>3, <2>1
<1>8. CASE CertExpires \/ OperatorRemovesCa
  <2>1. setup'.step = "idle"
    BY <1>8 DEF CertExpires, OperatorRemovesCa, SetupAt
  <2>q. QED
    BY <1>3, <2>1 DEF Saving, Ending
<1>q. QED
  BY <1>2, <1>4, <1>5, <1>6, <1>7, <1>8
     DEF SetupNext, setupVars, OperatorWrites, AgentEnrolls, caFiles, serverFiles, configFiles

\* Whatever was cut short, a setup that gets to its end leaves what it set out to.
LEMMA SetupInvReady == SetupInv => SetupReady
<1> SUFFICES ASSUME SetupInv, SetupAt("done"), setup.then \in {"admin", "save"}
             PROVE  /\ configFile = setup.config
                    /\ IdentityGood(setup.host) \/ configFile.foreign
                    /\ setup.then = "save" /\ WebhookForge(configFile) => CanServe
  BY DEF SetupReady
<1>1. /\ SetupTypeOK /\ SetupRun /\ CaInv /\ ConfigInv /\ GoodInv
      /\ setup.step = "done" /\ Planned
  BY DEF SetupInv, SetupAt, Planned, Early
<1>2. configFile = setup.config
  BY <1>1 DEF ConfigInv, Ending
<1>3. IdentityGood(setup.host) \/ configFile.foreign
  BY <1>1, <1>2 DEF GoodInv, Ending
<1>4. ASSUME setup.then = "save", WebhookForge(configFile) PROVE CanServe
  <2>1. IdentityGood(setup.host)
    BY <1>1, <1>2, <1>3, <1>4 DEF ConfigInv
  <2>2. /\ serverCert \notin FileStates /\ serverKey \notin FileStates
        /\ serverCert.key = serverKey /\ serverCert.ca = caCert
    BY <2>1 DEF IdentityGood
  <2>3. caCert \notin FileStates /\ caKey \notin FileStates
    <3>1. \E n \in 1..keysMade : serverCert.ca = KeyPair(n)
      BY <1>1, <2>2 DEF CaInv, Signed
    <3>q. QED
      BY <1>1, <2>2, <3>1, FilesApart DEF CaInv, Signed
  <2>4. configFile \notin FileStates
    BY <1>1, <1>2, RunFields, FilesApart DEF Planned
  <2>5. /\ configFile.forge # "none" => Resolves(configFile)
        /\ configFile.forge = "pasted" => tokenFile \notin FileStates
    BY <1>1, <1>2, <1>4, FilesApart DEF ConfigInv
  <2>q. QED
    BY <1>4, <2>2, <2>3, <2>4, <2>5 DEF CanServe
<1>q. QED
  BY <1>2, <1>3, <1>4

\* A CA that agents hold certificates of, and a config, are not written over.
LEMMA SetupStepSpares ==
  ASSUME SetupInv, [SetupNext]_setupVars
  PROVE  SetupSpares
<1>1. SetupTypeOK /\ CaInv /\ KeyStepsInv /\ ConfigInv
  BY DEF SetupInv
<1>2. trusting # {} => UNCHANGED caFiles
  <2>1. SUFFICES ASSUME trusting # {} PROVE UNCHANGED caFiles
    OBVIOUS
  <2>2. caCert \notin FileStates /\ caKey \notin FileStates
    BY <1>1, <2>1 DEF CaInv
  <2>3. ~InitCa /\ ~WriteCaCert /\ ~WriteCaKey /\ ~OperatorRemovesCa
    BY <1>1, <2>1, <2>2, FilesApart
       DEF InitCa, NoCaFiles, WriteCaCert, WriteCaKey, OperatorRemovesCa, SetupAt, KeyStepsInv
  <2>q. QED
    BY <2>3 DEF SetupNext, setupVars, KeepConfig, KeptHostname, OpenToken, WriteToken, NewConfig,
         CaStays, ServerCertStays, GenerateServerCert, WriteServerCert, WriteServerKey,
         CheckServerCert, BackUpConfig, OpenConfig, WriteConfig, AdminStep, CaCommand,
         SetupRunEnds, CertExpires, OperatorWrites, AgentEnrolls
<1>3. configFile \in {configFile'} \cup FileStates \cup backups'
  <2>1. CASE BackUpConfig
    BY <2>1, FilesApart DEF BackUpConfig, Backup
  <2>2. CASE OpenConfig \/ WriteConfig \/ OperatorWrites
    BY <1>1, <2>2, FilesApart DEF OpenConfig, WriteConfig, OperatorWrites, SetupAt, ConfigInv
  <2>3. CASE configFile' = configFile
    BY <2>3
  <2>q. QED
    BY <2>1, <2>2, <2>3 DEF SetupNext, setupVars, KeepConfig, KeptHostname, OpenToken, WriteToken,
         NewConfig, CaStays, InitCa, WriteCaCert, WriteCaKey, ServerCertStays, GenerateServerCert,
         WriteServerCert, WriteServerKey, CheckServerCert, AdminStep, CaCommand, SetupRunEnds,
         CertExpires, OperatorRemovesCa, AgentEnrolls, configFiles
<1>q. QED
  BY <1>2, <1>3 DEF SetupSpares

\* The invariant is inductive.
LEMMA SetupStep == SetupInv /\ [SetupNext]_setupVars => SetupInv'
  BY SetupTyped, ShapeKept, CaKept, KeyStepsKept, ConfigKept, GoodKept DEF SetupInv

\* The files, and what each of them may hold.
THEOREM SetupTypeCorrect == SetupSpec => []SetupTypeOK
<1>1. SetupInv => SetupTypeOK
  BY DEF SetupInv
<1>q. QED
  BY <1>1, SetupStarts, SetupStep, PTL DEF SetupSpec

\* SetupSound: whatever runs are cut short, the next one gets the operator there: its certificate
\* is one agents accept and its config can be served; and no run replaces a CA that agents hold
\* certificates of, nor loses a config (setup.rs, tls.rs).
THEOREM SetupHolds == SetupSpec => SetupSound
<1>1. SetupInv => SetupReady
  BY SetupInvReady
<1>2. SetupInv /\ [SetupNext]_setupVars => [SetupSpares]_setupVars
  BY SetupStepSpares
<1>q. QED
  BY <1>1, <1>2, SetupStarts, SetupStep, PTL DEF SetupSpec, SetupSound

-----------------------------------------------------------------------------
(* Diagnostics *)

\* The bounds are numbers.
LEMMA LimitsThere ==
  /\ MAX_LINES \in Nat \ {0} /\ PageLines \in Nat \ {0} /\ MAX_PER_AGENT \in Nat \ {0}
  /\ MaxLogLine \in Nat /\ MaxFailures \in Nat
  BY DiagnosticsAssumption

\* A non-empty set of numbers has a least one.
LEMMA MinThere ==
  ASSUME NEW S \in SUBSET Nat, S # {}
  PROVE  Min(S) \in S /\ \A n \in S : Min(S) <= n
<1>1. \E m \in S : \A n \in S : m <= n
  <2>1. PICK m \in S : \A n \in S : ~(<<n, m>> \in OpToRel(<, Nat))
    BY NatLessThanWellFounded, WFMin
  <2>2. \A n \in S : ~(n < m)
    BY <2>1 DEF OpToRel
  <2>q. QED
    BY <2>2
<1>q. QED
  BY <1>1 DEF Min

(* Pages. *)

Rows == [line : 1 .. MaxLogLine, level : Levels, copy : Nat]

RowsOK(rows) ==
  IsFiniteSet(rows) /\ rows \subseteq Rows /\ \A l \in rows : l.level = LevelOf(l.line)

\* The order of a page.
Before(s, r) == s.line > r.line \/ (s.line = r.line /\ s.copy > r.copy)

\* How many of the rows come before one tells where it is.
LEMMA RankThere ==
  ASSUME NEW rows, RowsOK(rows), NEW r \in rows
  PROVE  /\ Precedes(rows, r) \in 0 .. Cardinality(rows) - 1
         /\ \A s \in rows : Before(s, r) => Precedes(rows, s) < Precedes(rows, r)
         /\ \A s \in rows : s # r => Before(s, r) \/ Before(r, s)
<1> DEFINE P(x) == {s \in rows : Before(s, x)}
<1>1. \A x : Precedes(rows, x) = Cardinality(P(x))
  BY DEF Precedes, Before
<1>2. Cardinality(rows) \in Nat
  BY FS_CardinalityType DEF RowsOK
<1>3. \A x : IsFiniteSet(P(x)) /\ Cardinality(P(x)) \in Nat
  BY FS_Subset, FS_CardinalityType DEF RowsOK
<1>4. ASSUME NEW S \in SUBSET rows, NEW T \in SUBSET S, NEW x \in S, x \notin T
      PROVE  Cardinality(T) < Cardinality(S)
  <2>1. IsFiniteSet(S) /\ Cardinality(S) \in Nat
    BY FS_Subset, FS_CardinalityType DEF RowsOK
  <2>2. Cardinality(T) <= Cardinality(S) /\ Cardinality(T) # Cardinality(S) /\ IsFiniteSet(T)
    BY <1>4, <2>1, FS_Subset
  <2>3. Cardinality(T) \in Nat
    BY <2>2, FS_CardinalityType
  <2>q. QED
    BY <2>1, <2>2, <2>3
<1>5. \A s \in rows : s.line \in Nat /\ s.copy \in Nat
  BY DEF RowsOK, Rows
<1>6. ASSUME NEW x \in rows PROVE ~Before(x, x)
  BY <1>5 DEF Before
<1>7. ASSUME NEW s \in rows, Before(s, r) PROVE Cardinality(P(s)) < Cardinality(P(r))
  <2>1. P(s) \subseteq P(r)
    BY <1>5, <1>7 DEF Before
  <2>2. s \in P(r) /\ s \notin P(s)
    BY <1>6, <1>7
  <2> HIDE DEF P
  <2>3. P(r) \subseteq rows
    BY DEF P
  <2>q. QED
    BY <1>4, <2>1, <2>2, <2>3
<1>8. Cardinality(P(r)) < Cardinality(rows)
  <2>1. P(r) \subseteq rows /\ r \notin P(r)
    BY <1>6
  <2>q. QED
    BY <1>4, <2>1
<1>9. ASSUME NEW s \in rows, s # r PROVE Before(s, r) \/ Before(r, s)
  <2>1. CASE s.line = r.line /\ s.copy = r.copy
    BY <1>9, <2>1 DEF RowsOK, Rows
  <2>2. CASE ~(s.line = r.line /\ s.copy = r.copy)
    BY <1>5, <2>2 DEF Before
  <2>q. QED
    BY <2>1, <2>2
<1> HIDE DEF P
<1>q. QED
  BY <1>1, <1>2, <1>3, <1>7, <1>8, <1>9

\* Rows are ranked from 0 on, each with a rank of its own.
LEMMA RankBijection ==
  ASSUME NEW rows, RowsOK(rows)
  PROVE  \A i \in 0 .. Cardinality(rows) - 1 : \E r \in rows : Precedes(rows, r) = i
<1> DEFINE c == Cardinality(rows)
           f == [r \in rows |-> Precedes(rows, r)]
<1>1. c \in Nat /\ IsFiniteSet(rows)
  BY FS_CardinalityType DEF RowsOK
<1>2. \A r, s \in rows : r # s => Precedes(rows, r) # Precedes(rows, s)
  <2>1. ASSUME NEW r \in rows, NEW s \in rows, r # s PROVE Precedes(rows, r) # Precedes(rows, s)
    <3>1. Precedes(rows, r) \in Int /\ Precedes(rows, s) \in Int
      BY <1>1, RankThere
    <3>2. Before(s, r) \/ Before(r, s)
      BY <2>1, RankThere
    <3>3. Precedes(rows, r) < Precedes(rows, s) \/ Precedes(rows, s) < Precedes(rows, r)
      BY <3>2, RankThere
    <3>q. QED
      BY <3>1, <3>3
  <2>q. QED
    BY <2>1
<1>3. f \in [rows -> 0 .. c - 1]
  BY RankThere
<1>7. \A r, s \in rows : f[r] = f[s] => r = s
  BY <1>2
<1> HIDE DEF f
<1>4. f \in Injection(rows, 0 .. c - 1)
  BY <1>3, <1>7 DEF Injection, IsInjective
<1>5. IsFiniteSet(0 .. c - 1) /\ Cardinality(0 .. c - 1) = c
  BY <1>1, FS_Interval
<1>6. f \in Surjection(rows, 0 .. c - 1)
  BY <1>4, <1>5, FS_Injection
<1>8. \A i \in 0 .. c - 1 : \E r \in rows : f[r] = i
  BY <1>6 DEF Surjection
<1>q. QED
  BY <1>8 DEF f

\* A page that is not full has all rows, and what is not on a page comes after all that is.
LEMMA PageThere ==
  ASSUME NEW rows, RowsOK(rows), NEW n \in Nat \ {0}
  PROVE  /\ Newest(rows, n) \subseteq rows
         /\ Cardinality(Newest(rows, n)) # n => Newest(rows, n) = rows
         /\ \A r \in rows \ Newest(rows, n) : \A p \in Newest(rows, n) : Before(p, r)
<1> DEFINE part == Newest(rows, n)
           c == Cardinality(rows)
           g == [r \in part |-> Precedes(rows, r)]
<1>1. part \subseteq rows /\ \A r \in rows : r \in part <=> Precedes(rows, r) < n
  BY DEF Newest
<1>2. c \in Nat /\ IsFiniteSet(rows)
  BY FS_CardinalityType DEF RowsOK
<1>3. \A r \in rows : Precedes(rows, r) \in 0 .. c - 1
  BY RankThere
<1>4. ASSUME NEW r \in rows, NEW s \in rows, r # s PROVE Precedes(rows, r) # Precedes(rows, s)
  <2>1. Before(s, r) \/ Before(r, s)
    BY <1>4, RankThere
  <2>2. Precedes(rows, r) < Precedes(rows, s) \/ Precedes(rows, s) < Precedes(rows, r)
    BY <2>1, RankThere
  <2>q. QED
    BY <1>2, <1>3, <2>2
<1> HIDE DEF part
<1>5. ASSUME NEW r \in rows, r \notin part PROVE Cardinality(part) = n
  <2>1. n - 1 \in 0 .. c - 1
    BY <1>1, <1>2, <1>3, <1>5
  <2>2. g \in [part -> 0 .. n - 1]
    BY <1>1, <1>2, <1>3
  <2>3. \A p, q \in part : g[p] = g[q] => p = q
    BY <1>1, <1>4
  <2>4. \A i \in 0 .. n - 1 : \E p \in part : g[p] = i
    <3>1. SUFFICES ASSUME NEW i \in 0 .. n - 1 PROVE \E p \in part : g[p] = i
      OBVIOUS
    <3>2. i \in 0 .. c - 1 /\ i < n
      BY <1>2, <2>1
    <3>3. PICK p \in rows : Precedes(rows, p) = i
      BY <3>2, RankBijection
    <3>q. QED
      BY <1>1, <3>2, <3>3
  <2> HIDE DEF g
  <2>5. g \in Injection(part, 0 .. n - 1) /\ g \in Surjection(part, 0 .. n - 1)
    BY <2>2, <2>3, <2>4 DEF Injection, IsInjective, Surjection
  <2>6. IsFiniteSet(0 .. n - 1) /\ Cardinality(0 .. n - 1) = n
    BY FS_Interval
  <2>q. QED
    BY <2>5, <2>6, FS_Injection
<1>6. Cardinality(part) # n => part = rows
  BY <1>1, <1>5
<1>7. ASSUME NEW r \in rows \ part, NEW p \in part PROVE Before(p, r)
  <2>1. p \in rows /\ p # r /\ Precedes(rows, p) < n /\ ~(Precedes(rows, r) < n)
    BY <1>1
  <2>2. ~(Precedes(rows, r) < Precedes(rows, p))
    BY <1>2, <1>3, <2>1
  <2>q. QED
    BY <2>1, <2>2, RankThere
<1>q. QED
  BY <1>1, <1>6, <1>7 DEF part

ReaderInv ==
  /\ RowsOK(lines)
  /\ reader.at \in {"none", "page", "end"}
  /\ reader.at = "page" =>
       /\ DOMAIN reader = {"at", "min", "before", "shown", "kept"}
       /\ reader.before \in Nat /\ reader.kept \subseteq Nat
       /\ \A n \in reader.kept : /\ LevelOf(n) <= reader.min
                                 /\ (n \in reader.shown \/ n < reader.before)
  /\ PagesComplete

\* New lines are no older than those a reader has seen.
LEMMA InsertBatchKeeps ==
  ASSUME ReaderInv, InsertBatch
  PROVE  ReaderInv'
<1> DEFINE Copies(n) == Cardinality({l \in lines : l.line = n})
<1>1. PICK batch \in SUBSET (1 .. MaxLogLine) :
        lines' = lines
          \cup {[line |-> n, level |-> LevelOf(n), copy |-> Copies(n) + 1] : n \in batch}
  BY DEF InsertBatch
<1> DEFINE new == {[line |-> n, level |-> LevelOf(n), copy |-> Copies(n) + 1] : n \in batch}
           f == [n \in batch |-> [line |-> n, level |-> LevelOf(n), copy |-> Copies(n) + 1]]
<1>2. \A n : Copies(n) \in Nat
  BY FS_Subset, FS_CardinalityType DEF ReaderInv, RowsOK
<1> HIDE DEF Copies
<1>3. IsFiniteSet(batch)
  <2>1. IsFiniteSet(1 .. MaxLogLine)
    BY LimitsThere, FS_Interval
  <2>q. QED
    BY <2>1, FS_Subset
<1>4. IsFiniteSet(new)
  <2>1. f \in Surjection(batch, new)
    BY DEF Surjection
  <2> HIDE DEF f, new
  <2>q. QED
    BY <1>3, <2>1, FS_Surjection
<1>5. new \subseteq Rows /\ \A l \in new : l.level = LevelOf(l.line)
  <2>1. \A n \in batch : n \in 1 .. MaxLogLine /\ LevelOf(n) \in Levels
    BY LimitsThere DEF LevelOf, Levels
  <2>q. QED
    BY <1>2, <2>1 DEF Rows
<1>6. lines' = lines \cup new
  BY <1>1
<1> HIDE DEF new
<1>7. RowsOK(lines')
  BY <1>4, <1>5, <1>6, FS_Union DEF RowsOK, ReaderInv
<1>8. UNCHANGED reader
  BY DEF InsertBatch
<1>q. QED
  BY <1>7, <1>8 DEF ReaderInv, PagesComplete

\* Lines are only taken away.
LEMMA FewerLines ==
  ASSUME ReaderInv, lines' \subseteq lines
  PROVE  RowsOK(lines')
  BY FS_Subset DEF ReaderInv, RowsOK

\* A reader begins with nothing.
LEMMA OpenLogsKeeps ==
  ASSUME ReaderInv, OpenLogs
  PROVE  ReaderInv'
<1>1. PICK min \in Levels :
        reader' = [at |-> "page", min |-> min, before |-> MaxLogLine + 1, shown |-> {},
                   kept |-> {l.line : l \in {k \in lines : k.level <= min}}]
  BY DEF OpenLogs
<1>2. UNCHANGED lines
  BY DEF OpenLogs
<1>3. ASSUME NEW l \in lines, l.level <= min
      PROVE  l.line \in Nat /\ LevelOf(l.line) <= min /\ l.line < MaxLogLine + 1
  BY <1>3, LimitsThere DEF ReaderInv, RowsOK, Rows
<1>q. QED
  BY <1>1, <1>2, <1>3, LimitsThere DEF ReaderInv, PagesComplete

\* A page goes on where the one before it ended.
LEMMA ReadPageKeeps ==
  ASSUME ReaderInv, ReadPage
  PROVE  ReaderInv'
<1> DEFINE rows == {l \in lines : l.level <= reader.min /\ OlderThan(l)}
           part == Newest(rows, PageLines)
           numbers == {l.line : l \in part}
           full == Cardinality(part) = PageLines
           there == {l.line : l \in lines}
<1>1. /\ reader.at = "page" /\ UNCHANGED lines
      /\ reader' = [reader EXCEPT !.shown = @ \cup numbers, !.kept = @ \cap there,
                      !.before = IF full THEN Min(numbers) ELSE @,
                      !.at = IF full THEN "page" ELSE "end"]
  BY DEF ReadPage
<1>2. RowsOK(rows)
  BY FS_Subset DEF ReaderInv, RowsOK
<1>3. /\ part \subseteq rows /\ (~full => part = rows)
      /\ \A r \in rows \ part : \A p \in part : Before(p, r)
  BY <1>2, LimitsThere, PageThere
<1>4. \A l \in lines : l.line \in Nat /\ l.level = LevelOf(l.line)
  BY DEF ReaderInv, RowsOK, Rows
<1>5. ASSUME NEW n \in reader.kept, n \in there, n \notin reader.shown
      PROVE  \E l \in rows : l.line = n
  <2>1. PICK l \in lines : l.line = n
    BY <1>5
  <2>2. LevelOf(n) <= reader.min /\ n < reader.before
    BY <1>1, <1>5 DEF ReaderInv
  <2>q. QED
    BY <1>4, <2>1, <2>2 DEF OlderThan
<1> HIDE DEF part, rows
<1>6. numbers \subseteq Nat
  BY <1>3, <1>4 DEF rows
<1>7. CASE ~full
  <2>1. \A n \in reader.kept \cap there : n \in reader.shown \cup numbers
    BY <1>3, <1>5, <1>7
  <2>2. reader'.at = "end" /\ reader'.kept = reader.kept \cap there
        /\ reader'.shown = reader.shown \cup numbers
    BY <1>1, <1>7 DEF ReaderInv
  <2>q. QED
    BY <1>1, <2>1, <2>2 DEF ReaderInv, PagesComplete
<1>8. CASE full
  <2>1. part # {}
    BY <1>8, LimitsThere, FS_EmptySet
  <2>2. Min(numbers) \in numbers /\ \A n \in numbers : Min(numbers) <= n
    BY <1>6, <2>1, MinThere
  <2>3. ASSUME NEW n \in reader.kept \cap there
        PROVE  n \in reader.shown \cup numbers \/ n < Min(numbers)
    <3>1. SUFFICES ASSUME n \notin reader.shown, n \notin numbers PROVE n < Min(numbers)
      OBVIOUS
    <3>2. PICK l \in rows : l.line = n
      BY <1>5, <3>1
    <3>3. l \notin part
      BY <3>1, <3>2
    <3>4. PICK p \in part : p.line = Min(numbers)
      BY <2>2
    <3>5. Before(p, l)
      BY <1>3, <3>2, <3>3, <3>4
    <3>6. p.line # l.line
      BY <2>2, <3>1, <3>2, <3>4
    <3>q. QED
      BY <3>2, <3>4, <3>5, <3>6 DEF Before
  <2>4. /\ reader'.at = "page" /\ reader'.kept = reader.kept \cap there
        /\ reader'.shown = reader.shown \cup numbers /\ reader'.before = Min(numbers)
        /\ reader'.min = reader.min /\ DOMAIN reader' = DOMAIN reader
    BY <1>1, <1>8 DEF ReaderInv
  <2> HIDE DEF numbers, there
  <2>q. QED
    BY <1>1, <1>6, <2>2, <2>3, <2>4 DEF ReaderInv, PagesComplete
<1>q. QED
  BY <1>7, <1>8

(* Failures. *)

FailureRows == [agent : FailingAgents, time : Nat]

\* Recorded, but its insert is still to come.
Awaited(f) == [f |-> f, at |-> "insert"] \in recorders

\* The newer failures of its agent whose insert is behind them.
Newer(f) == {g \in failuresSeen : g.agent = f.agent /\ g.time > f.time /\ ~Awaited(g)}

FailuresInv ==
  /\ IsFiniteSet(failuresSeen) /\ failuresSeen \subseteq FailureRows /\ failureTime \in Nat
  /\ failures \subseteq failuresSeen
  /\ recorders \subseteq [f : FailureRows, at : {"insert", "prune"}]
  /\ \A f \in failuresSeen : f.time <= failureTime
  /\ \A r \in recorders : /\ r.f.time <= failureTime
                          /\ r.at = "insert" => r.f \in failuresSeen /\ r.f \notin failures
  /\ \A f \in failuresSeen \ failures : Awaited(f) \/ Cardinality(Newer(f)) >= MAX_PER_AGENT

\* Newer failures can be counted.
LEMMA NewerFinite ==
  ASSUME FailuresInv, NEW f
  PROVE  IsFiniteSet(Newer(f)) /\ Cardinality(Newer(f)) \in Nat
<1>1. Newer(f) \subseteq failuresSeen /\ IsFiniteSet(failuresSeen)
  BY DEF FailuresInv, Newer
<1>2. IsFiniteSet(Newer(f))
  BY <1>1, FS_Subset
<1>q. QED
  BY <1>2, FS_CardinalityType

\* The newer ones stay enough as long as none of them is taken away.
LEMMA NewerGrows ==
  ASSUME FailuresInv, NEW f, Newer(f) \subseteq Newer(f)', IsFiniteSet(failuresSeen'),
         Cardinality(Newer(f)) >= MAX_PER_AGENT
  PROVE  Cardinality(Newer(f)') >= MAX_PER_AGENT
<1>1. Newer(f)' \subseteq failuresSeen'
  BY DEF Newer
<1>2. IsFiniteSet(Newer(f)') /\ Cardinality(Newer(f)') \in Nat
  BY <1>1, FS_Subset, FS_CardinalityType
<1>3. Cardinality(Newer(f)) <= Cardinality(Newer(f)')
  BY <1>2, FS_Subset
<1>q. QED
  BY <1>2, <1>3, NewerFinite, LimitsThere

\* A failure is recorded; its insert is to come.
LEMMA RecordKeeps ==
  ASSUME FailuresInv, NEW a \in FailingAgents, Record(a)
  PROVE  FailuresInv'
<1> USE DEF FailuresInv
<1>0. PICK e : e = [agent |-> a, time |-> failureTime + 1]
  OBVIOUS
<1> DEFINE r == [f |-> e, at |-> "insert"]
<1>1. /\ failureTime' = failureTime + 1 /\ failuresSeen' = failuresSeen \cup {e}
      /\ recorders' = recorders \cup {r} /\ UNCHANGED failures
  BY <1>0 DEF Record
<1>2. e \in FailureRows /\ e.time = failureTime + 1
  BY <1>0 DEF FailureRows
<1>3. IsFiniteSet(failuresSeen')
  BY <1>1, FS_AddElement
<1>4. \A g \in failuresSeen : g.time <= failureTime' /\ g.time \in Nat /\ g # e
  BY <1>1, <1>2 DEF FailureRows
<1>5. \A q \in recorders : q.f.time <= failureTime' /\ q.f \in FailureRows
  BY <1>1 DEF FailureRows
<1>6. e \notin failures
  BY <1>4
<1>7. r.f = e /\ r.at = "insert" /\ r \in [f : FailureRows, at : {"insert", "prune"}]
  BY <1>2
<1>8. Awaited(e)'
  BY <1>1 DEF Awaited
<1>9. \A g \in failuresSeen : Awaited(g)' <=> Awaited(g)
  <2>1. \A g \in failuresSeen : [f |-> g, at |-> "insert"] # r
    BY <1>4
  <2>q. QED
    BY <1>1, <2>1 DEF Awaited
<1>10. ASSUME NEW g \in failuresSeen PROVE Newer(g) \subseteq Newer(g)'
  BY <1>1, <1>9 DEF Newer
<1>11. \A g \in failuresSeen' \ failures' : Awaited(g)' \/ Cardinality(Newer(g)') >= MAX_PER_AGENT
  BY <1>1, <1>3, <1>8, <1>9, <1>10, NewerGrows
<1>12. \A g \in failuresSeen' : g.time <= failureTime'
  BY <1>1, <1>2, <1>4
<1> HIDE DEF r
<1>13. \A q \in recorders' : /\ q.f.time <= failureTime'
                             /\ q.at = "insert" => q.f \in failuresSeen' /\ q.f \notin failures'
  BY <1>1, <1>2, <1>5, <1>6, <1>7
<1>14. /\ failuresSeen' \subseteq FailureRows /\ failureTime' \in Nat
       /\ failures' \subseteq failuresSeen'
  BY <1>1, <1>2
<1>15. recorders' \subseteq [f : FailureRows, at : {"insert", "prune"}]
  BY <1>1, <1>7
<1>q. QED
  BY <1>3, <1>11, <1>12, <1>13, <1>14, <1>15

\* It is inserted, or lost to the failing write.
LEMMA InsertKeeps ==
  ASSUME FailuresInv, NEW r \in recorders, Insert(r)
  PROVE  FailuresInv'
<1> USE DEF FailuresInv
<1>1. /\ r.at = "insert" /\ r = [f |-> r.f, at |-> r.at] 
      /\ r.f \in failuresSeen /\ r.f \notin failures /\ UNCHANGED failureTime
  BY DEF Insert
<1>2. \A q \in recorders : q.at = "insert" /\ q.f = r.f => q = r
  BY <1>1
<1>3. CASE /\ failures' = failures \cup {r.f} /\ UNCHANGED failuresSeen
           /\ recorders' = (recorders \ {r}) \cup {[r EXCEPT !.at = "prune"]}
  <2>1. [r EXCEPT !.at = "prune"] = [f |-> r.f, at |-> "prune"]
    BY <1>1
  <2>2. \A g : Awaited(g)' => Awaited(g)
    BY <1>3, <2>1 DEF Awaited
  <2>3. \A g : Awaited(g) /\ g # r.f => Awaited(g)'
    BY <1>3 DEF Awaited
  <2>4. ASSUME NEW g \in failuresSeen' \ failures'
        PROVE  Awaited(g)' \/ Cardinality(Newer(g)') >= MAX_PER_AGENT
    <3>1. Newer(g) \subseteq Newer(g)'
      BY <1>3, <2>2 DEF Newer
    <3>2. g \in failuresSeen \ failures /\ g # r.f
      BY <1>3, <2>4
    <3>q. QED
      BY <1>3, <2>3, <3>1, <3>2, NewerGrows
  <2>5. recorders' \subseteq [f : FailureRows, at : {"insert", "prune"}]
    BY <1>3, <2>1
  <2>6. \A q \in recorders' : /\ q.f.time <= failureTime'
                             /\ q.at = "insert" => q.f \in failuresSeen' /\ q.f \notin failures'
    BY <1>1, <1>2, <1>3, <2>1
  <2>q. QED
    BY <1>1, <1>3, <2>4, <2>5, <2>6
<1>4. CASE /\ failuresSeen' = failuresSeen \ {r.f} /\ recorders' = recorders \ {r}
           /\ UNCHANGED failures
  <2>1. IsFiniteSet(failuresSeen')
    BY <1>4, FS_RemoveElement
  <2>2. \A g : g # r.f => (Awaited(g)' <=> Awaited(g))
    BY <1>4 DEF Awaited
  <2>3. Awaited(r.f)
    BY <1>1 DEF Awaited
  <2>4. ASSUME NEW g \in failuresSeen' \ failures'
        PROVE  Awaited(g)' \/ Cardinality(Newer(g)') >= MAX_PER_AGENT
    <3>1. Newer(g) \subseteq Newer(g)'
      BY <1>4, <2>2, <2>3 DEF Newer
    <3>2. g \in failuresSeen \ failures /\ g # r.f
      BY <1>4, <2>4
    <3>q. QED
      BY <2>1, <2>2, <3>1, <3>2, NewerGrows
  <2>5. \A q \in recorders' : /\ q.f.time <= failureTime'
                             /\ q.at = "insert" => q.f \in failuresSeen' /\ q.f \notin failures'
    BY <1>1, <1>2, <1>4
  <2>q. QED
    BY <1>1, <1>4, <2>1, <2>4, <2>5
<1>q. QED
  BY <1>3, <1>4 DEF Insert

\* Those beyond the limit go.
LEMMA PruneFailuresKeeps ==
  ASSUME FailuresInv, NEW r \in recorders, PruneFailures(r)
  PROVE  FailuresInv'
<1> USE DEF FailuresInv
<1> DEFINE a == r.f.agent
           ofAgent == {f \in failures : f.agent = a}
           after == {f \in failures : f.agent = a => f \in NewestOfAgent(a)}
<1>1. /\ r.at = "prune" /\ recorders' = recorders \ {r} /\ UNCHANGED <<failureTime, failuresSeen>>
      /\ failures' \in {failures, after}
  BY DEF PruneFailures
<1>2. \A g : Awaited(g)' <=> Awaited(g)
  BY <1>1 DEF Awaited
<1>3. \A g : Newer(g)' = Newer(g)
  BY <1>1, <1>2 DEF Newer
<1>4. ASSUME NEW f \in failures \ failures'
      PROVE  Cardinality(Newer(f)) >= MAX_PER_AGENT
  <2> DEFINE newer == {g \in ofAgent : g.time > f.time}
  <2>1. f.agent = a /\ ~(Cardinality(newer) < MAX_PER_AGENT)
    BY <1>1, <1>4 DEF NewestOfAgent, NewestFailures
  <2>2. newer \subseteq Newer(f)
    <3>1. \A g \in failures : ~Awaited(g)
      BY DEF Awaited
    <3>q. QED
      BY <2>1, <3>1 DEF Newer
  <2> HIDE DEF newer
  <2>3. IsFiniteSet(newer) /\ Cardinality(newer) <= Cardinality(Newer(f))
    BY <2>2, NewerFinite, FS_Subset
  <2>4. Cardinality(newer) \in Nat
    BY <2>3, FS_CardinalityType
  <2>q. QED
    BY <2>1, <2>3, <2>4, NewerFinite, LimitsThere
<1>5. failures' \subseteq failures
  BY <1>1
<1> HIDE DEF after
<1>6. \A f \in failuresSeen' \ failures' : Awaited(f)' \/ Cardinality(Newer(f)') >= MAX_PER_AGENT
  BY <1>1, <1>2, <1>3, <1>4
<1>q. QED
  BY <1>1, <1>5, <1>6

\* The invariant is inductive.
LEMMA DiagNextKeeps ==
  ASSUME ReaderInv, FailuresInv, [DiagNext]_diagVars
  PROVE  ReaderInv' /\ FailuresInv'
<1> USE DEF logTables, failureTables
<1>1. CASE UNCHANGED logTables /\ FailuresInv'
  BY <1>1 DEF ReaderInv, PagesComplete, RowsOK
<1>2. CASE UNCHANGED failureTables /\ ReaderInv'
  <2>1. \A g : (Awaited(g)' <=> Awaited(g)) /\ Newer(g)' = Newer(g)
    BY <1>2 DEF Awaited, Newer
  <2>q. QED
    BY <1>2, <2>1 DEF FailuresInv
<1>3. CASE PruneOld \/ Trim
  <2>1. lines' \subseteq lines /\ UNCHANGED reader
    BY <1>3 DEF PruneOld, Trim
  <2>2. ReaderInv'
    BY <2>1, FewerLines DEF ReaderInv, PagesComplete
  <2>q. QED
    BY <1>2, <1>3, <2>2 DEF PruneOld, Trim
<1>4. CASE FindCutoff
  <2>1. ReaderInv'
    BY <1>4 DEF FindCutoff, ReaderInv, PagesComplete, RowsOK
  <2>q. QED
    BY <1>2, <1>4, <2>1 DEF FindCutoff
<1>5. CASE InsertBatch \/ OpenLogs \/ ReadPage
  <2>1. UNCHANGED failureTables
    BY <1>5 DEF InsertBatch, OpenLogs, ReadPage
  <2>q. QED
    BY <1>2, <1>5, <2>1, InsertBatchKeeps, OpenLogsKeeps, ReadPageKeeps
<1>6. ASSUME NEW a \in FailingAgents, Record(a) PROVE ReaderInv' /\ FailuresInv'
  BY <1>1, <1>6, RecordKeeps DEF Record
<1>7. ASSUME NEW r \in recorders, Insert(r) \/ PruneFailures(r) PROVE ReaderInv' /\ FailuresInv'
  BY <1>1, <1>7, InsertKeeps, PruneFailuresKeeps DEF Insert, PruneFailures
<1>8. CASE UNCHANGED diagVars
  <2>1. ReaderInv'
    BY <1>8 DEF diagVars, ReaderInv, PagesComplete, RowsOK
  <2>q. QED
    BY <1>2, <1>8, <2>1 DEF diagVars
<1>q. QED
  BY <1>3, <1>4, <1>5, <1>6, <1>7, <1>8 DEF DiagNext, LogsNext, FailuresNext

\* DiagnosticsSound: a reader who pages through an agent's log misses no line that was kept all
\* along, and of each agent's failures the newest are kept, up to the limit.
THEOREM DiagnosticsKept == DiagSpec => []DiagnosticsSound
<1>1. DiagInit => ReaderInv /\ FailuresInv
  <2> SUFFICES ASSUME DiagInit PROVE ReaderInv /\ FailuresInv
    OBVIOUS
  <2>1. lines = {} /\ reader.at = "none" /\ failures = {} /\ failuresSeen = {} /\ recorders = {}
        /\ failureTime = 0
    BY DEF DiagInit, NoReader
  <2>q. QED
    BY <2>1, FS_EmptySet DEF ReaderInv, PagesComplete, RowsOK, FailuresInv
<1>2. ReaderInv /\ FailuresInv /\ [DiagNext]_diagVars => (ReaderInv /\ FailuresInv)'
  BY DiagNextKeeps
<1>3. ReaderInv /\ FailuresInv => DiagnosticsSound
  <2> SUFFICES ASSUME FailuresInv, NEW f \in failuresSeen \ failures, ~Awaited(f)
               PROVE  Cardinality({g \in failuresSeen : g.agent = f.agent /\ g.time > f.time})
                        >= MAX_PER_AGENT
    BY DEF DiagnosticsSound, ReaderInv, NewestKept, Awaited
  <2> DEFINE all == {g \in failuresSeen : g.agent = f.agent /\ g.time > f.time}
  <2>1. Cardinality(Newer(f)) >= MAX_PER_AGENT
    BY DEF FailuresInv
  <2>2. IsFiniteSet(all) /\ Cardinality(all) \in Nat
    BY FS_Subset, FS_CardinalityType DEF FailuresInv
  <2>3. Cardinality(Newer(f)) <= Cardinality(all)
    BY <2>2, FS_Subset DEF Newer
  <2> HIDE DEF all
  <2>4. Cardinality(all) >= MAX_PER_AGENT
    BY <2>1, <2>2, <2>3, NewerFinite, LimitsThere
  <2>q. QED
    BY <2>4 DEF all
<1>q. QED
  BY <1>1, <1>2, <1>3, PTL DEF DiagSpec

-----------------------------------------------------------------------------
(* Summary *)

\* What \div is, by a positive number.
LEMMA DivBounds ==
  ASSUME NEW a \in Int, NEW b \in Nat \ {0}
  PROVE  /\ a \div b \in Int
         /\ (a \div b) * b <= a
         /\ a < (a \div b) * b + b
<1>1. a \div b \in Int
  BY SMT
<1>2. a = (a \div b) * b + (a % b) /\ a % b \in 0 .. b - 1
  BY SMT
<1>q. QED
  BY <1>1, <1>2, SMT

\* And nothing else is.
LEMMA DivIs ==
  ASSUME NEW a \in Int, NEW b \in Nat \ {0}, NEW q \in Int, q * b <= a, a < q * b + b
  PROVE  a \div b = q
<1>1. a \div b \in Int /\ (a \div b) * b <= a /\ a < (a \div b) * b + b
  BY DivBounds
<1>q. QED
  BY <1>1, SMT

\* The bucket that the division finds is the one whose stretch of time holds t.
LEMMA BucketThere ==
  ASSUME NEW now \in Int, NEW t \in Int
  PROVE  LET from == FirstBucket(now)
             i == (t - from) \div BucketTime + 1
         IN  /\ from \in Int /\ Since(now) \in Int /\ i \in Int
             /\ from <= Since(now) /\ Since(now) <= now
             /\ DOMAIN BucketStarts(now) = 1 .. (now - from) \div BucketTime + 1
             /\ \A k \in DOMAIN BucketStarts(now) :
                  /\ BucketStarts(now)[k] \in Int
                  /\ i = k <=> BucketStarts(now)[k] <= t /\ t < BucketStarts(now)[k] + BucketTime
<1> DEFINE from == FirstBucket(now)
           i == (t - from) \div BucketTime + 1
           last == (now - from) \div BucketTime + 1
<1>0. BucketTime \in Nat \ {0} /\ WindowTime \in Nat
  BY SummaryAssumption
<1>1. Since(now) \in Int /\ Since(now) <= now
  BY <1>0 DEF Since
<1>2. from \in Int /\ from <= Since(now)
  BY <1>0, <1>1, DivBounds DEF FirstBucket
<1>3. i \in Int /\ last \in Int
  <2>1. t - from \in Int /\ now - from \in Int
    BY <1>2
  <2>q. QED
    BY <2>1, <1>0, DivBounds
<1>4. DOMAIN BucketStarts(now) = 1 .. last
  BY DEF BucketStarts
<1>5. ASSUME NEW k \in 1 .. last
      PROVE  /\ BucketStarts(now)[k] \in Int
             /\ i = k <=> BucketStarts(now)[k] <= t /\ t < BucketStarts(now)[k] + BucketTime
  <2> DEFINE q == k - 1
             d == t - from
  <2>1. k \in Int /\ q \in Int /\ d \in Int
    BY <1>2, <1>3
  <2>2. BucketStarts(now)[k] = from + q * BucketTime /\ q * BucketTime \in Int
    BY <2>1, <1>0, <1>5 DEF BucketStarts
  <2>3. d \div BucketTime = q <=> q * BucketTime <= d /\ d < q * BucketTime + BucketTime
    <3> HIDE DEF q, d
    <3>1. ASSUME d \div BucketTime = q
          PROVE  q * BucketTime <= d /\ d < q * BucketTime + BucketTime
      BY <3>1, <2>1, <1>0, DivBounds
    <3>2. ASSUME q * BucketTime <= d, d < q * BucketTime + BucketTime
          PROVE  d \div BucketTime = q
      BY <3>2, <2>1, <1>0, DivIs
    <3>q. QED
      BY <3>1, <3>2
  <2> DEFINE p == q * BucketTime
  <2>4. i = k <=> d \div BucketTime = q
    BY <2>1, <1>3, <1>0, DivBounds
  <2>5. BucketStarts(now)[k] = from + p /\ p \in Int
    BY <2>2
  <2>6. p <= d /\ d < p + BucketTime <=> from + p <= t /\ t < from + p + BucketTime
    <3> HIDE DEF p
    <3>q. QED
      BY <2>5, <1>2, <1>0
  <2>q. QED
    BY <2>3, <2>4, <2>5, <2>6, <1>2
<1>q. QED
  BY <1>1, <1>2, <1>3, <1>4, <1>5

\* What the charts of SummaryRight rest on: the bars share out the time, each its own stretch of
\* it, and leave no time of the page's window without one (bucket_starts, charts).
THEOREM BucketsCover ==
  ASSUME NEW now \in Int, NEW t \in Int
  PROVE  LET starts == BucketStarts(now)
             In(i) == t >= starts[i] /\ t < starts[i] + BucketTime
         IN  /\ \A i \in DOMAIN starts : BucketOf(t, now) = i <=> In(i)
             /\ t \in Since(now) .. now => \E i \in DOMAIN starts : In(i)
<1> DEFINE from == FirstBucket(now)
           i == (t - from) \div BucketTime + 1
           last == (now - from) \div BucketTime + 1
           starts == BucketStarts(now)
           In(k) == t >= starts[k] /\ t < starts[k] + BucketTime
<1>0. BucketTime \in Nat \ {0}
  BY SummaryAssumption
<1>1. /\ from \in Int /\ Since(now) \in Int /\ i \in Int
      /\ from <= Since(now) /\ Since(now) <= now
      /\ DOMAIN starts = 1 .. last
      /\ \A k \in DOMAIN starts : /\ starts[k] \in Int
                                  /\ i = k <=> starts[k] <= t /\ t < starts[k] + BucketTime
  BY BucketThere
<1>2. BucketOf(t, now) = IF i \in 1 .. last THEN i ELSE 0
  BY <1>1 DEF BucketOf
<1>3. ASSUME NEW k \in DOMAIN starts
      PROVE  In(k) <=> i = k
  <2>0. k \in DOMAIN starts
    BY <1>3
  <2> HIDE DEF starts, i, last, from
  <2>1. starts[k] \in Int /\ (i = k <=> starts[k] <= t /\ t < starts[k] + BucketTime)
    BY <2>0, <1>1, Zenon
  <2> DEFINE s == starts[k]
  <2> HIDE DEF s
  <2>q. QED
    BY <2>1 DEF s
<1>4. last \in Int
  <2>1. now - from \in Int
    BY <1>1
  <2>q. QED
    BY <2>1, <1>0, DivBounds
<1>5. ASSUME t \in Since(now) .. now
      PROVE  i \in 1 .. last
  <2> DEFINE a == t - from
             b == now - from
  <2>1. a \in Int /\ b \in Int /\ 0 <= a /\ a <= b
    BY <1>1, <1>5
  <2> HIDE DEF a, b
  <2>2. /\ a \div BucketTime \in Int /\ b \div BucketTime \in Int
        /\ 0 <= a \div BucketTime /\ a \div BucketTime <= b \div BucketTime
    <3> DEFINE x == a \div BucketTime
               y == b \div BucketTime
    <3>1. /\ x \in Int /\ y \in Int /\ x * BucketTime <= a /\ a < x * BucketTime + BucketTime
          /\ y * BucketTime <= b /\ b < y * BucketTime + BucketTime
      BY <2>1, <1>0, DivBounds
    <3> HIDE DEF x, y
    <3>2. 0 <= x /\ x <= y
      BY <3>1, <2>1, <1>0, SMT
    <3>q. QED
      BY <3>1, <3>2 DEF x, y
  <2>3. 1 <= a \div BucketTime + 1 /\ a \div BucketTime + 1 <= b \div BucketTime + 1
    BY <2>2
  <2>q. QED
    BY <2>3, <1>1, <1>4 DEF a, b
<1>6. i # 0 \/ i \notin 1 .. last
  BY <1>1
<1>7. \A k \in DOMAIN starts : BucketOf(t, now) = k <=> In(k)
  <2>1. \A k \in 1 .. last : k # 0 /\ k \in Int
    BY <1>4
  <2>q. QED
    BY <2>1, <1>1, <1>2, <1>3
<1>8. t \in Since(now) .. now => \E k \in DOMAIN starts : In(k)
  BY <1>1, <1>3, <1>5
<1>q. QED
  BY <1>7, <1>8

\* Some row of a finite set has the greatest value.
LEMMA GreatestThere ==
  ASSUME NEW S, IsFiniteSet(S), S # {}, NEW values, \A r \in S : values[r] \in Int
  PROVE  \E m \in S : \A r \in S : values[r] <= values[m]
<1> DEFINE Above(r) == {q \in S : values[q] > values[r]}
           Counts == {Cardinality(Above(r)) : r \in S}
<1>1. ASSUME NEW r \in S
      PROVE  IsFiniteSet(Above(r)) /\ Cardinality(Above(r)) \in Nat
  <2>1. Above(r) \in SUBSET S
    OBVIOUS
  <2>q. QED
    BY <2>1, FS_Subset, FS_CardinalityType
<1>2. PICK n \in Counts : \A m \in Counts : n <= m
  <2>1. Counts \in SUBSET Nat /\ Counts # {}
    BY <1>1
  <2>q. QED
    BY <2>1, MinThere
<1>3. PICK m \in S : n = Cardinality(Above(m))
  BY <1>2
<1>4. ASSUME NEW r \in S, values[r] > values[m]
      PROVE  FALSE
  <2>1. Above(r) \in SUBSET Above(m) /\ r \in Above(m) /\ r \notin Above(r)
    BY <1>4
  <2>2. Cardinality(Above(r)) <= Cardinality(Above(m)) /\ Above(r) # Above(m)
    BY <1>1, <2>1, FS_Subset
  <2>3. Cardinality(Above(r)) # Cardinality(Above(m))
    BY <1>1, <2>1, <2>2, FS_Subset
  <2>4. Cardinality(Above(m)) <= Cardinality(Above(r))
    BY <1>2, <1>3
  <2> HIDE DEF Above
  <2>q. QED
    BY <1>1, <2>2, <2>3, <2>4
<1>q. QED
  BY <1>4

\* The rows of a finite set can be put in order of their values: a set with no order, the smallest
\* there is, would have one once its greatest row is put last.
LEMMA OrderThere ==
  ASSUME NEW S, IsFiniteSet(S), NEW values, \A r \in S : values[r] \in Int
  PROVE  \E o \in Bijection(1 .. Cardinality(S), S) : IsOrder(o, values)
<1> DEFINE HasOrder(R) == \E o \in Bijection(1 .. Cardinality(R), R) : IsOrder(o, values)
           Bad == {n \in Nat : \E R \in SUBSET S : Cardinality(R) = n /\ ~HasOrder(R)}
<1> SUFFICES ASSUME ~HasOrder(S) PROVE FALSE
  OBVIOUS
<1>1. Cardinality(S) \in Bad
  BY FS_CardinalityType
<1>2. PICK n \in Bad : \A m \in Bad : n <= m
  <2>1. Bad \in SUBSET Nat /\ Bad # {}
    BY <1>1
  <2> HIDE DEF Bad
  <2>q. QED
    BY <2>1, MinThere
<1>3. PICK R \in SUBSET S : Cardinality(R) = n /\ ~HasOrder(R)
  BY <1>2
<1>4. IsFiniteSet(R) /\ n \in Nat
  BY <1>3, FS_Subset
<1>5. R # {}
  <2> SUFFICES ASSUME R = {} PROVE FALSE
    OBVIOUS
  <2>1. n = 0
    BY <1>3, FS_EmptySet
  <2>2. 1 .. Cardinality(R) = {}
    BY <1>3, <2>1
  <2> DEFINE o == [i \in {} |-> i]
  <2>3. o \in Bijection({}, {})
    BY DEF Bijection, Injection, Surjection, IsInjective
  <2>4. IsOrder(o, values)
    BY DEF IsOrder
  <2>q. QED
    BY <1>3, <2>2, <2>3, <2>4
<1>6. PICK m \in R : \A r \in R : values[r] <= values[m]
  BY <1>3, <1>4, <1>5, GreatestThere
<1> DEFINE Q == R \ {m}
<1>7. n # 0 /\ Cardinality(Q) = n - 1 /\ IsFiniteSet(Q) /\ Q \in SUBSET S
  BY <1>3, <1>4, <1>5, FS_RemoveElement, FS_EmptySet
<1>8. HasOrder(Q)
  <2> SUFFICES ASSUME ~HasOrder(Q) PROVE FALSE
    OBVIOUS
  <2>1. n - 1 \in Bad
    BY <1>4, <1>7
  <2> HIDE DEF Bad
  <2>q. QED
    BY <1>2, <1>4, <2>1
<1>9. PICK q \in Bijection(1 .. (n - 1), Q) : IsOrder(q, values)
  BY <1>7, <1>8
<1> DEFINE o == [i \in 1 .. n |-> IF i = n THEN m ELSE q[i]]
<1>10. /\ q \in [1 .. (n - 1) -> Q]
       /\ \A i, k \in 1 .. (n - 1) : q[i] = q[k] => i = k
       /\ \A r \in Q : \E i \in 1 .. (n - 1) : q[i] = r
  BY <1>9 DEF Bijection, Injection, Surjection, IsInjective
<1>11. o \in Bijection(1 .. n, R)
  <2>1. o \in [1 .. n -> R]
    BY <1>4, <1>10
  <2>2. ASSUME NEW i \in 1 .. n, NEW k \in 1 .. n, o[i] = o[k]
        PROVE  i = k
    BY <1>4, <1>10, <2>2
  <2>3. ASSUME NEW r \in R
        PROVE  \E i \in 1 .. n : o[i] = r
    <3>1. CASE r = m
      BY <1>4, <1>7, <3>1
    <3>2. CASE r # m
      <4>1. PICK i \in 1 .. (n - 1) : q[i] = r
        BY <1>10, <3>2
      <4>q. QED
        BY <1>4, <4>1
    <3>q. QED
      BY <3>1, <3>2
  <2> HIDE DEF o
  <2>q. QED
    BY <2>1, <2>2, <2>3 DEF Bijection, Injection, Surjection, IsInjective
<1>12. IsOrder(o, values)
  <2>1. ASSUME NEW i \in 1 .. n, NEW k \in 1 .. n, i <= k
        PROVE  values[o[i]] <= values[o[k]]
    <3>1. CASE k = n
      <4>1. o[i] \in R /\ o[k] = m
        BY <1>10, <3>1, <1>4
      <4>q. QED
        BY <4>1, <1>6
    <3>2. CASE k # n
      <4>1. i \in 1 .. (n - 1) /\ k \in 1 .. (n - 1) /\ o[i] = q[i] /\ o[k] = q[k]
        BY <2>1, <3>2, <1>4
      <4>q. QED
        BY <4>1, <2>1, <1>9, <1>10 DEF IsOrder
    <3>q. QED
      BY <3>1, <3>2
  <2>2. DOMAIN o = 1 .. n
    OBVIOUS
  <2> HIDE DEF o
  <2>q. QED
    BY <2>1, <2>2 DEF IsOrder
<1>q. QED
  BY <1>3, <1>11, <1>12

\* The nearest rank is one of the places, and shares the values out as its percentile asks.
LEMMA RankFits ==
  ASSUME NEW n \in Nat \ {0}, NEW p \in {50, 95}
  PROVE  LET rank == (p * n + 99) \div 100
         IN  rank \in 1 .. n /\ 100 * rank >= p * n /\ 100 * (rank - 1) < p * n
<1> DEFINE rank == (p * n + 99) \div 100
<1>1. p * n \in Int
  OBVIOUS
<1>2. rank \in Int /\ rank * 100 <= p * n + 99 /\ p * n + 99 < rank * 100 + 100
  BY <1>1, DivBounds
<1> HIDE DEF rank
<1>3. rank * 100 = 100 * rank
  BY <1>2
<1>4. CASE p = 50
  BY <1>2, <1>3, <1>4
<1>5. CASE p = 95
  BY <1>2, <1>3, <1>5
<1>q. QED
  BY <1>4, <1>5 DEF rank

\* The rows whose value is no greater than v, and those whose value is smaller.
AtMost(rows, values, v) == {r \in rows : values[r] <= v}
Below(rows, values, v) == {r \in rows : values[r] < v}

\* At a place of an order, the rows up to it are no greater, and those that are smaller are before.
LEMMA PlaceCounts ==
  ASSUME NEW S, IsFiniteSet(S), NEW values, \A r \in S : values[r] \in Int,
         NEW n \in Nat, NEW o \in Bijection(1 .. n, S), IsOrder(o, values), NEW k \in 1 .. n
  PROVE  /\ Cardinality(AtMost(S, values, values[o[k]])) >= k
         /\ Cardinality(Below(S, values, values[o[k]])) <= k - 1
<1> DEFINE v == values[o[k]]
           More == AtMost(S, values, v)
           Less == Below(S, values, v)
<1>1. /\ o \in [1 .. n -> S]
      /\ \A i, j \in 1 .. n : o[i] = o[j] => i = j
      /\ \A r \in S : \E i \in 1 .. n : o[i] = r
  BY DEF Bijection, Injection, Surjection, IsInjective
<1>2. \A i, j \in 1 .. n : i <= j => values[o[i]] <= values[o[j]]
  BY <1>1 DEF IsOrder
<1>3. v \in Int /\ \A i \in 1 .. n : values[o[i]] \in Int
  BY <1>1
<1>4. IsFiniteSet(More) /\ IsFiniteSet(Less)
  <2>1. More \in SUBSET S /\ Less \in SUBSET S
    BY DEF AtMost, Below
  <2>q. QED
    BY <2>1, FS_Subset
<1>5. Cardinality(More) >= k
  <2> DEFINE f == [i \in 1 .. k |-> o[i]]
  <2>1. \A i \in 1 .. k : i \in 1 .. n /\ i <= k
    OBVIOUS
  <2>2. f \in [1 .. k -> More]
    BY <2>1, <1>1, <1>2 DEF AtMost
  <2>3. \A i, j \in 1 .. k : f[i] = f[j] => i = j
    BY <2>1, <1>1
  <2>4. f \in Injection(1 .. k, More)
    <3> HIDE DEF f, More
    <3>q. QED
      BY <2>2, <2>3 DEF Injection, IsInjective
  <2>5. Cardinality(1 .. k) <= Cardinality(More)
    <3> HIDE DEF f, More
    <3>q. QED
      BY <2>4, <1>4, FS_Injection
  <2>6. Cardinality(1 .. k) = k
    BY FS_Interval
  <2>7. Cardinality(More) \in Nat
    BY <1>4, FS_CardinalityType
  <2> HIDE DEF More
  <2>q. QED
    BY <2>5, <2>6, <2>7
<1>6. Cardinality(Less) <= k - 1
  <2> DEFINE g == [i \in 1 .. (k - 1) |-> o[i]]
             R == {o[i] : i \in 1 .. (k - 1)}
  <2>1. \A i \in 1 .. (k - 1) : i \in 1 .. n
    OBVIOUS
  <2>2. g \in [1 .. (k - 1) -> R] /\ \A r \in R : \E i \in 1 .. (k - 1) : g[i] = r
    OBVIOUS
  <2>3. g \in Surjection(1 .. (k - 1), R)
    <3> HIDE DEF g, R
    <3>q. QED
      BY <2>2 DEF Surjection
  <2>4. IsFiniteSet(1 .. (k - 1)) /\ Cardinality(1 .. (k - 1)) = k - 1
    BY FS_Interval
  <2>5. IsFiniteSet(R) /\ Cardinality(R) <= k - 1
    <3> HIDE DEF g, R
    <3>q. QED
      BY <2>3, <2>4, FS_Surjection
  <2>6. Less \in SUBSET R
    <3> SUFFICES ASSUME NEW r \in Less PROVE r \in R
      OBVIOUS
    <3>0. r \in S /\ values[r] < v
      BY DEF Below
    <3>1. PICK i \in 1 .. n : o[i] = r
      BY <3>0, <1>1
    <3>2. values[o[i]] < v /\ values[o[i]] \in Int
      BY <3>0, <1>3, <3>1
    <3>3. ~(k <= i)
      BY <1>2, <1>3, <3>2
    <3>4. i \in 1 .. (k - 1)
      BY <3>3
    <3>q. QED
      BY <3>1, <3>4
  <2>7. Cardinality(Less) <= Cardinality(R) /\ Cardinality(Less) \in Nat /\ Cardinality(R) \in Nat
    <3> HIDE DEF R, Less
    <3>q. QED
      BY <2>5, <2>6, <1>4, FS_Subset, FS_CardinalityType
  <2> HIDE DEF R, Less
  <2>q. QED
    BY <2>5, <2>7
<1>q. QED
  BY <1>5, <1>6

\* What Stat::of shows of values is of the rank it says.
LEMMA PercentilesRight ==
  ASSUME NEW values, IsFiniteSet(DOMAIN values), \A r \in DOMAIN values : values[r] \in Int,
         NEW p \in {50, 95}
  PROVE  LET n == Cardinality(Valued(values))
         IN  Ranked(values, p, PercentileOf(Sorted(values), n, p))
<1> DEFINE S == Valued(values)
           n == Cardinality(S)
           rank == (p * n + 99) \div 100
           order == CHOOSE o \in Bijection(1 .. n, S) : IsOrder(o, values)
           v == PercentileOf(Sorted(values), n, p)
<1>1. S \in SUBSET DOMAIN values
  BY DEF Valued
<1>2. IsFiniteSet(S) /\ n \in Nat /\ \A r \in S : values[r] \in Int
  BY <1>1, FS_Subset, FS_CardinalityType
<1> HIDE DEF S
<1>3. CASE n = 0
  BY <1>3 DEF Ranked, PercentileOf, S
<1>4. CASE n # 0
  <2>1. order \in Bijection(1 .. n, S) /\ IsOrder(order, values)
    <3>1. \E o \in Bijection(1 .. n, S) : IsOrder(o, values)
      BY <1>2, OrderThere
    <3>q. QED
      BY <3>1
  <2>2. rank \in 1 .. n /\ 100 * rank >= p * n /\ 100 * (rank - 1) < p * n
    BY <1>2, <1>4, RankFits
  <2>3. Sorted(values) = [i \in 1 .. n |-> values[order[i]]]
    BY DEF Sorted, S
  <2> HIDE DEF order, rank, n
  <2>4. PercentileOf(Sorted(values), n, p) = Sorted(values)[rank]
    BY <1>2, <1>4, <2>2 DEF PercentileOf, rank
  <2>5. v = values[order[rank]]
    BY <2>2, <2>3, <2>4
  <2> DEFINE most == Cardinality(AtMost(S, values, v))
             less == Cardinality(Below(S, values, v))
  <2>6. most >= rank /\ less <= rank - 1
    <3>1. /\ Cardinality(AtMost(S, values, values[order[rank]])) >= rank
          /\ Cardinality(Below(S, values, values[order[rank]])) <= rank - 1
      BY <1>2, <2>1, <2>2, PlaceCounts
    <3> HIDE DEF v
    <3>q. QED
      BY <3>1, <2>5
  <2>7. most \in Nat /\ less \in Nat
    <3>1. AtMost(S, values, v) \in SUBSET S /\ Below(S, values, v) \in SUBSET S
      BY DEF AtMost, Below
    <3>q. QED
      BY <3>1, <1>2, FS_Subset, FS_CardinalityType
  <2> HIDE DEF most, less, v
  <2>8. 100 * most >= p * n /\ 100 * less < p * n
    <3>1. p * n \in Int
      BY <1>2
    <3> DEFINE w == p * n
    <3> HIDE DEF w
    <3>2. w \in Int /\ 100 * rank >= w /\ 100 * (rank - 1) < w
      BY <3>1, <2>2 DEF w
    <3>3. 100 * most >= w /\ 100 * less < w
      BY <1>2, <2>2, <2>6, <2>7, <3>2
    <3>q. QED
      BY <3>3 DEF w
  <2>9. Ranked(values, p, v)
    BY <1>4, <2>8 DEF Ranked, AtMost, Below, most, less, n, S
  <2>q. QED
    BY <2>9 DEF v, n, S
<1>q. QED
  BY <1>2, <1>3, <1>4 DEF S

\* Rows shared out by a key add up to all of them.
LEMMA SharesAddUp ==
  ASSUME NEW rows, IsFiniteSet(rows), NEW key
  PROVE  SumOf(NumberBy(rows, key)) = Cardinality(rows)
<1> DEFINE K == {key[r] : r \in rows}
           Of(k) == KeyedBy(rows, key, k)
           f == NumberBy(rows, key)
           Pairs == UNION {{<<k, n>> : n \in 1 .. f[k]} : k \in DOMAIN f}
           B(k) == Bijection(Of(k), 1 .. Cardinality(Of(k)))
           b == [k \in K |-> CHOOSE g \in B(k) : TRUE]
           h == [r \in rows |-> <<key[r], b[key[r]][r]>>]
<1>1. DOMAIN f = K /\ \A k \in K : f[k] = Cardinality(Of(k))
  BY DEF NumberBy
<1>2. ASSUME NEW k \in K
      PROVE  /\ b[k] \in [Of(k) -> 1 .. f[k]]
             /\ \A q, r \in Of(k) : b[k][q] = b[k][r] => q = r
             /\ \A n \in 1 .. f[k] : \E r \in Of(k) : b[k][r] = n
  <2>1. Of(k) \in SUBSET rows
    BY DEF KeyedBy
  <2>2. IsFiniteSet(Of(k)) /\ Cardinality(Of(k)) \in Nat
    BY <2>1, FS_Subset, FS_CardinalityType
  <2> DEFINE c == Cardinality(Of(k))
             I == 1 .. c
  <2>3. IsFiniteSet(I) /\ Cardinality(I) = c
    BY <2>2, FS_Interval
  <2>4. B(k) # {}
    <3>1. ExistsBijection(Of(k), I)
      <4> HIDE DEF I, Of, c
      <4>q. QED
        BY <2>2, <2>3, FS_SameCardinalityBij DEF c
    <3>q. QED
      BY <3>1 DEF ExistsBijection
  <2>5. b[k] \in B(k)
    <3> HIDE DEF B, Of
    <3>q. QED
      BY <2>4
  <2>6. f[k] = c
    BY <1>1
  <2> HIDE DEF b, Of, f, c
  <2>q. QED
    BY <2>5, <2>6 DEF c, Bijection, Injection, Surjection, IsInjective
<1>3. \A r \in rows : key[r] \in K /\ r \in Of(key[r])
  BY DEF KeyedBy
<1>4. \A k \in K : \A r \in Of(k) : r \in rows /\ key[r] = k
  BY DEF KeyedBy
<1>5. \A k \in K : \A n \in 1 .. f[k] : <<k, n>> \in Pairs
  BY <1>1
<1>6. ASSUME NEW x \in Pairs
      PROVE  \E k \in K : \E n \in 1 .. f[k] : x = <<k, n>>
  BY <1>1
<1> HIDE DEF K, Of, f, Pairs, B, b
<1>7. h \in [rows -> Pairs]
  BY <1>2, <1>3, <1>5
<1>8. \A q, r \in rows : h[q] = h[r] => q = r
  BY <1>2, <1>3
<1>9. ASSUME NEW x \in Pairs
      PROVE  \E r \in rows : h[r] = x
  <2>1. PICK k \in K : \E n \in 1 .. f[k] : x = <<k, n>>
    BY <1>6, <1>9
  <2>2. PICK n \in 1 .. f[k] : x = <<k, n>>
    BY <2>1
  <2>3. PICK r \in Of(k) : b[k][r] = n
    BY <1>2
  <2>4. r \in rows /\ key[r] = k
    BY <1>4
  <2>q. QED
    BY <2>2, <2>3, <2>4
<1>10. ExistsBijection(rows, Pairs)
  <2> HIDE DEF h
  <2>1. h \in Bijection(rows, Pairs)
    BY <1>7, <1>8, <1>9 DEF Bijection, Injection, Surjection, IsInjective
  <2>q. QED
    BY <2>1 DEF ExistsBijection
<1>11. Cardinality(Pairs) = Cardinality(rows)
  BY <1>10, FS_Bijection
<1>q. QED
  BY <1>11 DEF SumOf, Pairs, f

\* The rows of a group have the group's number.
LEMMA GroupsAddUp ==
  ASSUME NEW rows, IsFiniteSet(rows), NEW key
  PROVE  LET g == GroupRuns(rows, key)
         IN  SumOf([k \in DOMAIN g |-> g[k].runs]) = Cardinality(rows)
<1> DEFINE g == GroupRuns(rows, key)
<1>1. [k \in DOMAIN g |-> g[k].runs] = NumberBy(rows, key)
  <2>1. DOMAIN g = {key[r] : r \in rows}
    BY DEF GroupRuns
  <2>2. ASSUME NEW k \in DOMAIN g
        PROVE  g[k].runs = Cardinality(KeyedBy(rows, key, k))
    BY <2>1 DEF GroupRuns, Summarize
  <2> HIDE DEF g
  <2>q. QED
    BY <2>1, <2>2 DEF NumberBy
<1>q. QED
  BY <1>1, SharesAddUp

\* Sets that have nothing in common.
LEMMA ApartAddUp ==
  ASSUME NEW A, NEW B, IsFiniteSet(A), IsFiniteSet(B), A \cap B = {}
  PROVE  /\ IsFiniteSet(A \cup B) /\ Cardinality(A \cup B) = Cardinality(A) + Cardinality(B)
         /\ Cardinality(A) \in Nat /\ Cardinality(B) \in Nat
<1>1. Cardinality(A) \in Nat /\ Cardinality(B) \in Nat
  BY FS_CardinalityType
<1>2. Cardinality(A \cap B) = 0
  BY FS_EmptySet
<1>3. /\ IsFiniteSet(A \cup B)
      /\ Cardinality(A \cup B) = Cardinality(A) + Cardinality(B) - Cardinality(A \cap B)
  BY FS_Union, Zenon
<1>q. QED
  BY <1>1, <1>2, <1>3

\* What a row says that the numbers are made of.
RunOutcomeNames ==
  {"none", "rejected", "failed", "lost", "command_failed", "completed"} \cup Stopped
RunOK(r) ==
  /\ r.outcome \in RunOutcomeNames /\ r.name \in Nat \ {0} /\ r.source # "image"
  /\ r.requested \in Int /\ r.started \in Int /\ r.install \in Int
RunsOK(rows) == IsFiniteSet(rows) /\ \A r \in rows : RunOK(r)
JobsOK(jobs) == IsFiniteSet(jobs) /\ \A j, k \in jobs : j.job = k.job => j = k

\* Every run is of one outcome.
LEMMA OutcomesAddUp ==
  ASSUME NEW rows, RunsOK(rows)
  PROVE  LET all == Summarize(rows)
         IN  /\ all.runs = all.running + all.completed + all.failures + all.rejected + all.stopped
             /\ all.failures = SumOf(all.failedPhases)
<1> DEFINE Of(outcomes) == {r \in rows : r.outcome \in outcomes}
           A == Of({"none"})
           B == Of({"completed"})
           C == Failed(rows)
           D == Of({"rejected"})
           E == Of(Stopped)
           all == Summarize(rows)
<1>1. C = Of({"failed", "lost", "command_failed"})
  BY DEF Failed, IsFailure
<1>2. /\ IsFiniteSet(A) /\ IsFiniteSet(B) /\ IsFiniteSet(C) /\ IsFiniteSet(D) /\ IsFiniteSet(E)
      /\ IsFiniteSet(rows)
  <2>1. /\ A \in SUBSET rows /\ B \in SUBSET rows /\ C \in SUBSET rows /\ D \in SUBSET rows
        /\ E \in SUBSET rows
    BY <1>1
  <2> HIDE DEF A, B, C, D, E
  <2>q. QED
    BY <2>1, FS_Subset DEF RunsOK
<1>3. /\ A \cap B = {} /\ (A \cup B) \cap C = {} /\ (A \cup B \cup C) \cap D = {}
      /\ (A \cup B \cup C \cup D) \cap E = {}
  BY <1>1 DEF Stopped
<1>4. A \cup B \cup C \cup D \cup E = rows
  BY <1>1 DEF RunsOK, RunOK, RunOutcomeNames
<1>5. /\ all.runs = Cardinality(rows) /\ all.running = Cardinality(A)
      /\ all.completed = Cardinality(B) /\ all.failures = Cardinality(C)
      /\ all.rejected = Cardinality(D) /\ all.stopped = Cardinality(E)
      /\ all.failedPhases = NumberBy(C, [r \in rows |-> PhaseOf(r)])
  BY DEF Summarize, EndedBy
<1> HIDE DEF A, B, C, D, E, all
<1>6. IsFiniteSet(A \cup B) /\ Cardinality(A \cup B) = Cardinality(A) + Cardinality(B)
  BY <1>2, <1>3, ApartAddUp
<1>7. /\ IsFiniteSet(A \cup B \cup C)
      /\ Cardinality(A \cup B \cup C) = Cardinality(A \cup B) + Cardinality(C)
  BY <1>2, <1>3, <1>6, ApartAddUp
<1>8. /\ IsFiniteSet(A \cup B \cup C \cup D)
      /\ Cardinality(A \cup B \cup C \cup D) = Cardinality(A \cup B \cup C) + Cardinality(D)
  BY <1>2, <1>3, <1>7, ApartAddUp
<1>9. Cardinality(rows) = Cardinality(A \cup B \cup C \cup D) + Cardinality(E)
  BY <1>2, <1>3, <1>4, <1>8, ApartAddUp
<1>10. /\ Cardinality(A) \in Nat /\ Cardinality(B) \in Nat /\ Cardinality(C) \in Nat
       /\ Cardinality(D) \in Nat /\ Cardinality(E) \in Nat
  BY <1>2, FS_CardinalityType
<1>11. Cardinality(rows)
         = Cardinality(A) + Cardinality(B) + Cardinality(C) + Cardinality(D) + Cardinality(E)
  BY <1>6, <1>7, <1>8, <1>9, <1>10
<1>12. all.failures = SumOf(all.failedPhases)
  BY <1>2, <1>5, SharesAddUp
<1>q. QED
  BY <1>5, <1>11, <1>12 DEF all

\* An install is counted under one source, and timed only when there was one to time.
LEMMA InstallsAddUp ==
  ASSUME NEW rows, RunsOK(rows)
  PROVE  LET g == ByInstall(rows)
         IN  /\ SumOf([k \in DOMAIN g |-> g[k].runs]) <= Cardinality(rows)
             /\ \A k \in DOMAIN g : /\ g[k].install.count <= g[k].runs
                                    /\ k[2] = "image" => g[k].install.count = 0
<1> DEFINE g == ByInstall(rows)
           some == Installed(rows)
           key == InstallKey(rows)
           Of(k) == KeyedBy(some, key, k)
           Time(k) == [r \in Of(k) |-> InstallTime(r)]
<1>1. some \in SUBSET rows
  BY DEF Installed
<1>2. /\ IsFiniteSet(some) /\ Cardinality(some) <= Cardinality(rows)
  BY <1>1, FS_Subset DEF RunsOK
<1>3. DOMAIN g = {key[r] : r \in some}
  BY DEF ByInstall
<1>4. ASSUME NEW k \in DOMAIN g
      PROVE  /\ g[k].runs = Cardinality(Of(k))
             /\ g[k].install.count = Cardinality(Valued(Time(k)))
  BY <1>3 DEF ByInstall, StatOf
<1>5. [k \in DOMAIN g |-> g[k].runs] = NumberBy(some, key)
  <2> HIDE DEF g, some, key
  <2>q. QED
    BY <1>3, <1>4 DEF NumberBy
<1>6. SumOf([k \in DOMAIN g |-> g[k].runs]) = Cardinality(some)
  <2> HIDE DEF g, some, key
  <2>q. QED
    BY <1>2, <1>5, SharesAddUp
<1>7. ASSUME NEW k \in DOMAIN g
      PROVE  g[k].install.count <= g[k].runs
  <2>1. Of(k) \in SUBSET some /\ Valued(Time(k)) \in SUBSET Of(k)
    BY DEF KeyedBy, Valued
  <2>2. IsFiniteSet(Of(k))
    BY <2>1, <1>2, FS_Subset
  <2> HIDE DEF Of, Time
  <2>3. Cardinality(Valued(Time(k))) <= Cardinality(Of(k))
    BY <2>1, <2>2, FS_Subset
  <2> HIDE DEF g
  <2>q. QED
    BY <1>4, <1>7, <2>3 DEF Of, Time
<1>8. ASSUME NEW k \in DOMAIN g, k[2] = "image"
      PROVE  g[k].install.count = 0
  <2>1. ASSUME NEW r \in Of(k)
        PROVE  InstallTime(r) = Null
    <3>1. r \in rows /\ key[r] = k
      BY <1>1 DEF KeyedBy
    <3>2. InstallSource(r) = "image"
      BY <3>1, <1>8 DEF InstallKey
    <3>3. r.source # "image" /\ r.install \in Int
      BY <3>1 DEF RunsOK, RunOK
    <3>4. r.install = 0
      BY <3>2, <3>3 DEF InstallSource
    <3>q. QED
      BY <3>4 DEF InstallTime
  <2>2. Valued(Time(k)) = {}
    <3> HIDE DEF Of
    <3>q. QED
      BY <2>1 DEF Valued
  <2>q. QED
    BY <1>4, <1>8, <2>2, FS_EmptySet
<1>q. QED
  BY <1>2, <1>6, <1>7, <1>8

\* The page's counts.
LEMMA PageCounted ==
  ASSUME RunsOK(page.runs)
  PROVE  Counted
<1> DEFINE rows == page.runs
<1>1. IsFiniteSet(rows)
  BY DEF RunsOK
<1>2. /\ LET all == Summarize(rows)
         IN  /\ all.runs = all.running + all.completed + all.failures + all.rejected + all.stopped
             /\ all.failures = SumOf(all.failedPhases)
      /\ Summarize(rows).runs = Cardinality(rows)
  BY OutcomesAddUp DEF Summarize
<1>3. ASSUME NEW g \in {ByAgent(rows), ByImage(rows)}
      PROVE  SumOf([k \in DOMAIN g |-> g[k].runs]) = Cardinality(rows)
  BY <1>1, GroupsAddUp DEF ByAgent, ByImage
<1>4. LET g == ByInstall(rows)
      IN  /\ SumOf([k \in DOMAIN g |-> g[k].runs]) <= Cardinality(rows)
          /\ \A k \in DOMAIN g : /\ g[k].install.count <= g[k].runs
                                 /\ k[2] = "image" => g[k].install.count = 0
  BY InstallsAddUp
<1>q. QED
  BY <1>2, <1>3, <1>4 DEF Counted

\* A bar's four parts are the ended runs of its bucket.
LEMMA BarAddsUp ==
  ASSUME NEW here, RunsOK(here)
  PROVE  EndedBy(here, {"completed"}) + EndedBy(here, {"rejected"}) + Cardinality(Failed(here))
           + Cardinality({r \in here : r.outcome \notin {"none", "completed", "rejected"}}
                           \ Failed(here))
           = Cardinality({r \in here : r.outcome # "none"})
<1> DEFINE A == {r \in here : r.outcome \in {"completed"}}
           B == {r \in here : r.outcome \in {"rejected"}}
           C == Failed(here)
           D == {r \in here : r.outcome \notin {"none", "completed", "rejected"}} \ C
           all == {r \in here : r.outcome # "none"}
<1>1. A \in SUBSET here /\ B \in SUBSET here /\ C \in SUBSET here /\ D \in SUBSET here
  BY DEF Failed
<1>2. /\ A \cap B = {} /\ (A \cup B) \cap C = {} /\ (A \cup B \cup C) \cap D = {}
      /\ A \cup B \cup C \cup D = all
  BY DEF Failed, IsFailure
<1>3. EndedBy(here, {"completed"}) = Cardinality(A) /\ EndedBy(here, {"rejected"}) = Cardinality(B)
  BY DEF EndedBy
<1> HIDE DEF A, B, C, D, all
<1>4. IsFiniteSet(A) /\ IsFiniteSet(B) /\ IsFiniteSet(C) /\ IsFiniteSet(D)
  BY <1>1, FS_Subset DEF RunsOK
<1>5. IsFiniteSet(A \cup B) /\ Cardinality(A \cup B) = Cardinality(A) + Cardinality(B)
  BY <1>2, <1>4, ApartAddUp
<1>6. /\ IsFiniteSet(A \cup B \cup C)
      /\ Cardinality(A \cup B \cup C) = Cardinality(A \cup B) + Cardinality(C)
  BY <1>2, <1>4, <1>5, ApartAddUp
<1>7. Cardinality(all) = Cardinality(A \cup B \cup C) + Cardinality(D)
  BY <1>2, <1>4, <1>6, ApartAddUp
<1>8. Cardinality(all) = Cardinality(A) + Cardinality(B) + Cardinality(C) + Cardinality(D)
  BY <1>5, <1>6, <1>7
<1>q. QED
  BY <1>3, <1>8 DEF C, D, all

\* The page's charts.
LEMMA PageCharted ==
  ASSUME RunsOK(page.runs), page.now \in Int,
         \A r \in page.runs : r.requested >= Since(page.now)
  PROVE  Charted
<1> DEFINE rows == page.runs
           now == page.now
           charts == Charts(rows, page.jobs, now)
           starts == BucketStarts(now)
           Shown(i) == charts[i].completed + charts[i].rejected + charts[i].failed
                         + charts[i].other
           In(r, i) == r.requested >= starts[i] /\ r.requested < starts[i] + BucketTime
<1>1. \A r \in rows : r.requested \in Int
  BY DEF RunsOK, RunOK
<1>2. DOMAIN charts = DOMAIN starts
  BY DEF Charts
<1>3. ASSUME NEW i \in DOMAIN starts
      PROVE  Shown(i) = Cardinality({r \in rows : r.outcome # "none" /\ In(r, i)})
  <2> DEFINE here == {r \in rows : BucketOf(r.requested, now) = i}
  <2>1. /\ charts[i].completed = EndedBy(here, {"completed"})
        /\ charts[i].rejected = EndedBy(here, {"rejected"})
        /\ charts[i].failed = Cardinality(Failed(here))
        /\ charts[i].other
             = Cardinality({r \in here : r.outcome \notin {"none", "completed", "rejected"}}
                             \ Failed(here))
    BY <1>3 DEF Charts
  <2>2. RunsOK(here)
    <3>1. here \in SUBSET rows
      OBVIOUS
    <3> HIDE DEF here
    <3>q. QED
      BY <3>1, FS_Subset DEF RunsOK
  <2>3. \A r \in rows : BucketOf(r.requested, now) = i <=> In(r, i)
    BY <1>1, <1>3, BucketsCover
  <2>4. {r \in here : r.outcome # "none"} = {r \in rows : r.outcome # "none" /\ In(r, i)}
    <3> HIDE DEF In
    <3>q. QED
      BY <2>3
  <2> HIDE DEF here, charts, In
  <2>q. QED
    BY <2>1, <2>2, <2>4, BarAddsUp
<1>4. ASSUME NEW r \in rows
      PROVE  \/ \E i \in DOMAIN starts : In(r, i)
             \/ r.requested > now
  <2>1. r.requested \in Int /\ Since(now) \in Int /\ r.requested >= Since(now)
    BY <1>1, SummaryAssumption DEF Since
  <2>2. r.requested \in Since(now) .. now => \E i \in DOMAIN starts : In(r, i)
    BY <2>1, BucketsCover
  <2> HIDE DEF In, starts
  <2>q. QED
    BY <2>1, <2>2
<1>5. \A i \in DOMAIN charts :
        Shown(i) = Cardinality({r \in rows : r.outcome # "none" /\ In(r, i)})
  BY <1>2, <1>3
<1>q. QED
  BY <1>4, <1>5, Zenon DEF Charted

\* The page's percentiles, and the runs it takes for a job's.
LEMMA PageMeasured ==
  ASSUME RunsOK(page.runs), JobsOK(page.jobs)
  PROVE  Measured
<1> DEFINE rows == page.runs
           jobs == page.jobs
           delays == [r \in rows |-> Provision(r)]
           all == Summarize(rows)
           js == JobSummary(jobs, rows)
<1>1. Ranked(delays, 50, all.provision.p50) /\ Ranked(delays, 95, all.provision.p95)
  <2>1. ASSUME NEW r \in rows
        PROVE  Provision(r) \in Int
    <3>1. r.requested \in Int /\ r.started \in Int
      BY DEF RunsOK, RunOK
    <3>q. QED
      BY <3>1 DEF Provision, TimeSpan, Null
  <2>2. DOMAIN delays = rows /\ IsFiniteSet(rows) /\ \A r \in rows : delays[r] \in Int
    BY <2>1 DEF RunsOK
  <2>3. LET n == Cardinality(Valued(delays))
        IN  /\ all.provision.p50 = PercentileOf(Sorted(delays), n, 50)
            /\ all.provision.p95 = PercentileOf(Sorted(delays), n, 95)
    BY DEF Summarize, StatOf
  <2> HIDE DEF delays, all
  <2>q. QED
    BY <2>2, <2>3, PercentilesRight
<1>2. js.dispatch.count <= Cardinality(jobs)
  <2> DEFINE Ran(j) == CHOOSE r \in RanBy(j, rows) : TRUE
             Known == {j \in jobs : RanBy(j, rows) # {}}
             waits == [j \in Known |-> TimeSpan(j.seen, Ran(j).requested)]
  <2>1. js.dispatch.count = Cardinality(Valued(waits))
    BY DEF JobSummary, StatOf
  <2>2. Valued(waits) \in SUBSET jobs
    BY DEF Valued
  <2> HIDE DEF waits, js
  <2>q. QED
    BY <2>1, <2>2, FS_Subset DEF JobsOK
<1>3. ASSUME NEW j \in jobs, NEW k \in jobs, RanBy(j, rows) = RanBy(k, rows), j # k
      PROVE  RanBy(j, rows) = {} \/ j.named # 0 \/ k.named # 0
  <2> SUFFICES ASSUME NEW r \in RanBy(j, rows), j.named = 0, k.named = 0
               PROVE  FALSE
    OBVIOUS
  <2>1. \A q \in rows : q.name # 0
    BY DEF RunsOK, RunOK
  <2>2. r.job = j.job
    BY <2>1 DEF RanBy
  <2>3. r.job = k.job
    BY <2>1, <1>3 DEF RanBy
  <2>q. QED
    BY <2>2, <2>3, <1>3 DEF JobsOK
<1>q. QED
  BY <1>1, <1>2, <1>3 DEF Measured

\* What SummaryRight rests on: rows are written once, the jobs numbered apart, and a load keeps the
\* clock it asked with.
SummaryInv ==
  /\ time \in Nat /\ RunsOK(runRows)
  /\ JobsOK(jobRows) /\ \A j \in jobRows : j.job \in 1 .. Cardinality(jobRows)
  /\ page.at \in {"none", "runs", "jobs", "shown"}
  /\ page.at # "none" => page.now \in Int
  /\ page.at \in {"jobs", "shown"} =>
       RunsOK(page.runs) /\ \A r \in page.runs : r.requested >= Since(page.now)
  /\ page.at = "shown" => JobsOK(page.jobs)

\* Nothing is written yet, and no page asked for.
LEMMA SummaryInitHolds == SummaryInit => SummaryInv
<1> SUFFICES ASSUME SummaryInit PROVE SummaryInv
  OBVIOUS
<1>1. IsFiniteSet({})
  BY FS_EmptySet
<1>q. QED
  BY <1>1, SummaryAssumption DEF SummaryInit, SummaryInv, RunsOK, JobsOK

\* What a run may look like.
LEMMA ShapeThere ==
  ASSUME NEW s \in RunShapes
  PROVE  /\ s.outcome \in RunOutcomeNames /\ s.source # "image"
         /\ s.delay \in Int /\ s.install \in Int
<1>1. Null \in Int /\ -1 \in Int /\ 0 \in Int /\ 1 \in Int /\ 2 \in Int
  BY DEF Null
<1>2. \E outcome, delay, image, source, install, phase :
        /\ s = RunShape(outcome, delay, image, source, install, phase)
        /\ outcome \in {"none", "rejected", "failed", "completed", "idled"}
        /\ source \in {"", "hit"} /\ delay \in Int /\ install \in Int
  BY <1>1, Zenon DEF RunShapes
<1>3. PICK outcome, delay, image, source, install, phase :
        /\ s = RunShape(outcome, delay, image, source, install, phase)
        /\ outcome \in {"none", "rejected", "failed", "completed", "idled"}
        /\ source \in {"", "hit"} /\ delay \in Int /\ install \in Int
  BY <1>2, Zenon
<1>4. s.outcome = outcome /\ s.source = source /\ s.delay = delay /\ s.install = install
  BY <1>3 DEF RunShape
<1>q. QED
  BY <1>3, <1>4 DEF RunOutcomeNames, Stopped

\* A run is written.
LEMMA RunWrittenKeeps ==
  ASSUME SummaryInv, RunWritten
  PROVE  SummaryInv'
<1>1. PICK r : runRows' = runRows \cup {r} /\ RunOK(r)
  <2>1. PICK a \in RunAgents, s \in RunShapes :
          \E j \in IF s.outcome = "completed" THEN 0 .. MaxJobRows ELSE {0} :
            runRows' = runRows \cup {
              [name |-> Cardinality(runRows) + 1, agent |-> a, image |-> s.image, job |-> j,
               outcome |-> s.outcome, requested |-> time,
               started |-> IF s.delay = Null THEN Null ELSE time + s.delay,
               source |-> s.source, install |-> s.install, phase |-> s.phase]}
    BY DEF RunWritten
  <2>2. PICK j :
          runRows' = runRows \cup {
            [name |-> Cardinality(runRows) + 1, agent |-> a, image |-> s.image, job |-> j,
             outcome |-> s.outcome, requested |-> time,
             started |-> IF s.delay = Null THEN Null ELSE time + s.delay,
             source |-> s.source, install |-> s.install, phase |-> s.phase]}
    BY <2>1
  <2> DEFINE r == [name |-> Cardinality(runRows) + 1, agent |-> a, image |-> s.image, job |-> j,
                   outcome |-> s.outcome, requested |-> time,
                   started |-> IF s.delay = Null THEN Null ELSE time + s.delay,
                   source |-> s.source, install |-> s.install, phase |-> s.phase]
  <2>3. Cardinality(runRows) \in Nat /\ time \in Nat
    BY FS_CardinalityType DEF SummaryInv, RunsOK
  <2>4. /\ s.outcome \in RunOutcomeNames /\ s.source # "image"
        /\ s.delay \in Int /\ s.install \in Int
    BY ShapeThere
  <2>5. RunOK(r)
    BY <2>3, <2>4 DEF RunOK, Null
  <2> HIDE DEF r
  <2>q. QED
    BY <2>2, <2>5 DEF r
<1>2. RunsOK(runRows')
  BY <1>1, FS_AddElement DEF SummaryInv, RunsOK
<1>q. QED
  BY <1>2 DEF RunWritten, SummaryInv

\* A job is written.
LEMMA JobWrittenKeeps ==
  ASSUME SummaryInv, JobWritten
  PROVE  SummaryInv'
<1> DEFINE n == Cardinality(jobRows)
<1>1. PICK j : jobRows' = jobRows \cup {j} /\ j.job = n + 1
  <2>1. PICK s \in JobShapes :
          jobRows' = jobRows \cup {
            [job |-> n + 1, outcome |-> s.outcome, queued |-> time - s.early, seen |-> time,
             started |-> IF s.wait = Null THEN Null ELSE time + s.wait, named |-> s.named]}
    BY DEF JobWritten
  <2> DEFINE j == [job |-> n + 1, outcome |-> s.outcome, queued |-> time - s.early, seen |-> time,
                   started |-> IF s.wait = Null THEN Null ELSE time + s.wait, named |-> s.named]
  <2>2. jobRows' = jobRows \cup {j} /\ j.job = n + 1
    BY <2>1
  <2> HIDE DEF j
  <2>q. QED
    BY <2>2
<1>2. IsFiniteSet(jobRows) /\ n \in Nat /\ \A k \in jobRows : k.job \in 1 .. n
  BY FS_CardinalityType DEF SummaryInv, JobsOK
<1>3. j \notin jobRows
  BY <1>1, <1>2
<1>4. IsFiniteSet(jobRows') /\ Cardinality(jobRows') = n + 1
  BY <1>1, <1>2, <1>3, FS_AddElement
<1>5. \A k \in jobRows' : k.job \in 1 .. Cardinality(jobRows')
  BY <1>1, <1>2, <1>4
<1>6. \A k, l \in jobRows' : k.job = l.job => k = l
  BY <1>1, <1>2 DEF SummaryInv, JobsOK
<1>q. QED
  BY <1>4, <1>5, <1>6 DEF JobWritten, SummaryInv, JobsOK

\* The rows read are some of those there are.
LEMMA LoadKeeps ==
  ASSUME SummaryInv, LoadRuns \/ LoadJobs
  PROVE  SummaryInv'
<1>1. CASE LoadRuns
  <2>1. PICK rows \in {{r \in runRows : r.requested >= Since(page.now)}, {}} :
          page' = [at |-> "jobs", now |-> page.now, runs |-> rows]
    BY <1>1 DEF LoadRuns
  <2>2. rows \in SUBSET runRows /\ \A r \in rows : r.requested >= Since(page.now)
    BY <2>1
  <2>3. RunsOK(rows)
    BY <2>2, FS_Subset DEF SummaryInv, RunsOK
  <2>4. page'.at = "jobs" /\ page'.now = page.now /\ page'.runs = rows
    BY <2>1
  <2>q. QED
    BY <1>1, <2>2, <2>3, <2>4 DEF LoadRuns, SummaryInv
<1>2. CASE LoadJobs
  <2> DEFINE jobs == {j \in jobRows : j.seen >= Since(page.now)}
  <2>1. jobs \in SUBSET jobRows
    OBVIOUS
  <2>2. page'.at = "shown" /\ page'.now = page.now /\ page'.runs = page.runs /\ page'.jobs = jobs
    BY <1>2 DEF LoadJobs
  <2> HIDE DEF jobs
  <2>3. JobsOK(jobs)
    BY <2>1, FS_Subset DEF SummaryInv, JobsOK
  <2>q. QED
    BY <1>2, <2>2, <2>3 DEF LoadJobs, SummaryInv
<1>q. QED
  BY <1>1, <1>2

\* No step spoils it.
LEMMA SummaryNextKeeps ==
  ASSUME SummaryInv, [SummaryNext]_sumVars
  PROVE  SummaryInv'
<1>1. CASE Clock
  BY <1>1 DEF Clock, SummaryInv
<1>2. CASE AskPage
  BY <1>2 DEF AskPage, SummaryInv
<1>3. CASE UNCHANGED sumVars
  BY <1>3 DEF sumVars, SummaryInv
<1>q. QED
  BY <1>1, <1>2, <1>3, RunWrittenKeeps, JobWrittenKeeps, LoadKeeps DEF SummaryNext

\* SummaryRight of any agents, window and numbers of rows: whatever is written while the metrics
\* page loads, its counts share out the runs it read, its bars stand for the ended ones of their
\* stretches of time, and its percentiles are of the ranks they are shown for (summarize,
\* by_install, jobs, charts).
THEOREM SummaryHolds == SummarySpec => []SummaryRight
<1>1. SummaryInit => SummaryInv
  BY SummaryInitHolds
<1>2. SummaryInv /\ [SummaryNext]_sumVars => SummaryInv'
  BY SummaryNextKeeps
<1>3. SummaryInv => SummaryRight
  BY PageCounted, PageCharted, PageMeasured DEF SummaryInv, SummaryRight
<1>q. QED
  BY <1>1, <1>2, <1>3, PTL DEF SummarySpec
=============================================================================
