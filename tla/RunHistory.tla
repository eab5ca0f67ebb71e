------------------------------ MODULE RunHistory ------------------------------
(***************************************************************************)
(* The run history of one job and the runners tried for it: the two tables *)
(* behind the metrics page, the writers that race for their rows (webhooks *)
(* in any order, the pending queue, the passes, the agents' events), and   *)
(* the clock an agent times a runner's steps with.                         *)
(***************************************************************************)
EXTENDS Naturals, FiniteSets, Sequences

CONSTANT Attempts \* the runners tried for the job

RunSteps == {"create", "boot", "setup", "install", "job", "destroy"}

VARIABLES
  pending,      \* the job is in the pending queue
  taken,        \* at the forge: a runner has taken the job, ours or another
  ended,        \* at the forge: "no", "success", "cancelled"
  jobRow,       \* the outcome in the job's row, "none" at first, "missing" without a row
  heard,        \* what a write has said of the job since its row is there
  runRow,       \* NoRow or the row of each attempt
  first,        \* the outcome first written to that row, "none" before
  runRecord,    \* the attempt has a runner record
  teardown,     \* what the coordinator destroyed it for: "no", "idled", "drained", "late"
  createAnswer, \* the create command: "none", "awaited", "given"
  clock,        \* the agent's clock for the attempt
  events        \* the agent's events on their way, in order

historyVars == <<pending, taken, ended, jobRow, heard, runRow, first, runRecord,
                 teardown, createAnswer, clock, events>>

webhookVars == <<taken, ended>>
jobVars == <<pending, jobRow, heard>>
runVars == <<runRow, first>>
eventVars == <<createAnswer, clock, events>>
careVars == <<runRecord, teardown>>

NoRow == [missing |-> TRUE]
NoSteps == [s \in {} |-> "timed"]

\* A new runner row: of its columns, the ones that are not filled in once and for all.
NewRunner == [outcome |-> "none", failed |-> "none", steps |-> NoSteps]

\* The clock before its runner is there, and when it starts.
NoClock == [on |-> FALSE, step |-> "none", failing |-> FALSE, failed |-> "none",
            steps |-> NoSteps]
NewClock == [NoClock EXCEPT !.on = TRUE, !.step = "create"]

HistoryInit ==
  /\ pending = FALSE /\ taken = FALSE /\ ended = "no"
  /\ jobRow = "missing" /\ heard = {}
  /\ runRow = [a \in Attempts |-> NoRow] /\ first = [a \in Attempts |-> "none"]
  /\ runRecord = [a \in Attempts |-> FALSE] /\ teardown = [a \in Attempts |-> "no"]
  /\ createAnswer = [a \in Attempts |-> "none"] /\ clock = [a \in Attempts |-> NoClock]
  /\ events = [a \in Attempts |-> <<>>]

-----------------------------------------------------------------------------
(* The statements: each updates a row that is there, or nothing *)

\* A write of the job's row is best effort: it may be lost.
JobWrite(outcome, said) ==
  \/ jobRow # "missing" /\ jobRow' = outcome /\ heard' = heard \cup said
  \/ UNCHANGED <<jobRow, heard>>

JobStarted == IF jobRow = "cancelled" THEN jobRow ELSE "ran"

JobCompleted(conclusion) ==
  IF conclusion = "cancelled" THEN "cancelled" ELSE IF jobRow = "none" THEN "ran" ELSE jobRow

JobEnded(outcome) ==
  IF outcome = "ran" /\ jobRow # "cancelled" THEN "ran"
  ELSE IF jobRow = "none" THEN outcome ELSE jobRow

\* Removing the job from the queue writes why.
RemoveJob(outcome) ==
  /\ pending' = FALSE
  /\ JobWrite(JobEnded(outcome), IF outcome = "ran" THEN {"ran"} ELSE {})

RunWrite(a, row) ==
  runRow' = IF runRow[a] = NoRow THEN runRow ELSE [runRow EXCEPT ![a] = row]

\* Only the first end counts.
FinishOnce(row, outcome) == IF row.outcome = "none" THEN [row EXCEPT !.outcome = outcome] ELSE row

\* The write may be lost.
Finish(a, outcome) ==
  \/ /\ runRow[a] # NoRow
     /\ RunWrite(a, FinishOnce(runRow[a], outcome))
     /\ first' = IF first[a] = "none" THEN [first EXCEPT ![a] = outcome] ELSE first
  \/ UNCHANGED runVars

\* How the steps went that are in new or, if not there, in old.
Joined(new, old) ==
  [s \in DOMAIN new \cup DOMAIN old |-> IF s \in DOMAIN new THEN new[s] ELSE old[s]]

\* Timings merge into what is there.
Timed(row, timings) ==
  [row EXCEPT !.failed = IF timings.failed = "none" THEN @ ELSE timings.failed,
              !.steps = Joined(timings.steps, @)]

-----------------------------------------------------------------------------
(* The forge and its webhooks *)

TakeJob ==
  /\ ~taken /\ ended = "no" /\ taken' = TRUE
  /\ UNCHANGED <<ended, jobVars, runVars, eventVars, careVars>>

EndJobRow(conclusion) ==
  /\ ended = "no" /\ ended' = conclusion
  /\ conclusion = "success" => taken
  /\ UNCHANGED <<taken, jobVars, runVars, eventVars, careVars>>

\* A queued webhook or a scan: the job is stored, then seen.
JobSeen ==
  /\ ~pending /\ pending' = TRUE
  /\ jobRow' \in {IF jobRow = "missing" THEN "none" ELSE jobRow, jobRow}
  /\ UNCHANGED <<heard, webhookVars, runVars, eventVars, careVars>>

\* A webhook may be delivered late, and again.
HookInProgress ==
  /\ taken /\ JobWrite(JobStarted, {"ran"})
  /\ UNCHANGED <<pending, webhookVars, runVars, eventVars, careVars>>

HookCompleted ==
  /\ ended # "no"
  /\ JobWrite(JobCompleted(ended), IF ended = "cancelled" THEN {"cancelled"} ELSE {})
  /\ UNCHANGED <<pending, webhookVars, runVars, eventVars, careVars>>

-----------------------------------------------------------------------------
(* The coordinator *)

\* The webhook's message to the fleet manager, which takes it later, or in the next delivery's.
FleetJobCompleted ==
  /\ ended # "no" /\ RemoveJob("ran")
  /\ UNCHANGED <<webhookVars, runVars, eventVars, careVars>>

\* The forge no longer has the job queued, or it is too old to be asked about.
VerifyGone ==
  /\ pending /\ RemoveJob("gone")
  /\ UNCHANGED <<webhookVars, runVars, eventVars, careVars>>

RequestRunner(a) ==
  /\ pending /\ createAnswer[a] = "none"
  /\ createAnswer' = [createAnswer EXCEPT ![a] = "awaited"]
  /\ runRecord' = [runRecord EXCEPT ![a] = TRUE]
  /\ \/ runRow' = [runRow EXCEPT ![a] = NewRunner]
     \/ UNCHANGED runRow
  /\ UNCHANGED <<jobVars, webhookVars, first, teardown, clock, events>>

Answered(a) == createAnswer[a] = "awaited" /\ createAnswer' = [createAnswer EXCEPT ![a] = "given"]

Accepted(a) ==
  /\ Answered(a) /\ clock[a].on
  /\ UNCHANGED <<runVars, jobVars, webhookVars, clock, events, careVars>>

Rejected(a) ==
  /\ Answered(a) /\ ~clock[a].on
  /\ Finish(a, "rejected") /\ runRecord' = [runRecord EXCEPT ![a] = FALSE]
  /\ UNCHANGED <<jobVars, webhookVars, clock, events, teardown>>

\* No usable answer: the agent may have the runner all the same.
CommandFails(a) ==
  /\ Answered(a) /\ Finish(a, "command_failed") /\ runRecord' = [runRecord EXCEPT ![a] = FALSE]
  /\ \/ pending /\ RemoveJob("abandoned")
     \/ UNCHANGED <<pending, jobRow, heard>>
  /\ UNCHANGED <<webhookVars, clock, events, teardown>>

Destroy(a, why) ==
  /\ runRecord[a] /\ teardown[a] = "no" /\ why \in {"idled", "drained"}
  /\ teardown' = [teardown EXCEPT ![a] = why]
  /\ UNCHANGED <<runRecord, jobVars, webhookVars, runVars, eventVars>>

\* Its VM was gone when the agent came back.
Recover(a) ==
  /\ runRecord[a] /\ Finish(a, "lost") /\ runRecord' = [runRecord EXCEPT ![a] = FALSE]
  /\ UNCHANGED <<teardown, jobVars, webhookVars, eventVars>>

-----------------------------------------------------------------------------
(* The agent's clock *)

\* End the current step and start another; a failed one has no duration.
NextStep(c, step) ==
  [c EXCEPT !.steps = IF c.failing \/ c.step = "none" THEN @
                     ELSE Joined([s \in {c.step} |-> "timed"], @),
            !.step = step, !.failing = FALSE]

Skip(c, step) == [c EXCEPT !.steps = Joined(@, [s \in {step} |-> "skipped"])]

Without(steps, step) == [s \in DOMAIN steps \ {step} |-> steps[s]]

\* Mutant of FailedStep: an earlier stint of the failed step stays as its time.
FailedStepKept(steps, step) == steps

\* The step failed: no earlier stint of it is its duration either.
FailedStep(steps, step) == Without(steps, step)

FailRun(c) ==
  IF c.step = "none" \/ c.failed # "none" THEN [c EXCEPT !.failing = TRUE]
  ELSE [c EXCEPT !.failing = TRUE, !.failed = c.step, !.steps = FailedStep(@, c.step)]

Tick(a, c) == clock' = [clock EXCEPT ![a] = c]
Send(a, type, timings) ==
  events' = [events EXCEPT ![a] = Append(@, [type |-> type, timings |-> timings])]
AgentOnly == UNCHANGED <<createAnswer, jobVars, webhookVars, runVars, careVars>>

\* The create command reaches the agent, answered or not.
CreateRunner(a) ==
  /\ createAnswer[a] = "awaited" /\ ~clock[a].on /\ Tick(a, NewClock)
  /\ UNCHANGED events /\ AgentOnly

\* The VM's creation failed, or it was destroyed meanwhile.
CreateRunFails(a) ==
  LET c == FailRun(clock[a])
  IN /\ clock[a].step = "create" /\ Tick(a, [c EXCEPT !.step = "none"])
     /\ Send(a, "failed", c) /\ AgentOnly

\* Created, booted, installed: the job's steps before it starts.
Move(a) ==
  LET c == clock[a]
  IN /\ \/ c.step = "create" /\ Tick(a, NextStep(c, "boot"))
        \/ c.step = "boot" /\ Tick(a, NextStep(c, "setup"))
        \/ c.step = "setup" /\ "install" \notin DOMAIN c.steps
           /\ \/ Tick(a, NextStep(c, "install"))
              \/ Tick(a, Skip(c, "install"))
        \/ c.step = "install" /\ Tick(a, NextStep(c, "setup"))
     /\ UNCHANGED events /\ AgentOnly

RunnerStarted(a) ==
  LET c == NextStep(clock[a], "job")
  IN /\ clock[a].step = "setup" /\ "install" \in DOMAIN clock[a].steps
     /\ Tick(a, c) /\ Send(a, "started", c) /\ AgentOnly

\* The run is over, at any step, and its VM is destroyed, or not.
RunEnds(a, ok, destroyed) ==
  LET run == IF ok THEN clock[a] ELSE FailRun(clock[a])
      out == NextStep(run, "destroy")
      end == NextStep(IF destroyed THEN out ELSE FailRun(out), "none")
  IN /\ clock[a].step \in {"boot", "setup", "install", "job"}
     /\ ok => clock[a].step = "job"
     /\ Tick(a, end) /\ Send(a, IF ok THEN "completed" ELSE "failed", end) /\ AgentOnly

\* A DestroyRunner's own answer carries no timings.
DestroyReported(a, type) ==
  /\ teardown[a] # "no" /\ clock[a].on /\ clock[a].step = "none" /\ Len(events[a]) <= 1
  /\ type \in {"destroyed", "failed"} /\ \A i \in DOMAIN events[a] : events[a][i].type # type
  /\ Send(a, type, NoClock) /\ UNCHANGED clock /\ AgentOnly

-----------------------------------------------------------------------------
(* The coordinator and the agent's events *)

\* How an event says the runner ended.
Outcome(a, type) ==
  IF teardown[a] = "idled" THEN "idled"
  ELSE IF type = "completed" THEN "completed"
  ELSE IF teardown[a] = "drained" /\ runRecord[a] THEN "drained"
  ELSE IF type = "failed" THEN "failed" ELSE "lost"

\* What the event does to the job: a completed one is checked at the forge.
JobAfter(type) ==
  \/ type = "completed" /\ (taken \/ ended # "no") /\ RemoveJob("ran")
  \/ type # "completed" /\ pending /\ RemoveJob("abandoned")
  \/ UNCHANGED <<pending, jobRow, heard>>

\* The row once the event's timings are in, or were not written.
Timings(a, timings) ==
  IF timings = NoClock \/ runRow[a] = NoRow THEN {runRow[a]}
  ELSE {runRow[a], Timed(runRow[a], timings)}

\* The event at the head of the attempt's lane; row is its row with the timings.
RunEvent(a, row, types) ==
  /\ events[a] # <<>> /\ events' = [events EXCEPT ![a] = Tail(@)]
  /\ Head(events[a]).type \in types /\ row \in Timings(a, Head(events[a]).timings)
  /\ UNCHANGED <<webhookVars, createAnswer, clock>>

EventStarted(a) ==
  /\ events[a] # <<>>
  /\ \E row \in Timings(a, Head(events[a]).timings) :
       RunEvent(a, row, {"started"}) /\ RunWrite(a, row)
  /\ UNCHANGED <<first, pending, jobRow, heard, careVars>>

\* After an idle runner's tear-down, or a confirmation of one that is recorded.
EventIgnored(a) ==
  /\ events[a] # <<>>
  /\ \/ teardown[a] = "late"
     \/ ~runRecord[a] /\ teardown[a] # "idled" /\ Head(events[a]).type = "destroyed"
  /\ \E row \in Timings(a, Head(events[a]).timings) :
       RunEvent(a, row, {"completed", "failed", "destroyed"}) /\ RunWrite(a, row)
  /\ UNCHANGED <<first, pending, jobRow, heard, careVars>>

EventEnds(a) ==
  LET type == Head(events[a]).type
      outcome == Outcome(a, type)
  IN /\ events[a] # <<>> /\ teardown[a] # "late"
     /\ runRecord[a] \/ teardown[a] = "idled" \/ type # "destroyed"
     /\ \E row \in Timings(a, Head(events[a]).timings) :
          /\ RunEvent(a, row, {"completed", "failed", "destroyed"})
          /\ \/ RunWrite(a, row) /\ UNCHANGED first
             \/ /\ row # NoRow /\ RunWrite(a, FinishOnce(row, outcome))
                /\ first' = [first EXCEPT ![a] = IF @ = "none" THEN outcome ELSE @]
     /\ runRecord' = [runRecord EXCEPT ![a] = FALSE]
     /\ teardown' = [teardown EXCEPT ![a] = IF @ = "idled" THEN "late"
                                            ELSE IF runRecord[a] THEN "no" ELSE @]
     /\ IF runRecord[a] /\ teardown[a] # "idled" THEN JobAfter(type)
        ELSE UNCHANGED <<pending, jobRow, heard>>

\* Rows past their retention are deleted.
PruneRuns ==
  /\ runRow' = [a \in Attempts |-> NoRow] /\ first' = [a \in Attempts |-> "none"]
  /\ \/ jobRow' = "missing" /\ heard' = {}
     \/ UNCHANGED <<jobRow, heard>>
  /\ UNCHANGED <<pending, webhookVars, eventVars, careVars>>

HistoryNext ==
  \/ TakeJob
  \/ \E conclusion \in {"success", "cancelled"} : EndJobRow(conclusion)
  \/ JobSeen \/ HookInProgress \/ HookCompleted \/ FleetJobCompleted \/ VerifyGone
  \/ PruneRuns
  \/ \E a \in Attempts :
       \/ RequestRunner(a) \/ Accepted(a) \/ Rejected(a) \/ CommandFails(a) \/ Recover(a)
       \/ CreateRunner(a) \/ CreateRunFails(a) \/ Move(a) \/ RunnerStarted(a)
       \/ EventStarted(a) \/ EventIgnored(a) \/ EventEnds(a)
       \/ \E why \in {"idled", "drained"} : Destroy(a, why)
       \/ \E ok, destroyed \in BOOLEAN : RunEnds(a, ok, destroyed)
       \/ \E type \in {"destroyed", "failed"} : DestroyReported(a, type)

HistorySpec == HistoryInit /\ [][HistoryNext]_historyVars

-----------------------------------------------------------------------------
(* Properties *)

\* Whatever order the webhooks, the queue's removals and the events are written in: once a
\* write said the job was cancelled its row says so, and once one said a runner took or
\* finished it, its row says ran, never gone or abandoned.
OutcomeTold ==
  /\ "cancelled" \in heard => jobRow = "cancelled"
  /\ heard = {"ran"} => jobRow = "ran"

\* A row keeps the first end written for its runner, though more events follow it, and never
\* gives a time for the step its runner failed at, though timings merge into it twice.
RunHonest ==
  \A a \in Attempts : runRow[a] # NoRow =>
    /\ first[a] # "none" => runRow[a].outcome = first[a]
    /\ runRow[a].failed \notin DOMAIN runRow[a].steps

\* Both: the page tells of every job and runner what was first known of its end.
HistoryHonest == OutcomeTold /\ RunHonest

=============================================================================
