------------------------------ MODULE Summary ------------------------------
(***************************************************************************)
(* The metrics page. A load reads the clock, then the runs requested since *)
(* the start of the window, then the jobs seen since, while the history    *)
(* goes on being written, and works its numbers out from the rows it got:  *)
(* counts per group, percentiles, buckets of the charts.                   *)
(***************************************************************************)
EXTENDS Integers, FiniteSets, Functions

CONSTANTS
  RunAgents,   \* agents the runs were asked of
  WindowTime,  \* Range::duration_ms
  BucketTime,  \* Range::bucket_ms
  MaxTime,     \* bound: time of the last row
  MaxRunRows,  \* bound: runs in the history
  MaxJobRows   \* bound: jobs in the history

ASSUME SummaryAssumption ==
  /\ BucketTime \in Nat \ {0} /\ WindowTime \in Nat /\ WindowTime % BucketTime = 0
  /\ {MaxTime, MaxRunRows, MaxJobRows} \subseteq Nat

VARIABLES
  time,    \* the clock
  runRows, \* runner_runs: a set of rows, named in the order they were written
  jobRows, \* job_runs
  page     \* a load of the page: its clock, and the rows it has got

sumVars == <<time, runRows, jobRows, page>>

Null == -9 \* a time or a duration that isn't there

IsFailure(o) == o \in {"failed", "lost", "command_failed"}
Stopped == {"idled", "drained", "destroyed"}

\* How a run looks once it is over, or so far: when it started after its request (the clock may
\* have been set back), its image and where the runner came from if the agent is new enough to
\* say, how long the install took, the step it failed in.
RunShape(outcome, delay, image, source, install, phase) ==
  [outcome |-> outcome, delay |-> delay, image |-> image, source |-> source, install |-> install,
   phase |-> phase]
RunShapes ==
  {RunShape("rejected", Null, "", "", Null, ""), RunShape("failed", Null, "", "", Null, ""),
   RunShape("failed", Null, "image", "hit", Null, "install"),
   RunShape("completed", 1, "image", "hit", 1, ""), RunShape("completed", -1, "image", "", 0, ""),
   RunShape("completed", 2, "", "", 2, ""), RunShape("idled", 1, "image", "", 0, ""),
   RunShape("none", Null, "", "", Null, "")}

\* Why a job left, when it was queued before it was seen, and taken after; the runner the forge
\* named.
JobShape(outcome, early, wait, named) ==
  [outcome |-> outcome, early |-> early, wait |-> wait, named |-> named]
JobShapes == {JobShape("none", 1, Null, 0), JobShape("ran", 0, 2, 1), JobShape("ran", 1, 2, 0)}

SummaryInit == time = WindowTime /\ runRows = {} /\ jobRows = {} /\ page = [at |-> "none"]

Clock == time < MaxTime /\ time' = time + 1 /\ UNCHANGED <<runRows, jobRows, page>>

RunWritten ==
  /\ Cardinality(runRows) < MaxRunRows
  /\ \E a \in RunAgents, s \in RunShapes :
     \E j \in IF s.outcome = "completed" THEN 0 .. MaxJobRows ELSE {0} :
       runRows' = runRows \cup {
         [name |-> Cardinality(runRows) + 1, agent |-> a, image |-> s.image, job |-> j,
          outcome |-> s.outcome, requested |-> time,
          started |-> IF s.delay = Null THEN Null ELSE time + s.delay,
          source |-> s.source, install |-> s.install, phase |-> s.phase]}
  /\ UNCHANGED <<time, jobRows, page>>

JobWritten ==
  /\ Cardinality(jobRows) < MaxJobRows
  /\ \E s \in JobShapes :
       jobRows' = jobRows \cup {
         [job |-> Cardinality(jobRows) + 1, outcome |-> s.outcome, queued |-> time - s.early,
          seen |-> time, started |-> IF s.wait = Null THEN Null ELSE time + s.wait,
          named |-> s.named]}
  /\ UNCHANGED <<time, runRows, page>>

\* metrics_page: the window is fixed before the rows are read; a read that fails gives none.
Since(now) == now - WindowTime
AskPage ==
  /\ page.at = "none" /\ page' = [at |-> "runs", now |-> time]
  /\ UNCHANGED <<time, runRows, jobRows>>
LoadRuns ==
  /\ page.at = "runs"
  /\ \E runs \in {{r \in runRows : r.requested >= Since(page.now)}, {}} :
       page' = [at |-> "jobs", now |-> page.now, runs |-> runs]
  /\ UNCHANGED <<time, runRows, jobRows>>
LoadJobs ==
  /\ page.at = "jobs"
  /\ page' = [at |-> "shown", now |-> page.now, runs |-> page.runs,
               jobs |-> {j \in jobRows : j.seen >= Since(page.now)}]
  /\ UNCHANGED <<time, runRows, jobRows>>

SummaryNext == \/ Clock \/ RunWritten \/ JobWritten \/ AskPage \/ LoadRuns \/ LoadJobs

SummarySpec == SummaryInit /\ [][SummaryNext]_sumVars

-----------------------------------------------------------------------------
(* The numbers. *)

\* span: none when an end is missing, or when it would be negative.
TimeSpan(from, to) == IF Null \in {from, to} \/ to < from THEN Null ELSE to - from

\* percentile: nearest rank, of 100.
PercentileOf(sorted, n, p) ==
  LET rank == (p * n + 99) \div 100
  IN IF n = 0 THEN Null
     ELSE sorted[IF rank < 1 THEN 1 ELSE IF rank > n THEN n ELSE rank]

\* Values sorted: the rows that have one, in an order that never goes down.
Valued(values) == {r \in DOMAIN values : values[r] # Null}
IsOrder(order, values) == \A i, k \in DOMAIN order : i <= k => values[order[i]] <= values[order[k]]
Sorted(values) ==
  LET n == Cardinality(Valued(values))
      order == CHOOSE o \in Bijection(1 .. n, Valued(values)) : IsOrder(o, values)
  IN [i \in 1 .. n |-> values[order[i]]]
StatOf(values) == LET n == Cardinality(Valued(values)) IN
  [count |-> n, p50 |-> PercentileOf(Sorted(values), n, 50),
   p95 |-> PercentileOf(Sorted(values), n, 95)]

Provision(r) == TimeSpan(r.requested, r.started)
PhaseOf(r) == IF r.phase = "" THEN "unknown" ELSE r.phase

\* Rows by a key, and what each key's are counted as.
KeyedBy(rows, key, k) == {r \in rows : key[r] = k}
NumberBy(rows, key) == [k \in {key[r] : r \in rows} |-> Cardinality(KeyedBy(rows, key, k))]

\* summarize: one pass over a group's runs.
EndedBy(runs, outcomes) == Cardinality({r \in runs : r.outcome \in outcomes})
Failed(runs) == {r \in runs : IsFailure(r.outcome)}
Summarize(runs) ==
  [runs |-> Cardinality(runs),
   running |-> EndedBy(runs, {"none"}), completed |-> EndedBy(runs, {"completed"}),
   rejected |-> EndedBy(runs, {"rejected"}), stopped |-> EndedBy(runs, Stopped),
   failures |-> Cardinality(Failed(runs)),
   failedPhases |-> NumberBy(Failed(runs), [r \in runs |-> PhaseOf(r)]),
   provision |-> StatOf([r \in runs |-> Provision(r)])]

\* group_runs; by_agent and by_image. An older agent's image is its runner's labels.
GroupRuns(runs, key) == [k \in {key[r] : r \in runs} |-> Summarize(KeyedBy(runs, key, k))]
ImageKey(r) == IF r.image = "" THEN "labels" ELSE r.image
ByAgent(runs) == GroupRuns(runs, [r \in runs |-> r.agent])
ByImage(runs) == GroupRuns(runs, [r \in runs |-> ImageKey(r)])

InstallSource(r) ==
  IF r.source # "" THEN r.source
  ELSE CASE r.install = Null -> "" [] r.install = 0 -> "image" [] OTHER -> "not_recorded"
Installed(runs) == {r \in runs : InstallSource(r) # ""}
InstallKey(runs) == [r \in runs |-> <<ImageKey(r), InstallSource(r)>>]
InstallTime(r) == IF r.install > 0 THEN r.install ELSE Null
ByInstall(runs) ==
  LET Of(k) == KeyedBy(Installed(runs), InstallKey(runs), k)
  IN [k \in {InstallKey(runs)[r] : r \in Installed(runs)} |->
        [runs |-> Cardinality(Of(k)), install |-> StatOf([r \in Of(k) |-> InstallTime(r)])]]

\* jobs: the run that ran a job is the one the forge named, or the last that completed it, if any.
RanBy(j, runs) ==
  LET named == {r \in runs : r.name = j.named}
      completed == {r \in runs : r.job = j.job /\ r.outcome = "completed"}
  IN IF named # {} THEN named ELSE {r \in completed : \A q \in completed : q.name <= r.name}
JobSummary(jobs, runs) ==
  LET Ran(j) == CHOOSE r \in RanBy(j, runs) : TRUE
      Known == {j \in jobs : RanBy(j, runs) # {}}
  IN [pending |-> EndedBy(jobs, {"none"}), ran |-> EndedBy(jobs, {"ran"}),
      wait |-> StatOf([j \in jobs |-> TimeSpan(j.queued, j.started)]),
      toCoordinator |->
        StatOf([j \in jobs |-> IF j.queued < j.seen THEN j.seen - j.queued ELSE Null]),
      dispatch |-> StatOf([j \in Known |-> TimeSpan(j.seen, Ran(j).requested)]),
      provision |-> StatOf([j \in Known |-> Provision(Ran(j))]),
      pickup |-> StatOf([j \in Known |-> TimeSpan(Ran(j).started, j.started)])]

\* bucket_starts: from the start of the bucket the window begins in.
FirstBucket(now) == (Since(now) \div BucketTime) * BucketTime
BucketStarts(now) == LET first == FirstBucket(now) IN
  [i \in 1 .. (now - first) \div BucketTime + 1 |-> first + (i - 1) * BucketTime]
\* Mutant of BucketOf: counted from the window's start, not the first bucket's.
BucketFromSince(t, now) ==
  LET i == (t - Since(now)) \div BucketTime + 1 IN IF i \in DOMAIN BucketStarts(now) THEN i ELSE 0

\* The bucket of a time, 0 past either end of the chart.
BucketOf(t, now) ==
  LET i == (t - FirstBucket(now)) \div BucketTime + 1
  IN IF i \in DOMAIN BucketStarts(now) THEN i ELSE 0

\* charts: runs by how they ended, and the times to a runner, of each bucket.
Charts(runs, jobs, now) ==
  [i \in DOMAIN BucketStarts(now) |->
     LET here == {r \in runs : BucketOf(r.requested, now) = i}
     IN [completed |-> EndedBy(here, {"completed"}), rejected |-> EndedBy(here, {"rejected"}),
         failed |-> Cardinality(Failed(here)),
         other |-> Cardinality({r \in here : r.outcome \notin {"none", "completed", "rejected"}}
                                 \ Failed(here)),
         provision |-> [a \in DOMAIN ByAgent(runs) |->
            StatOf([r \in {q \in here : q.agent = a} |-> Provision(r)]).p95],
         wait |-> StatOf([j \in {k \in jobs : BucketOf(k.queued, now) = i} |->
                            TimeSpan(j.queued, j.started)])]]

-----------------------------------------------------------------------------

\* The sum of numbers, as that many pairs.
SumOf(f) == Cardinality(UNION {{<<k, n>> : n \in 1 .. f[k]} : k \in DOMAIN f})

\* At least p of 100 are no greater than the value shown, and fewer are smaller.
Ranked(values, p, v) ==
  LET n == Cardinality(Valued(values)) IN
  IF n = 0 THEN v = Null
  ELSE /\ 100 * Cardinality({r \in Valued(values) : values[r] <= v}) >= p * n
       /\ 100 * Cardinality({r \in Valued(values) : values[r] < v}) < p * n

\* Of the runs on the page each counts for one outcome, one agent and one image, and for at most
\* one install source; a failure counts for one step.
Counted ==
  LET all == Summarize(page.runs) IN
  /\ all.runs = all.running + all.completed + all.failures + all.rejected + all.stopped
  /\ all.failures = SumOf(all.failedPhases)
  /\ \A g \in {ByAgent(page.runs), ByImage(page.runs)} :
       all.runs = SumOf([k \in DOMAIN g |-> g[k].runs])
  /\ LET g == ByInstall(page.runs) IN
       /\ SumOf([k \in DOMAIN g |-> g[k].runs]) <= all.runs
       /\ \A k \in DOMAIN g : /\ g[k].install.count <= g[k].runs
                              /\ k[2] = "image" => g[k].install.count = 0

\* A bar of the chart stands for the ended runs that were asked for in its stretch of time; only
\* runs of after the clock was read, past the last bar, are left out.
Charted ==
  LET charts == Charts(page.runs, page.jobs, page.now)
      starts == BucketStarts(page.now)
      Shown(i) == charts[i].completed + charts[i].rejected + charts[i].failed + charts[i].other
      In(r, i) == r.requested >= starts[i] /\ r.requested < starts[i] + BucketTime
  IN /\ \A i \in DOMAIN charts :
          Shown(i) = Cardinality({r \in page.runs : r.outcome # "none" /\ In(r, i)})
     /\ \A r \in page.runs : \/ \E i \in DOMAIN starts : In(r, i)
                             \/ r.requested > page.now

\* The percentiles are of the times of the page's runs and jobs, and a run is of one job at most
\* unless the forge named it for several.
Measured ==
  LET delays == [r \in page.runs |-> Provision(r)]
      all == Summarize(page.runs)
      js == JobSummary(page.jobs, page.runs)
  IN /\ Ranked(delays, 50, all.provision.p50) /\ Ranked(delays, 95, all.provision.p95)
     /\ js.dispatch.count <= Cardinality(page.jobs)
     /\ \A j, k \in page.jobs :
          RanBy(j, page.runs) = RanBy(k, page.runs) /\ j # k =>
            RanBy(j, page.runs) = {} \/ j.named # 0 \/ k.named # 0

\* What a load of the metrics page shows accounts for every run it read, whatever was written
\* while it was loading.
SummaryRight == page.at = "shown" => Counted /\ Charted /\ Measured
=============================================================================
