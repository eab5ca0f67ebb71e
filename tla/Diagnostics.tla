---------------------------- MODULE Diagnostics ----------------------------
(***************************************************************************)
(* What the coordinator keeps of an agent for the operator: its log lines, *)
(* uploaded in batches that may come late or twice, trimmed by age and to  *)
(* the newest lines, read a page at a time; and its failures, each         *)
(* recorded by an insert and a prune. The two tables have nothing to do    *)
(* with one another, and a behaviour is of one of them.                    *)
(***************************************************************************)
EXTENDS Naturals, FiniteSetsExt

CONSTANTS
  MAX_LINES,     \* MAX_LINES_PER_AGENT
  PageLines,     \* lines of a page
  MAX_PER_AGENT, \* failures kept of an agent
  FailingAgents, \* agents
  MaxLogLine,    \* bound: lines, numbered in the order they were logged
  MaxFailures    \* bound: failures

ASSUME DiagnosticsAssumption ==
  /\ {MAX_LINES, PageLines, MAX_PER_AGENT} \subseteq Nat \ {0}
  /\ {MaxLogLine, MaxFailures} \subseteq Nat

VARIABLES
  table,        \* "logs" or "failures"
  lines,        \* agent_logs of the agent: [line, level, copy]
  pruning,      \* the prune: where it is, and the first line past the cap
  reader,       \* an operator reading back through the pages
  failures,     \* agent_failures: [agent, time]
  failureTime,  \* the time of the last failure
  failuresSeen, \* the failures recorded so far, kept or not
  recorders     \* those whose insert has not been followed by its prune

logTables == <<lines, pruning, reader>>
failureTables == <<failures, failureTime, failuresSeen, recorders>>
diagVars == <<table, logTables, failureTables>>

Levels == 1 .. 2 \* more than that tell nothing more apart
LevelOf(n) == (n % 2) + 1
Resting == [at |-> "rest", cutoff |-> 0]
NoReader == [at |-> "none"]

DiagInit ==
  /\ table \in {"logs", "failures"}
  /\ lines = {} /\ pruning = Resting /\ reader = NoReader
  /\ failures = {} /\ failureTime = 0 /\ failuresSeen = {} /\ recorders = {}

-----------------------------------------------------------------------------
(* Log lines. *)

\* insert_batch: one statement. A batch whose answer was lost comes again, and is stored again.
InsertBatch ==
  /\ \E batch \in SUBSET (1 .. MaxLogLine) :
       /\ batch # {} /\ Cardinality(batch) <= 2
       /\ LET Copies(n) == Cardinality({l \in lines : l.line = n}) IN
          /\ \A n \in batch : Copies(n) < 2
          /\ lines' = lines \cup {[line |-> n, level |-> LevelOf(n), copy |-> Copies(n) + 1] :
                                    n \in batch}
  /\ UNCHANGED <<table, pruning, reader, failureTables>>

\* ORDER BY ts DESC, seq DESC: how many of the rows come before one, and the first n of them.
Precedes(rows, r) ==
  Cardinality({s \in rows : s.line > r.line \/ (s.line = r.line /\ s.copy > r.copy)})
Newest(rows, n) == {r \in rows : Precedes(rows, r) < n}

\* prune: by age first, then it finds the first line past the cap, then it drops the lines up to
\* that one; uploads come in between.
PruneOld ==
  /\ pruning.at = "rest"
  /\ \E oldest \in 1 .. MaxLogLine : lines' = {l \in lines : l.line >= oldest}
  /\ pruning' = [at |-> "cutoff", cutoff |-> 0]
  /\ UNCHANGED <<table, reader, failureTables>>
FindCutoff ==
  /\ pruning.at = "cutoff"
  /\ pruning' = IF Cardinality(lines) <= MAX_LINES THEN Resting
                ELSE [at |-> "trim",
                      cutoff |-> (CHOOSE l \in lines : Precedes(lines, l) = MAX_LINES).line]
  /\ UNCHANGED <<table, lines, reader, failureTables>>
Trim ==
  /\ pruning.at = "trim" /\ pruning' = Resting
  /\ lines' = {l \in lines : l.line > pruning.cutoff}
  /\ UNCHANGED <<table, reader, failureTables>>

OpenLogs ==
  /\ reader.at \in {"none", "end"}
  /\ \E min \in Levels :
       reader' = [at |-> "page", min |-> min, before |-> MaxLogLine + 1, shown |-> {},
                  kept |-> {l.line : l \in {k \in lines : k.level <= min}}]
  /\ UNCHANGED <<table, lines, pruning, failureTables>>

\* recent: the newest lines older than the cursor, which is the last line of the page before.
OlderThan(l) == l.line < reader.before

\* A page that isn't full is the last. kept: of the lines there were at the start, those that
\* are still there.
ReadPage ==
  /\ reader.at = "page"
  /\ LET page == Newest({l \in lines : l.level <= reader.min /\ OlderThan(l)}, PageLines)
         numbers == {l.line : l \in page}
         full == Cardinality(page) = PageLines
     IN reader' = [reader EXCEPT
          !.shown = @ \cup numbers, !.kept = @ \cap {l.line : l \in lines},
          !.before = IF full THEN Min(numbers) ELSE @, !.at = IF full THEN "page" ELSE "end"]
  /\ UNCHANGED <<table, lines, pruning, failureTables>>

-----------------------------------------------------------------------------
(* Failures. *)

Record(a) ==
  /\ failureTime < MaxFailures /\ failureTime' = failureTime + 1
  /\ LET f == [agent |-> a, time |-> failureTime'] IN
     /\ failuresSeen' = failuresSeen \cup {f}
     /\ recorders' = recorders \cup {[f |-> f, at |-> "insert"]}
  /\ UNCHANGED <<table, logTables, failures>>

\* try_record, after it has read the clock: a failed insert ends it.
Insert(r) ==
  /\ r.at = "insert"
  /\ \/ /\ failures' = failures \cup {r.f}
        /\ recorders' = (recorders \ {r}) \cup {[r EXCEPT !.at = "prune"]} /\ UNCHANGED failuresSeen
     \/ failuresSeen' = failuresSeen \ {r.f} /\ recorders' = recorders \ {r} /\ UNCHANGED failures
  /\ UNCHANGED <<table, logTables, failureTime>>

NewestFailures(S) ==
  {f \in S : Cardinality({g \in S : g.time > f.time}) < MAX_PER_AGENT}

\* Mutant of NewestOfAgent: the newest of all agents.
NewestOfAll(a) == NewestFailures(failures)

\* PRUNE_AGENT_FAILURES: the rows of the agent that stay.
NewestOfAgent(a) == NewestFailures({f \in failures : f.agent = a})

\* It fails, or the coordinator dies before it: the next one of the agent makes up for it.
PruneFailures(r) ==
  /\ r.at = "prune" /\ recorders' = recorders \ {r}
  /\ LET kept == NewestOfAgent(r.f.agent) IN
     failures' \in {failures, {f \in failures : f.agent = r.f.agent => f \in kept}}
  /\ UNCHANGED <<table, logTables, failureTime, failuresSeen>>

LogsNext ==
  table = "logs" /\ (InsertBatch \/ PruneOld \/ FindCutoff \/ Trim \/ OpenLogs \/ ReadPage)
FailuresNext ==
  /\ table = "failures"
  /\ \/ \E a \in FailingAgents : Record(a)
     \/ \E r \in recorders : Insert(r) \/ PruneFailures(r)

DiagNext == LogsNext \/ FailuresNext

DiagSpec == DiagInit /\ [][DiagNext]_diagVars

-----------------------------------------------------------------------------

\* An operator who has read back to the last page has been shown every line of the level that
\* was there all along, whatever was uploaded or trimmed meanwhile.
PagesComplete == reader.at = "end" => reader.kept \subseteq reader.shown

\* A failure that was recorded is gone only for as many newer ones of its agent as are kept,
\* whatever the others' were and however the recorders of an agent interleave.
NewestKept ==
  \A f \in failuresSeen \ failures :
    [f |-> f, at |-> "insert"] \notin recorders =>
      Cardinality({g \in failuresSeen : g.agent = f.agent /\ g.time > f.time}) >= MAX_PER_AGENT

\* What the operator is shown of an agent's past is whole.
DiagnosticsSound == PagesComplete /\ NewestKept
=============================================================================
