----------------------------- MODULE MCAbandoned ----------------------------
(* Dispatch with a history variable: the jobs that lost their row, still queued, by using up *)
(* their retries.                                                                             *)
EXTENDS MCDispatch

VARIABLE abandoned

HistoryInit == Init /\ abandoned = {}

HistoryNext ==
  /\ Next
  /\ abandoned' = abandoned \cup
       {j \in pending \ pending' : forgeStatus[j] = "queued" /\ retry[j] + 1 >= MaxRetries}

HistorySpec == HistoryInit /\ [][HistoryNext]_<<vars, abandoned>>

\* "After this many failures, the job is removed and not retried" (MAX_RETRIES): a job abandoned
\* at the retry limit gets no row again. scan_forges brings it back, with its retries at zero.
AbandonedNotRetried == [][pending' \cap abandoned \subseteq pending]_<<vars, abandoned>>
=============================================================================
