----------------------------- MODULE LogPipeline -----------------------------
(***************************************************************************)
(* An agent's own log lines on their way to the coordinator: a bounded     *)
(* buffer that drops the oldest, batches that are put back when their      *)
(* upload fails or their session ends, and the coordinator's store, which  *)
(* shows what was dropped. Lines are the numbers they are given.           *)
(***************************************************************************)
EXTENDS Naturals, Sequences, FiniteSets, SequencesExt

CONSTANTS
  BUFFER_CAPACITY, MAX_BATCH,
  MaxLines,   \* bound: lines logged
  MaxSessions \* bound: sessions of the agent, the last of which lasts

ASSUME LogAssumption ==
  {BUFFER_CAPACITY, MAX_BATCH} \subseteq Nat \ {0} /\ {MaxLines, MaxSessions} \subseteq Nat

VARIABLES
  enabled,   \* lines are captured
  records,   \* the buffer's lines
  dropped,   \* lines dropped since the last batch was taken
  nextSeq,   \* the number of the next line
  ready,     \* batch_ready has been notified
  uploader,  \* the upload loop: "none", "waits", "takes", "sending", "answered", "off"
  sessions,  \* sessions so far
  batch,     \* [lines, dropped]: the batch in flight
  more,      \* lines were waiting when it was taken
  reply,     \* the coordinator's: "ok", "unimplemented", "refused", "failed"
  stored,    \* lines the coordinator has, or had
  counted,   \* the numbers it was given of dropped lines
  thrown     \* lines it refused, or that were cleared as it takes no logs

logVars == <<enabled, records, dropped, nextSeq, ready, uploader, sessions, batch, more, reply,
             stored, counted, thrown>>

buffer == <<records, dropped>>
storeVars == <<stored, counted>>

Empty == [lines |-> <<>>, dropped |-> 0]

LogInit ==
  /\ enabled = TRUE /\ records = <<>> /\ dropped = 0 /\ nextSeq = 0 /\ ready = FALSE
  /\ uploader = "none" /\ sessions = 0 /\ batch = Empty /\ more = FALSE /\ reply = "ok"
  /\ stored = {} /\ counted = 0 /\ thrown = {}

-----------------------------------------------------------------------------
(* The buffer *)

\* A full buffer drops its oldest line.
Push ==
  LET full == Len(records) >= BUFFER_CAPACITY
  IN /\ records' = Append(IF full THEN Tail(records) ELSE records, nextSeq)
     /\ dropped' = IF full THEN dropped + 1 ELSE dropped
     /\ ready' = (ready \/ Len(records') = MAX_BATCH)

\* The layer: lines are not captured while uploads are off.
OnEvent ==
  /\ nextSeq < MaxLines /\ nextSeq' = nextSeq + 1
  /\ \/ enabled /\ Push /\ UNCHANGED thrown
     \/ ~enabled /\ thrown' = thrown \cup {nextSeq} /\ UNCHANGED <<buffer, ready>>
  /\ UNCHANGED <<enabled, uploader, sessions, batch, more, reply, storeVars>>

Least(n, m) == IF n < m THEN n ELSE m

\* Mutant of Uncounted: lines that do not fit any more are forgotten.
UncountedNone(n) == 0

\* Of n lines put back, those that do not fit are counted.
Uncounted(n) == n

\* requeue: back to the front, the newest first, as far as there is room.
Requeue ==
  LET n == Len(batch.lines)
      fit == Least(n, BUFFER_CAPACITY - Len(records))
  IN /\ records' = SubSeq(batch.lines, n - fit + 1, n) \o records
     /\ dropped' = dropped + batch.dropped + Uncounted(n - fit)
     /\ batch' = Empty

-----------------------------------------------------------------------------
(* upload_loop *)

\* An older coordinator may have turned it off in the last session.
StartUploads ==
  /\ uploader = "none" /\ sessions < MaxSessions /\ sessions' = sessions + 1
  /\ uploader' = "waits" /\ enabled' = TRUE
  /\ UNCHANGED <<buffer, nextSeq, ready, batch, more, reply, storeVars, thrown>>

\* Mutant of FlushDue: a batch goes out when it is full.
FlushIfFull == ready

\* FLUSH_INTERVAL is over, or a batch is full.
FlushDue == TRUE

Flush ==
  /\ uploader = "waits" /\ FlushDue /\ uploader' = "takes" /\ ready' \in {ready, FALSE}
  /\ UNCHANGED <<enabled, buffer, nextSeq, sessions, batch, more, reply, storeVars, thrown>>

TakeBatch ==
  LET n == Least(Len(records), MAX_BATCH)
  IN /\ uploader = "takes"
     /\ \/ /\ records # <<>> \/ dropped > 0
           /\ batch' = [lines |-> SubSeq(records, 1, n), dropped |-> dropped]
           /\ records' = SubSeq(records, n + 1, Len(records)) /\ dropped' = 0
           /\ more' = (records' # <<>>) /\ uploader' = "sending"
        \/ records = <<>> /\ dropped = 0 /\ uploader' = "waits" /\ UNCHANGED <<batch, buffer, more>>
     /\ UNCHANGED <<enabled, nextSeq, ready, sessions, reply, storeVars, thrown>>

\* upload_logs: one INSERT, with a line for what was dropped.
Store ==
  /\ uploader = "sending" /\ uploader' = "answered" /\ reply' = "ok"
  /\ stored' = stored \cup ToSet(batch.lines) /\ counted' = counted + batch.dropped
  /\ UNCHANGED <<enabled, buffer, nextSeq, ready, sessions, batch, more, thrown>>

\* The coordinator has no such call, refuses the batch for its size, or fails.
StoreFails ==
  /\ uploader = "sending" /\ uploader' = "answered"
  /\ reply' \in {"unimplemented", "refused", "failed"}
  /\ UNCHANGED <<enabled, buffer, nextSeq, ready, sessions, batch, more, storeVars, thrown>>

\* The coordinator has it, or will not; the next one of a backlog goes straight away.
BatchDone ==
  LET refused == reply = "refused"
  IN /\ uploader = "answered" /\ reply \in {"ok", "refused"} /\ batch' = Empty
     /\ uploader' = IF more THEN "takes" ELSE "waits"
     /\ thrown' = IF refused THEN thrown \cup ToSet(batch.lines) ELSE thrown
     /\ counted' = IF refused THEN counted + batch.dropped ELSE counted
     /\ UNCHANGED <<enabled, buffer, nextSeq, ready, sessions, more, reply, stored>>

\* Tried again at the next flush.
BatchFailed ==
  /\ uploader = "answered" /\ reply = "failed" /\ uploader' = "waits" /\ Requeue
  /\ UNCHANGED <<enabled, nextSeq, ready, sessions, more, reply, storeVars, thrown>>

\* "disabling until reconnect": what is in the buffer is thrown away.
Disable ==
  /\ uploader = "answered" /\ reply = "unimplemented" /\ uploader' = "off" /\ enabled' = FALSE
  /\ batch' = Empty /\ records' = <<>> /\ dropped' = 0
  /\ thrown' = thrown \cup ToSet(batch.lines) \cup ToSet(records)
  /\ counted' = counted + batch.dropped + dropped
  /\ UNCHANGED <<nextSeq, ready, sessions, more, reply, stored>>

\* The session ends and aborts the loop, in a call or not: also one that has been carried out.
EndUploads ==
  /\ uploader # "none" /\ sessions < MaxSessions /\ uploader' = "none" /\ Requeue
  /\ UNCHANGED <<enabled, nextSeq, ready, sessions, more, reply, storeVars, thrown>>

-----------------------------------------------------------------------------
(* The specification *)

LogNext ==
  \/ OnEvent \/ StartUploads \/ Flush \/ TakeBatch \/ Store \/ StoreFails
  \/ BatchDone \/ BatchFailed \/ Disable \/ EndUploads

LogSpec == LogInit /\ [][LogNext]_logVars

-----------------------------------------------------------------------------
(* What should hold *)

Held == ToSet(records) \cup ToSet(batch.lines)

\* "`dropped` becomes a warning line so gaps are visible in the UI": lines that are neither stored,
\* waiting nor refused are counted as dropped, through full buffers, failed uploads, sessions that
\* end in a call, and answers that are lost.
LinesAccounted ==
  Cardinality((0 .. nextSeq - 1) \ (stored \cup thrown \cup Held))
    <= dropped + batch.dropped + counted

\* A line does not stay in the buffer: full batch or not it goes out at the next flush of a session
\* that lasts, whatever was put back before it.
LinesArrive == \A l \in 0 .. MaxLines - 1 : l \in Held ~> l \notin Held
=============================================================================
