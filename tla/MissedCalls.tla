----------------------------- MODULE MissedCalls ----------------------------
(***************************************************************************)
(* Missed calls reported to Slack by the dashboard listener                *)
(* (services/dashboard).  A caller who leaves a queue unserved is put into *)
(* a buffer; a task that sleeps for the debounce window takes the buffer   *)
(* and posts it from a thread of the executor.  A stop cancels the task and*)
(* posts what is left.  The asyncio loop runs one action at a time.        *)
(***************************************************************************)
CONSTANT Miss          \* abandoned calls

VARIABLES
  abandoned,   \* the calls that have been handled
  buffer,      \* _missed_buffer
  flush,       \* _missed_flush_task: "none", "sleep", "post"
  posting,     \* what the task, or its thread, is posting
  last,        \* what shutdown is posting
  told,        \* what Slack has got
  failed,      \* what could not be posted
  life,        \* the process: "up", "stopping", "down"
  late         \* history: calls that came while the task was posting

missVars == <<abandoned, buffer, flush, posting, last, told, failed, life, late>>

\* One invariant for the types of the variables.
MissTypeOK ==
  /\ abandoned \subseteq Miss
  /\ buffer \subseteq Miss
  /\ flush \in {"none", "sleep", "post"}
  /\ posting \subseteq Miss
  /\ last \subseteq Miss
  /\ told \subseteq Miss
  /\ failed \subseteq Miss
  /\ life \in {"up", "stopping", "down"}
  /\ late \subseteq Miss

MissInit ==
  /\ abandoned = {} /\ buffer = {} /\ posting = {} /\ last = {}
  /\ told = {} /\ failed = {} /\ late = {}
  /\ flush = "none"
  /\ life = "up"

\* Mutant of Schedule: a task is started for the first call of a buffer only.
ScheduleIfFirst == flush' = IF buffer = {} /\ flush = "none" THEN "sleep" ELSE flush

\* Mutant of Schedule: a task that is posting is told to sleep once more.
ScheduleAgain == flush' = IF flush = "post" THEN "again" ELSE "sleep"

\* A task is started unless one is there that is not done.
Schedule == flush' = IF flush = "none" THEN "sleep" ELSE flush

\* handle_queue_caller_abandon: the end of it, with SLACK_MISSED_CALL_WEBHOOK_URL.
\* Asterisk's events are still handled while the service stops.
Abandon(m) ==
  /\ life # "down"
  /\ m \notin abandoned
  /\ abandoned' = abandoned \cup {m}
  /\ buffer' = buffer \cup {m}
  /\ Schedule
  /\ late' = IF flush = "post" THEN late \cup {m} ELSE late
  /\ UNCHANGED <<posting, last, told, failed, life>>

\* Mutant of Take: what came during the sleep stays in the buffer as well.
TakeCopy == posting' = buffer /\ buffer' = buffer

\* The buffer is exchanged for an empty one.
Take == posting' = buffer /\ buffer' = {}

\* _flush_missed_after_window: the sleep is over.
Flush ==
  /\ life = "up" /\ flush = "sleep"
  /\ Take
  /\ flush' = IF buffer = {} THEN "none" ELSE "post"
  /\ UNCHANGED <<abandoned, last, told, failed, life, late>>

\* Mutant of Posted: what could not be posted goes back to the buffer as well.
PostedOrKept ==
  /\ life # "down"
  /\ posting # {}
  /\ \/ told' = told \cup posting /\ UNCHANGED <<failed, buffer>>
     \/ failed' = failed \cup posting /\ buffer' = buffer \cup posting /\ UNCHANGED told
  /\ posting' = {}
  /\ flush' = IF flush = "post" THEN "none" ELSE flush
  /\ UNCHANGED <<abandoned, last, life, late>>

\* Slack got it, or the post failed, which is logged; the task is done.  A task
\* that was cancelled is gone, but its thread posts to the end.
Posted ==
  /\ life # "down"
  /\ posting # {}
  /\ \/ told' = told \cup posting /\ UNCHANGED failed
     \/ failed' = failed \cup posting /\ UNCHANGED told
  /\ posting' = {}
  /\ flush' = IF flush = "post" THEN "none" ELSE flush
  /\ UNCHANGED <<abandoned, buffer, last, life, late>>

\* Mutant of Stop: the task is not cancelled and the buffer not looked at.
StopAtOnce ==
  /\ life = "up"
  /\ life' = "stopping"
  /\ flush' = "none"
  /\ UNCHANGED <<abandoned, buffer, posting, last, told, failed, late>>

\* SIGTERM: asyncio cancels the tasks, and process runs shutdown, which posts what
\* is in the buffer.
Stop ==
  /\ life = "up"
  /\ life' = "stopping"
  /\ flush' = "none"
  /\ last' = buffer
  /\ buffer' = {}
  /\ UNCHANGED <<abandoned, posting, told, failed, late>>

\* shutdown goes on, and the loop waits for the threads of its executor.
Stopped ==
  /\ life = "stopping" /\ posting = {}
  /\ \/ told' = told \cup last /\ UNCHANGED failed
     \/ failed' = failed \cup last /\ UNCHANGED told
  /\ last' = {}
  /\ life' = "down"
  /\ UNCHANGED <<abandoned, buffer, flush, posting, late>>

MissNext == (\E m \in Miss : Abandon(m)) \/ Flush \/ Posted \/ Stop \/ Stopped

\* The window ends, and a post ends within its timeout.  Nothing need stop.
MissFairness == WF_missVars(Flush) /\ WF_missVars(Posted) /\ WF_missVars(Stopped)

MissSpec == MissInit /\ [][MissNext]_missVars /\ MissFairness

-----------------------------------------------------------------------------
(* Properties. *)

\* No missed call is lost and none is told twice: each one that was handled is in
\* exactly one place, whatever is cancelled when (_flush_missed_after_window,
\* shutdown).
NoMissLost ==
  /\ abandoned = buffer \cup posting \cup last \cup told \cup failed
  /\ \A m \in abandoned :
       /\ m \in buffer  => m \notin posting \cup last \cup told \cup failed
       /\ m \in posting => m \notin last \cup told \cup failed
       /\ m \in last    => m \notin told \cup failed
       /\ m \in told    => m \notin failed

\* While the service runs, a buffer nobody is going to flush holds only calls that
\* came while the task was posting the ones before; such a call waits for the next
\* missed call, however long that takes (handle_queue_caller_abandon).
OnlyLateOnesWait ==
  life = "up" /\ flush = "none" => buffer \subseteq late

\* What the reports promise, as Outbox says it: a call is held from the moment it was
\* missed until it is told, or given up, once and for all
\* (_flush_missed_after_window, shutdown).
StatusOf(m) == CASE m \in told   -> "told"
                 [] m \in failed -> "failed"
                 [] m \in (buffer \cup posting \cup last) \ (told \cup failed) -> "held"
                 [] OTHER         -> "none"
Promise == INSTANCE Outbox WITH Item <- Miss, status <- [m \in Miss |-> StatusOf(m)]
ReportsLikeAnOutbox == Promise!OutboxSpec

\* In the end every missed call has been posted, well or not, unless the service
\* stops, or the call is one that came during a post and is left in the buffer
\* (_flush_missed_after_window, handle_queue_caller_abandon).
MissesAreReported ==
  <>[](life # "up" \/ abandoned \ (told \cup failed) \subseteq buffer \cap late)

\* Every missed call has its place, and one that is left waiting came late.
MissesAreKept == NoMissLost /\ OnlyLateOnesWait
=============================================================================
