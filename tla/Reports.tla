------------------------------- MODULE Reports -------------------------------
(* The reports about missed calls: apps/reports/views.py (AnalyticsMissedCallsView,
   AnalyticsMissedByHourView, AnalyticsQueueActivityView, AnalyticsQueueCallsView),
   apps/reports/services/lost_and_found.py and get_missed_calls of the dashboard.
   Asterisk writes the tables queue_log and cdr while calls come and go; each report
   is computed from both, for a range of time, at any moment. *)
EXTENDS Naturals, FiniteSets, FiniteSetsExt

CONSTANTS
  Uniqueid,  \* calls, named by their uniqueid, which begins with the time
  Number,    \* telephone numbers as they are written
  Norm(_),   \* normalize_phone
  Queues,    \* names of queues
  Contact,   \* numbers of Contact rows
  LastTime,  \* bound: the last moment
  HourOf(_)  \* the hour on the local clock, which is put back once

\* Clocks are put back by an hour at most and at a full one, so that no later moment is
\* in an earlier hour.  No queue has the name that stands for no queue.
ASSUME ReportsAssumption ==
  /\ LastTime \in Nat /\ Uniqueid \subseteq Nat
  /\ \A t \in 0..LastTime : HourOf(t) \in Nat
  /\ \A t, u \in 0..LastTime : t <= u => HourOf(t) <= HourOf(u)
  /\ Contact \subseteq Number
  /\ "NONE" \notin Queues

VARIABLES
  now,    \* the time
  calls,  \* the calls in Asterisk
  qlog,   \* queue_log
  cdr     \* cdr

reportVars == <<now, calls, qlog, cdr>>

Time == 0..LastTime
NoQueue == "NONE"
NotYet == [state |-> "idle"]
CallOf == [state: {"waiting", "ended", "over"}, number: Number,
           queue: Queues \cup {NoQueue}, way: {"in", "out"}, began: Time,
           talked: BOOLEAN]
QueueLog == [callid: Uniqueid, time: Time, queuename: Queues,
             event: {"ENTERQUEUE", "ABANDON", "COMPLETE"}, data2: Number]
CDR == [uniqueid: Uniqueid, number: Number, way: {"in", "out"}, start: Time,
        answered: BOOLEAN]

ReportsTypeOK ==
  /\ now \in Time
  /\ calls \in [Uniqueid -> CallOf \cup {NotYet}]
  /\ qlog \subseteq QueueLog
  /\ cdr \subseteq CDR

ReportsInit ==
  now = 0 /\ calls = [c \in Uniqueid |-> NotYet] /\ qlog = {} /\ cdr = {}

-----------------------------------------------------------------------------
(* Asterisk writes *)

Logged(c, event) ==
  [callid |-> c, time |-> now, queuename |-> calls[c].queue, event |-> event,
   data2 |-> calls[c].number]

Begins(c) == calls[c] = NotYet /\ \A d \in Uniqueid : d < c => calls[d] # NotYet

\* A caller enters a queue.
EnterQueue(c, n, q) ==
  /\ Begins(c)
  /\ calls' = [calls EXCEPT ![c] = [state |-> "waiting", number |-> n, queue |-> q,
                 way |-> "in", began |-> now, talked |-> FALSE]]
  /\ qlog' = qlog \cup {[callid |-> c, time |-> now, queuename |-> q,
                         event |-> "ENTERQUEUE", data2 |-> n]}
  /\ UNCHANGED <<now, cdr>>

\* Mutant of InQueue: calls without a queue are logged like those in one.
InQueueAnyhow(c) == calls[c].state \in {"waiting", "ended"}

InQueue(c) == calls[c].state = "waiting"

\* The caller gives up, or an agent has served him; the CDR follows.
LeaveQueue(c) ==
  /\ InQueue(c)
  /\ \E served \in BOOLEAN :
       /\ calls' = [calls EXCEPT ![c].state = "ended", ![c].talked = served]
       /\ qlog' = qlog \cup {Logged(c, IF served THEN "COMPLETE" ELSE "ABANDON")}
  /\ UNCHANGED <<now, cdr>>

\* A call without a queue: a caller dials an employee, or an employee the caller.
Converse(c, n, way) ==
  /\ Begins(c)
  /\ calls' = [calls EXCEPT ![c] = [state |-> "ended", number |-> n,
                 queue |-> NoQueue, way |-> way, began |-> now, talked |-> TRUE]]
  /\ UNCHANGED <<now, qlog, cdr>>

\* The CDR is written.  The disposition of a call nobody talked in is ANSWERED too if
\* the dialplan answered it, with a greeting for instance.
WriteCDR(c) ==
  /\ calls[c].state = "ended"
  /\ calls' = [calls EXCEPT ![c].state = "over"]
  /\ \E answered \in BOOLEAN :
       /\ calls[c].talked => answered
       /\ cdr' = cdr \cup {[uniqueid |-> c, number |-> calls[c].number,
                            way |-> calls[c].way, start |-> calls[c].began,
                            answered |-> answered]}
  /\ UNCHANGED <<now, qlog>>

Pass == now < LastTime /\ now' = now + 1 /\ UNCHANGED <<calls, qlog, cdr>>

ReportsNext ==
  \/ \E c \in Uniqueid : LeaveQueue(c) \/ WriteCDR(c)
  \/ \E c \in Uniqueid, n \in Number, q \in Queues : EnterQueue(c, n, q)
  \/ \E c \in Uniqueid, n \in Number, way \in {"in", "out"} : Converse(c, n, way)
  \/ Pass

ReportsSpec == ReportsInit /\ [][ReportsNext]_reportVars

-----------------------------------------------------------------------------
(* The reports, for the rows from one moment to another *)

EventRows(event, from, to) == {r \in qlog : r.event = event /\ r.time \in from..to}

\* Mutant: only the calls that entered in the first moment of the range.
KnownCallidsFirst(from, to) ==
  {r.callid : r \in {s \in EventRows("ENTERQUEUE", from, from) : s.data2 \in Contact}}

\* exclude_contacts: the calls of known numbers that entered within the range.
KnownCallids(from, to) ==
  {r.callid : r \in {s \in EventRows("ENTERQUEUE", from, to) : s.data2 \in Contact}}

Missed(q, from, to, excluded) ==
  {r \in EventRows("ABANDON", from, to) :
     r.queuename = q /\ (excluded => r.callid \notin KnownCallids(from, to))}

\* AnalyticsMissedCallsView: what became of a missed call.
Callerid(c) ==
  (CHOOSE r \in qlog : r.event = "ENTERQUEUE" /\ r.callid = c).data2

\* Its caller entered the same queue again, with another call, and was served.
Lucky(r, missed, to) ==
  \E e \in qlog :
    /\ e.event = "ENTERQUEUE" /\ e.time \in r.time..to /\ e.queuename = r.queuename
    /\ e.data2 = Callerid(r.callid)
    /\ e.callid \notin {m.callid : m \in missed}
    /\ \E d \in qlog : d.callid = e.callid /\ d.event = "COMPLETE"

Conversed(r, way, to) ==
  \E d \in cdr : d.answered /\ d.way = way /\ d.number = Callerid(r.callid)
                 /\ d.start \in r.time..to

\* Mutant: only calls that entered a queue again count.
CalledBackByQueue(r, missed, to) == Lucky(r, missed, to)
CalledBack(r, missed, to) == Lucky(r, missed, to) \/ Conversed(r, "in", to)
ByOperator(r, missed, to) == ~CalledBack(r, missed, to) /\ Conversed(r, "out", to)
Remaining(r, missed, to) ==
  ~CalledBack(r, missed, to) /\ ~ByOperator(r, missed, to)

\* Mutant: the table ends before the hour in which the range does.
HoursExclusive(from, to) == HourOf(from)..(HourOf(to) - 1)

\* AnalyticsMissedByHourView and AnalyticsQueueActivityView: a row for every hour of
\* the local clock, with zeros where the database has none.
Hours(from, to) == HourOf(from)..HourOf(to)
ByHour(h, event, from, to) ==
  Cardinality({r \in EventRows(event, from, to) : HourOf(r.time) = h})

\* build_lost_and_found: the number is taken from the CDR if it is there already,
\* numbers are compared normalised, and only later calls count.
LostCallerid(r) ==
  IF \E d \in cdr : d.uniqueid = r.callid
  THEN (CHOOSE d \in cdr : d.uniqueid = r.callid).number ELSE Callerid(r.callid)

\* Mutant: the numbers are compared as they are written.
FoundExactly(r) ==
  \E d \in cdr : d.answered /\ d.number = LostCallerid(r) /\ d.start > r.time

\* Mutant: the disposition is not asked for.
FoundUnanswered(r) ==
  \E d \in cdr : Norm(d.number) = Norm(LostCallerid(r)) /\ d.start > r.time

Found(r) ==
  \E d \in cdr : d.answered /\ Norm(d.number) = Norm(LostCallerid(r))
                 /\ d.start > r.time

\* get_missed_calls: what the dashboard shows for a queue.
MissedList(q, since) ==
  {r \in qlog : r.event = "ABANDON" /\ r.queuename = q /\ r.time >= since /\ ~Found(r)}

-----------------------------------------------------------------------------
(* Properties *)

Ranges == {rg \in Time \X Time : rg[1] <= rg[2]}
SumOf(S, op(_)) == MapThenSumSet(op, S)

\* The reports of one range agree: the missed calls of all queues, the missed calls
\* by hour and those of the activity report are the same number of calls, and so are
\* the served ones - also when the local clock is put back within the range.
TotalsAgree ==
  \A rg \in Ranges : \A event \in {"ABANDON", "COMPLETE"} :
    SumOf(Hours(rg[1], rg[2]), LAMBDA h : ByHour(h, event, rg[1], rg[2]))
      = Cardinality(EventRows(event, rg[1], rg[2]))

\* A conversation with the caller since the call was missed, as far as it is recorded.
TalkedTo(r, n, to) ==
  \E c \in Uniqueid :
    /\ calls[c] # NotYet /\ calls[c].talked /\ calls[c].number = n
    /\ calls[c].began \in r.time..to
    /\ calls[c].state = "over" \/ calls[c].queue = r.queuename

\* A caller who was talked to within the range and after he gave up, from the number
\* he had called from, is not counted among the remaining ones of his queue.
ReachedIsNotRemaining ==
  \A rg \in Ranges : \A q \in Queues :
    \A r \in Missed(q, rg[1], rg[2], FALSE) :
      TalkedTo(r, calls[r.callid].number, rg[2])
      => ~Remaining(r, Missed(q, rg[1], rg[2], FALSE), rg[2])

\* The dashboard does not list a caller who was talked to later, however his number
\* was written in the two calls.
ReachedIsNotListed ==
  \A q \in Queues : \A r \in MissedList(q, 0) :
    ~ \E c \in Uniqueid :
        /\ calls[c].state = "over" /\ calls[c].talked /\ calls[c].began > r.time
        /\ Norm(calls[c].number) = Norm(calls[r.callid].number)

\* The dashboard's list and the analytics of all time tell the same calls to be
\* unresolved, except for a number written differently, a call in the very second
\* the caller gave up, and one served by the queue whose CDR is not written yet.
ListsDifferOnlyBy ==
  \A q \in Queues :
    LET missed == Missed(q, 0, LastTime, FALSE) IN
    \A r \in missed :
      (r \in MissedList(q, 0)) # Remaining(r, missed, LastTime)
      => \/ \E d \in cdr : d.number # Callerid(r.callid)
                           /\ Norm(d.number) = Norm(Callerid(r.callid))
         \/ \E d \in cdr : d.start = r.time
         \/ \E c \in Uniqueid : calls[c].state = "ended" /\ calls[c].talked

\* With the contacts excluded, the missed call of a contact is counted only if he
\* entered the queue before the range began.
ContactsCountedOnlyIfEarly ==
  \A rg \in Ranges : \A q \in Queues :
    \A r \in Missed(q, rg[1], rg[2], TRUE) :
      Callerid(r.callid) \in Contact => calls[r.callid].began < rg[1]
=============================================================================
