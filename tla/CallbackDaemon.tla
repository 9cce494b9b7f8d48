--------------------------- MODULE CallbackDaemon ---------------------------
(***************************************************************************)
(* The callback daemon of services/callback/callback.py: a set of forked   *)
(* processes that take due rows of the table callback_number, place the    *)
(* call through the Asterisk manager interface (AMI) and record how the    *)
(* call ended.                                                             *)
(*                                                                         *)
(* Each process runs two threads that talk to the database: "main" (the    *)
(* polling loop) and "ami" (the library thread that runs event_listener    *)
(* and the response callbacks).  The two share ONE psycopg2 connection,    *)
(* hence one transaction, and no lock protects it.  One action is one SQL  *)
(* statement of one thread, one section under _calls_lock or one event.    *)
(*                                                                         *)
(* PostgreSQL, Asterisk and systemd are external: they are modelled as far *)
(* as the code depends on them.                                            *)
(***************************************************************************)
EXTENDS Integers, SequencesExt

CONSTANTS
  Proc,       \* the processes of --process_count
  Parent,     \* the one systemd watches; setup_processes forks the others
  NoProc,     \* "no process"
  Row,        \* rows of callback_number of active services, ordered by created
  Dst,        \* Dst[r]: the number the row asks to call
  Context,    \* Context[r]: the service's outbound context
  Joined,     \* Joined[r]: the rows the SELECT joins to r, in the order it locks them
  Prefix,     \* pairs <<a, b>> of contexts, the name a being a prefix of b's
  MaxCalls,   \* bound: calls placed in a behaviour
  MaxDials,   \* bound: dial attempts the dialplan makes in one call
  MaxFaults,  \* bound: lost connections and killed processes
  SlowCalls   \* may a call ring for longer than the ten minutes of the claim?

ASSUME CallbackAssumption ==
  /\ Parent \in Proc
  /\ NoProc \notin Proc
  /\ Row \subseteq Nat \ {0}
  /\ MaxCalls \in Nat
  /\ MaxDials \in Nat
  /\ MaxFaults \in Nat
  /\ SlowCalls \in BOOLEAN

NoRow == 0
NoCall == 0
Call == 1 .. MaxCalls            \* a call, and the uniqueid of its channel
JoinedRow == UNION {Range(Joined[r]) : r \in Row}  \* services, routes, contexts
Thread == {"main", "ami"}
NoThread == "none"

VARIABLES
  db,        \* committed rows
  draft,     \* rows as the transaction that holds their lock sees them
  owner,     \* the process whose transaction holds a row's lock
  holder,    \* the process whose transaction holds a joined row's lock
  conn,      \* state of each process's connection (self.conn)
  busy,      \* the thread whose statement waits for a row lock
  mode,      \* "up", "deaf" (AMI gone, process still there) or "down"
  pc,        \* what each thread does next
  job,       \* the arguments of the database call a thread is in
  waitlist,  \* active_calls_by_dst
  tracked,   \* active_calls_by_channel_uid
  inbox,     \* AMI events sent to a process and not handled yet
  call,      \* the calls in Asterisk
  faults     \* number of faults so far

dbVars == <<db, draft, owner, holder>>
connVars == <<conn, busy>>
threadVars == <<pc, job>>
mapVars == <<waitlist, tracked>>
envVars == <<mode, call, faults>>
vars == <<dbVars, connVars, threadVars, mapVars, inbox, envVars>>

-----------------------------------------------------------------------------
(* Data *)

Status == {"NEW", "PENDING", "ANSWERED", "BUSY"}

\* ripe: the time conditions of the SELECT hold (schedule_time reached; for a
\* PENDING row, updated more than ten minutes ago).
RowState == [status : Status, ripe : BOOLEAN, uid : Call \cup {NoCall}]

CallState == {"unused", "requested", "dialing", "talking", "ended", "failed"}
CallRec == [row : Row \cup {NoRow}, by : Proc \cup {NoProc},
            state : CallState, dials : 0 .. MaxDials]
NewCall == [row |-> NoRow, by |-> NoProc, state |-> "unused", dials |-> 0]

EventKind == {"DialBegin", "DialEndAnswer", "DialEndOther", "Hangup",
              "OriginateError"}
Event == [kind : EventKind, call : Call]
Ev(k, c) == [kind |-> k, call |-> c]

\* kind: the claim of select_first_available, update_call_status or
\* update_uniqueid.  call: the channel an event named, NoCall in _mark_busy.
\* fatal: the OSError branch of call_dst, which raises after _mark_busy.
Job == [kind : {"none", "claim", "status", "uid"}, row : Row \cup {NoRow},
        status : Status, call : Call \cup {NoCall}, fatal : BOOLEAN]
NoJob == [kind |-> "none", row |-> NoRow, status |-> "NEW", call |-> NoCall,
          fatal |-> FALSE]
\* Mutant of ClaimJob: a status that is not one of DIAL_STATUS_CHOICES.
DialingClaimJob(r) == [NoJob EXCEPT !.kind = "claim", !.row = r, !.status = "DIALING"]
ClaimJob(r) == [NoJob EXCEPT !.kind = "claim", !.row = r, !.status = "PENDING"]
StatusJob(r, s, c) == [kind |-> "status", row |-> r, status |-> s, call |-> c,
                       fatal |-> FALSE]
BusyJob(r, f) == [StatusJob(r, "BUSY", NoCall) EXCEPT !.fatal = f]

Label == {"idle", "ensure", "rollback", "select", "update", "commit", "originate", "pop"}

\* Mutant of Matches: the number is not compared.
MatchesContextOnly(r, s) == <<Context[r], Context[s]>> \in Prefix

\* An entry of row r is the one event_listener takes for a channel of row s:
\* channel.startswith("Local/{dst}@{context_outbound}").
Matches(r, s) == Dst[r] = Dst[s] /\ <<Context[r], Context[s]>> \in Prefix

FirstMatch(entries, s) == SelectInSeq(entries, LAMBDA r : Matches(r, s))

\* _pop_from_dst: drop the first entry of the row, if there is one.
PopFromDst(s, r) == RemoveFirst(s, r)

-----------------------------------------------------------------------------
(* PostgreSQL: the transaction of a process *)

\* The end of a transaction releases its locks.
Release(p) ==
  /\ owner' = [r \in Row |-> IF owner[r] = p THEN NoProc ELSE owner[r]]
  /\ holder' = [j \in JoinedRow |-> IF holder[j] = p THEN NoProc ELSE holder[j]]

Rollback(p) ==
  /\ Release(p)
  /\ draft' = [r \in Row |-> IF owner[r] = p THEN db[r] ELSE draft[r]]
  /\ UNCHANGED db

CommitTx(p) ==
  /\ db' = [r \in Row |-> IF owner[r] = p THEN draft[r] ELSE db[r]]
  /\ Release(p)
  /\ UNCHANGED draft

Free(p, r) == owner[r] \in {NoProc, p}

\* One statement at a time on a connection: a thread whose statement waits for
\* a row lock keeps the other thread's statements out.
Runs(p, t) == mode[p] # "down" /\ busy[p] \in {NoThread, t}

Goto(p, t, l) == pc' = [pc EXCEPT ![p][t] = l]
Become(p, t, l, j) == Goto(p, t, l) /\ job' = [job EXCEPT ![p][t] = j]

\* An exception of a database call.  In the polling loop process() logs it.
\* event_listener logs it and goes on to update_uniqueid.  In the callback of an
\* Originate it reaches the AMI library, whose thread may not survive it.
Raise(p, t) ==
  LET j == job[p][t] IN
  \/ /\ t = "main"
     /\ Become(p, t, "idle", NoJob)
     /\ UNCHANGED <<inbox, mode>>
  \/ /\ t = "ami" /\ j.call # NoCall
     /\ IF j.kind = "status"
        THEN Become(p, t, "ensure", [j EXCEPT !.kind = "uid"])
        ELSE Become(p, t, "idle", NoJob)
     /\ UNCHANGED <<inbox, mode>>
  \/ /\ t = "ami" /\ j.call = NoCall
     /\ Become(p, t, "idle", NoJob)
     /\ \/ UNCHANGED <<inbox, mode>>
        \/ /\ mode' = [mode EXCEPT ![p] = "deaf"]
           /\ inbox' = [inbox EXCEPT ![p] = <<>>]

-----------------------------------------------------------------------------
(* Database calls of a thread *)

\* A thread is at ensure_db_connected: first line of the poll and of the updates.
AtEnsure(p, t) == pc[p][t] = "ensure" \/ (t = "main" /\ pc[p][t] = "idle")

AfterEnsure(p, t) == IF job[p][t].kind = "none" THEN "select" ELSE "update"

\* ensure_db_connected: SELECT 1.  A dead connection is replaced.
Probe(p, t) ==
  /\ Runs(p, t) /\ AtEnsure(p, t)
  /\ \/ conn[p] = "ok" /\ Goto(p, t, "rollback") /\ UNCHANGED conn
     \/ /\ conn[p] = "dead"
        /\ conn' = [conn EXCEPT ![p] = "ok"]
        /\ Goto(p, t, AfterEnsure(p, t))
  /\ UNCHANGED <<dbVars, busy, job, mapVars, inbox, envVars>>

\* ... and ROLLBACK of whatever the connection has open, the statements of the
\* other thread included; here too a dead connection is replaced.
ProbeRollback(p, t) ==
  /\ Runs(p, t) /\ pc[p][t] = "rollback"
  /\ Rollback(p)
  /\ conn' = [conn EXCEPT ![p] = "ok"]
  /\ Goto(p, t, AfterEnsure(p, t))
  /\ UNCHANGED <<busy, job, mapVars, inbox, envVars>>

\* The server cannot be reached, or SELECT 1 fails because the transaction is
\* aborted: that error is not one of the two the except clause names.
EnsureRaises(p, t) ==
  /\ Runs(p, t)
  /\ \/ AtEnsure(p, t) /\ conn[p] # "ok"
     \/ pc[p][t] = "rollback" /\ conn[p] = "dead"
  /\ Raise(p, t)
  /\ UNCHANGED <<dbVars, connVars, mapVars, call, faults>>

\* Mutant of Due: PENDING rows are never taken again.
DueNew(p) == {r \in Row : Free(p, r) /\ draft[r].ripe /\ draft[r].status = "NEW"}

\* The rows the WHERE clause finds, without those SKIP LOCKED passes at once.
Due(p) ==
  {r \in Row : Free(p, r) /\ draft[r].ripe /\ draft[r].status \in {"NEW", "PENDING"}}

\* FOR UPDATE names no table: it locks the row and then the rows joined to it, up
\* to the first that another transaction holds.
Granted(p, r) ==
  {Joined[r][i] : i \in {i \in 1 .. Len(Joined[r]) :
     \A k \in 1 .. i : holder[Joined[r][k]] \in {NoProc, p}}}

Eligible(p) == {r \in Due(p) : Granted(p, r) = Range(Joined[r])}

\* A row it skips for the sake of a joined row stays locked, as LIMIT 1 finds one.
Passed(p) == {r \in Due(p) : r <= Min(Eligible(p))}

\* SELECT ... FOR UPDATE SKIP LOCKED; no row: ROLLBACK and ValueError.
SelectFirst(p) ==
  /\ Runs(p, "main") /\ pc[p]["main"] = "select" /\ conn[p] = "ok"
  /\ \/ /\ Eligible(p) = {}
        /\ Rollback(p)
        /\ Goto(p, "main", "idle")
        /\ UNCHANGED job
     \/ /\ Eligible(p) # {}
        /\ owner' = [r \in Row |-> IF r \in Passed(p) THEN p ELSE owner[r]]
        /\ holder' = [j \in JoinedRow |->
             IF \E r \in Passed(p) : j \in Granted(p, r) THEN p ELSE holder[j]]
        /\ Become(p, "main", "update", ClaimJob(Min(Eligible(p))))
        /\ UNCHANGED <<db, draft>>
  /\ UNCHANGED <<connVars, mapVars, inbox, envVars>>

Written(j) ==
  IF j.kind = "uid" THEN [draft[j.row] EXCEPT !.uid = j.call]
  ELSE [draft[j.row] EXCEPT !.status = j.status, !.ripe = FALSE]

\* The UPDATE of select_first_available, update_call_status, update_uniqueid.
Update(p, t) ==
  /\ Runs(p, t) /\ pc[p][t] = "update" /\ conn[p] = "ok"
  /\ LET j == job[p][t] IN
       /\ Free(p, j.row)
       /\ owner' = [owner EXCEPT ![j.row] = p]
       /\ draft' = [draft EXCEPT ![j.row] = Written(j)]
  /\ busy' = [busy EXCEPT ![p] = NoThread]
  /\ Goto(p, t, "commit")
  /\ UNCHANGED <<db, holder, conn, job, mapVars, inbox, envVars>>

\* The row is locked by another process: the statement waits.
UpdateWaits(p, t) ==
  /\ Runs(p, t) /\ pc[p][t] = "update" /\ conn[p] = "ok"
  /\ ~Free(p, job[p][t].row)
  /\ busy[p] = NoThread
  /\ busy' = [busy EXCEPT ![p] = t]
  /\ UNCHANGED <<dbVars, conn, threadVars, mapVars, inbox, envVars>>

AfterCommit(p, t) ==
  LET j == job[p][t] IN
  CASE j.kind = "claim" -> Become(p, t, "originate", j)
    [] j.kind = "status" /\ j.call # NoCall ->
         Become(p, t, "ensure", [j EXCEPT !.kind = "uid"])
    [] j.kind = "status" /\ j.call = NoCall -> Become(p, t, "pop", j)
    [] OTHER -> Become(p, t, "idle", NoJob)

\* Mutant of Commit: select_first_available returns without its commit.
CommitExceptClaim(p, t) ==
  /\ Runs(p, t) /\ pc[p][t] = "commit" /\ conn[p] # "dead"
  /\ IF job[p][t].kind = "claim" THEN UNCHANGED <<dbVars, conn>>
     ELSE CommitTx(p) /\ conn' = [conn EXCEPT ![p] = "ok"]
  /\ AfterCommit(p, t)
  /\ UNCHANGED <<busy, mapVars, inbox, envVars>>

\* conn.commit() ends the transaction of the connection, whoever opened it; on
\* an aborted one the server rolls back and the call returns as usual.
Commit(p, t) ==
  /\ Runs(p, t) /\ pc[p][t] = "commit" /\ conn[p] # "dead"
  /\ CommitTx(p)
  /\ conn' = [conn EXCEPT ![p] = "ok"]
  /\ AfterCommit(p, t)
  /\ UNCHANGED <<busy, mapVars, inbox, envVars>>

\* A statement on a connection that is dead or whose transaction is aborted.
StatementRaises(p, t) ==
  /\ Runs(p, t)
  /\ \/ pc[p][t] \in {"select", "update"} /\ conn[p] # "ok"
     \/ pc[p][t] = "commit" /\ conn[p] = "dead"
  /\ Raise(p, t)
  /\ busy' = [busy EXCEPT ![p] = NoThread]
  /\ UNCHANGED <<dbVars, conn, mapVars, call, faults>>

-----------------------------------------------------------------------------
(* call_dst and the end of _mark_busy *)

Unused == {c \in Call : call[c].state = "unused"}

Placed(c, r, p, s) ==
  call' = [call EXCEPT ![c] = [row |-> r, by |-> p, state |-> s, dials |-> 0]]

\* active_calls_by_dst gets the entry, then send_action: the request reaches
\* Asterisk, is lost in the socket of a dead connection, or raises (OSError, or
\* an error that is only logged) and _mark_busy starts.
Originate(p) ==
  /\ mode[p] # "down" /\ pc[p]["main"] = "originate"
  /\ Unused # {}
  /\ LET r == job[p]["main"].row
         c == Min(Unused)
     IN /\ waitlist' = [waitlist EXCEPT ![p] = Append(@, r)]
        /\ \/ /\ mode[p] = "up"
              /\ Placed(c, r, p, "requested")
              /\ Become(p, "main", "idle", NoJob)
           \/ /\ mode[p] = "deaf"
              /\ Placed(c, r, NoProc, "failed")
              /\ \/ Become(p, "main", "idle", NoJob)
                 \/ \E fatal \in BOOLEAN :
                      Become(p, "main", "ensure", BusyJob(r, fatal))
  /\ UNCHANGED <<dbVars, connVars, tracked, inbox, mode, faults>>

\* The process ends: PostgreSQL rolls its transaction back and its maps are
\* gone.  systemd restarts the whole service when the parent ends, and does not
\* notice the end of a child.
Ends(p) ==
  LET gone == IF p = Parent THEN Proc ELSE {p}
      Reset(f, v) == [q \in Proc |-> IF q \in gone THEN v ELSE f[q]]
  IN /\ mode' = Reset(mode, IF p = Parent THEN "up" ELSE "down")
     /\ owner' = [r \in Row |-> IF owner[r] \in gone THEN NoProc ELSE owner[r]]
     /\ holder' = [j \in JoinedRow |-> IF holder[j] \in gone THEN NoProc ELSE holder[j]]
     /\ draft' = [r \in Row |-> IF owner[r] \in gone THEN db[r] ELSE draft[r]]
     /\ conn' = Reset(conn, "ok")
     /\ busy' = Reset(busy, NoThread)
     /\ pc' = Reset(pc, [t \in Thread |-> "idle"])
     /\ job' = Reset(job, [t \in Thread |-> NoJob])
     /\ waitlist' = Reset(waitlist, <<>>)
     /\ tracked' = Reset(tracked, [c \in Call |-> NoRow])
     /\ inbox' = Reset(inbox, <<>>)
     /\ call' = [c \in Call |-> IF call[c].by \in gone
                                THEN [call[c] EXCEPT !.by = NoProc] ELSE call[c]]
     /\ UNCHANGED db

\* The end of _mark_busy; after an OSError call_dst raises and the process exits.
PopEntry(p, t) ==
  /\ mode[p] # "down" /\ pc[p][t] = "pop"
  /\ \/ job[p][t].fatal /\ Ends(p) /\ UNCHANGED faults
     \/ /\ ~job[p][t].fatal
        /\ waitlist' = [waitlist EXCEPT ![p] = PopFromDst(@, job[p][t].row)]
        /\ Become(p, t, "idle", NoJob)
        /\ UNCHANGED <<dbVars, connVars, tracked, inbox, envVars>>

-----------------------------------------------------------------------------
(* event_listener and _on_originate_response, in the AMI thread *)

\* The next event is of this kind; it is taken from the inbox.
Receives(p, k) ==
  /\ mode[p] # "down" /\ pc[p]["ami"] = "idle"
  /\ inbox[p] # <<>> /\ Head(inbox[p]).kind = k
  /\ inbox' = [inbox EXCEPT ![p] = Tail(@)]

\* The first entry that matches the channel's name moves to the tracked calls,
\* unless the channel is tracked already.
OnDialBegin(p) ==
  /\ Receives(p, "DialBegin")
  /\ LET c == Head(inbox[p]).call
         at == FirstMatch(waitlist[p], call[c].row)
     IN IF tracked[p][c] # NoRow \/ at = 0 THEN UNCHANGED mapVars
        ELSE /\ tracked' = [tracked EXCEPT ![p][c] = waitlist[p][at]]
             /\ waitlist' = [waitlist EXCEPT ![p] = RemoveAt(@, at)]
  /\ UNCHANGED <<dbVars, connVars, threadVars, envVars>>

\* Mutant of Finish: the channel is looked up and not removed.
FinishKeepsTracking(p, c, s) ==
  /\ IF tracked[p][c] = NoRow THEN UNCHANGED threadVars
     ELSE Become(p, "ami", "ensure", StatusJob(tracked[p][c], s, c))
  /\ UNCHANGED <<dbVars, connVars, mapVars, envVars>>

\* The channel stops being tracked; its row, if any, is to get the status.
Finish(p, c, s) ==
  /\ tracked' = [tracked EXCEPT ![p][c] = NoRow]
  /\ IF tracked[p][c] = NoRow THEN UNCHANGED threadVars
     ELSE Become(p, "ami", "ensure", StatusJob(tracked[p][c], s, c))
  /\ UNCHANGED <<dbVars, connVars, waitlist, envVars>>

\* Mutant of OnDialEnd: the status of the DialEnd is not looked at.
OnAnyDialEnd(p) ==
  \E k \in {"DialEndAnswer", "DialEndOther"} :
    Receives(p, k) /\ Finish(p, Head(inbox[p]).call, "ANSWERED")

OnDialEnd(p) ==
  \/ /\ Receives(p, "DialEndAnswer")
     /\ Finish(p, Head(inbox[p]).call, "ANSWERED")
  \/ /\ Receives(p, "DialEndOther")
     /\ UNCHANGED <<dbVars, connVars, threadVars, mapVars, envVars>>

OnHangup(p) ==
  /\ Receives(p, "Hangup")
  /\ Finish(p, Head(inbox[p]).call, "BUSY")

OnOriginateError(p) ==
  /\ Receives(p, "OriginateError")
  /\ Become(p, "ami", "ensure", BusyJob(call[Head(inbox[p]).call].row, FALSE))
  /\ UNCHANGED <<dbVars, connVars, mapVars, envVars>>

\* _health_check_loop: no reply to the Ping, os._exit(1).
HealthCheckExits(p) == mode[p] = "deaf" /\ Ends(p) /\ UNCHANGED faults

-----------------------------------------------------------------------------
(* Asterisk: every process has an AMI connection of its own and gets every     *)
(* event; the reply to an Originate goes to the process that sent it.          *)

Broadcast(evs) ==
  inbox' = [p \in Proc |-> IF mode[p] = "up" THEN inbox[p] \o evs ELSE inbox[p]]

CallStep(c, from, to) ==
  /\ call[c].state = from
  /\ call' = [call EXCEPT ![c].state = to, ![c].dials = 0]
  /\ UNCHANGED <<dbVars, connVars, threadVars, mapVars, mode, faults>>

\* Originate is answered with an error.
Refuse(c) ==
  /\ CallStep(c, "requested", "failed")
  /\ IF call[c].by # NoProc /\ mode[call[c].by] = "up"
     THEN inbox' = [inbox EXCEPT ![call[c].by] = Append(@, Ev("OriginateError", c))]
     ELSE UNCHANGED inbox

\* The call ends before the dialplan dials: nothing tracks its channel.
EndUndialled(c) == CallStep(c, "requested", "failed") /\ UNCHANGED inbox

Dial(c) ==
  /\ CallStep(c, "requested", "dialing")
  /\ Broadcast(<<Ev("DialBegin", c)>>)

\* One attempt fails and dial_with_retry makes the next one on the same channel.
DialAgain(c) ==
  /\ call[c].state = "dialing" /\ call[c].dials + 1 < MaxDials
  /\ call' = [call EXCEPT ![c].dials = @ + 1]
  /\ Broadcast(<<Ev("DialEndOther", c), Ev("DialBegin", c)>>)
  /\ UNCHANGED <<dbVars, connVars, threadVars, mapVars, mode, faults>>

Answer(c) ==
  /\ CallStep(c, "dialing", "talking")
  /\ Broadcast(<<Ev("DialEndAnswer", c)>>)

HangUp(c) ==
  \/ /\ CallStep(c, "dialing", "failed")
     /\ Broadcast(<<Ev("DialEndOther", c), Ev("Hangup", c)>>)
  \/ /\ CallStep(c, "talking", "ended")
     /\ Broadcast(<<Ev("Hangup", c)>>)

-----------------------------------------------------------------------------
(* Time and faults *)

\* Some part of the daemon or of Asterisk is still busy with a call of the row.
InFlight(r) ==
  \/ \E c \in Call : call[c].row = r /\ call[c].state \in {"requested", "dialing"}
  \/ \E p \in Proc : \E t \in Thread : job[p][t].row = r
  \/ \E p \in Proc : \E i \in 1 .. Len(inbox[p]) : call[inbox[p][i].call].row = r

\* schedule_time comes, or ten minutes pass since the row was updated.
Ripen(r) ==
  /\ owner[r] = NoProc /\ ~db[r].ripe /\ db[r].status \in {"NEW", "PENDING"}
  /\ db[r].status = "PENDING" /\ InFlight(r) => SlowCalls
  /\ db' = [db EXCEPT ![r].ripe = TRUE]
  /\ draft' = [draft EXCEPT ![r].ripe = TRUE]
  /\ UNCHANGED <<owner, holder, connVars, threadVars, mapVars, inbox, envVars>>

\* PostgreSQL ends one transaction of a cycle of waiting statements.
WaitsFor(p) == IF busy[p] = NoThread THEN NoProc ELSE owner[job[p][busy[p]].row]
InCycle(p) == \E S \in SUBSET Proc :
  p \in S /\ {WaitsFor(q) : q \in S} = S

DeadlockDetected(p) ==
  /\ busy[p] # NoThread /\ InCycle(p)
  /\ Rollback(p)
  /\ conn' = [conn EXCEPT ![p] = "aborted"]
  /\ UNCHANGED <<busy, threadVars, mapVars, inbox, envVars>>

Fault == faults < MaxFaults /\ faults' = faults + 1

DbLost(p) ==
  /\ Fault /\ mode[p] # "down" /\ conn[p] # "dead"
  /\ Rollback(p)
  /\ conn' = [conn EXCEPT ![p] = "dead"]
  /\ UNCHANGED <<busy, threadVars, mapVars, inbox, mode, call>>

AmiLost(p) ==
  /\ Fault /\ mode[p] = "up"
  /\ mode' = [mode EXCEPT ![p] = "deaf"]
  /\ UNCHANGED <<dbVars, connVars, threadVars, mapVars, inbox, call>>

\* A crash, a kill, a restart of the service.
Killed(p) == Fault /\ mode[p] # "down" /\ Ends(p)

\* The bound on calls is reached: the model stops here, the daemon does not.
Bounded == Unused = {} /\ UNCHANGED vars

-----------------------------------------------------------------------------

Init ==
  /\ db = [r \in Row |-> [status |-> "NEW", ripe |-> FALSE, uid |-> NoCall]]
  /\ draft = db
  /\ owner = [r \in Row |-> NoProc]
  /\ holder = [j \in JoinedRow |-> NoProc]
  /\ conn = [p \in Proc |-> "ok"]
  /\ busy = [p \in Proc |-> NoThread]
  /\ mode = [p \in Proc |-> "up"]
  /\ pc = [p \in Proc |-> [t \in Thread |-> "idle"]]
  /\ job = [p \in Proc |-> [t \in Thread |-> NoJob]]
  /\ waitlist = [p \in Proc |-> <<>>]
  /\ tracked = [p \in Proc |-> [c \in Call |-> NoRow]]
  /\ inbox = [p \in Proc |-> <<>>]
  /\ call = [c \in Call |-> NewCall]
  /\ faults = 0

ThreadStep(p, t) ==
  \/ Probe(p, t)
  \/ ProbeRollback(p, t)
  \/ EnsureRaises(p, t)
  \/ Update(p, t)
  \/ UpdateWaits(p, t)
  \/ Commit(p, t)
  \/ StatementRaises(p, t)
  \/ PopEntry(p, t)

MainStep(p) == SelectFirst(p) \/ Originate(p)

ListenerStep(p) ==
  \/ OnDialBegin(p)
  \/ OnDialEnd(p)
  \/ OnHangup(p)
  \/ OnOriginateError(p)

CallEvent(c) ==
  \/ Refuse(c)
  \/ EndUndialled(c)
  \/ Dial(c)
  \/ DialAgain(c)
  \/ Answer(c)
  \/ HangUp(c)

Next ==
  \/ \E p \in Proc, t \in Thread : ThreadStep(p, t)
  \/ \E p \in Proc : MainStep(p) \/ ListenerStep(p) \/ HealthCheckExits(p)
  \/ \E p \in Proc : DeadlockDetected(p) \/ DbLost(p) \/ AmiLost(p) \/ Killed(p)
  \/ \E c \in Call : CallEvent(c)
  \/ \E r \in Row : Ripen(r)
  \/ Bounded

Spec == Init /\ [][Next]_vars

\* Threads of a living process keep running, PostgreSQL grants row locks in
\* order and breaks deadlocks, a call ends in finite time (the Timeout of the
\* Originate, TIMEOUT(absolute) of the dialplan) and time passes.
Fairness ==
  /\ \A p \in Proc, t \in Thread :
       /\ WF_vars(ThreadStep(p, t))
       /\ WF_vars(Probe(p, t) \/ ProbeRollback(p, t))
       /\ SF_vars(Update(p, t))
  /\ \A p \in Proc :
       /\ WF_vars(MainStep(p))
       /\ WF_vars(ListenerStep(p))
       /\ WF_vars(HealthCheckExits(p))
       /\ WF_vars(DeadlockDetected(p))
  /\ \A c \in Call : WF_vars(CallEvent(c))
  /\ \A r \in Row : WF_vars(Ripen(r))

FairSpec == Spec /\ Fairness

-----------------------------------------------------------------------------
(* Properties *)

\* Every variable has its type.
TypeOK ==
  /\ db \in [Row -> RowState]
  /\ draft \in [Row -> RowState]
  /\ owner \in [Row -> Proc \cup {NoProc}]
  /\ holder \in [JoinedRow -> Proc \cup {NoProc}]
  /\ conn \in [Proc -> {"ok", "dead", "aborted"}]
  /\ busy \in [Proc -> Thread \cup {NoThread}]
  /\ mode \in [Proc -> {"up", "deaf", "down"}]
  /\ pc \in [Proc -> [Thread -> Label]]
  /\ job \in [Proc -> [Thread -> Job]]
  /\ waitlist \in [Proc -> Seq(Row)]
  /\ tracked \in [Proc -> [Call -> Row \cup {NoRow}]]
  /\ inbox \in [Proc -> Seq(Event)]
  /\ call \in [Call -> CallRec]
  /\ faults \in 0 .. MaxFaults

Holds(p) == (\E r \in Row : owner[r] = p) \/ (\E j \in JoinedRow : holder[j] = p)

\* A lock on a row, or on a service, route or context, is held only while a thread
\* of its process is between a statement and the commit: whatever the two threads
\* do to each other's transaction, no process goes back to polling with one.
NoOrphanLock ==
  \A p \in Proc : Holds(p) =>
    \/ \E t \in Thread : pc[p][t] = "commit"
    \/ pc[p]["main"] = "update" /\ job[p]["main"].kind = "claim"

Answered(c) == call[c].state \in {"talking", "ended"}

\* A row is reported ANSWERED only if a call to the number it asks for was
\* answered: no mix of retries, lost events, restarts and rolled back
\* transactions credits a customer with a conversation nobody had.
AnsweredIsReal ==
  \A r \in Row : db[r].status = "ANSWERED" =>
    \E c \in Call : Answered(c) /\ Dst[call[c].row] = Dst[r]

\* The Hangup that ends an answered call never turns a row BUSY: the DialEnd that
\* came before it on the same connection has already taken the channel out of
\* active_calls_by_channel_uid.
AnsweredCallNeverBusy ==
  \A p \in Proc, t \in Thread :
    LET j == job[p][t] IN
      j.kind = "status" /\ j.status = "BUSY" /\ j.call # NoCall => ~Answered(j.call)

\* The recording the report links to a row is of a call to that row's number.
UidOfSameNumber ==
  \A r \in Row : db[r].uid # NoCall => Dst[call[db[r].uid].row] = Dst[r]

\* Every request is settled, or the model's calls run out: no rolled back claim,
\* lost event, failed Originate or restart leaves a row behind.
EveryRequestSettles ==
  \A r \in Row : db[r].status \in {"NEW", "PENDING"} ~>
    (db[r].status \in {"ANSWERED", "BUSY"} \/ Unused = {})

-----------------------------------------------------------------------------
(* What the documentation says and the code does not do *)

\* callback.py:229: select_first_available "locks the selected row to prevent
\* other processes from accessing it".
OneClaimant ==
  \A p, q \in Proc : LET a == job[p]["main"]  b == job[q]["main"] IN
    /\ a.kind = "claim" /\ pc[p]["main"] \in {"update", "commit"}
    /\ b.kind = "claim" /\ pc[q]["main"] \in {"update", "commit"}
    /\ a.row = b.row
    => p = q

\* services/callback/README.md:11: "Transaction-safe database operations".  The
\* commit of update_call_status makes the status it wrote visible.
CommitKeepsStatus ==
  [][\A p \in Proc : LET j == job[p]["ami"] IN
       (j.kind = "status" /\ pc[p]["ami"] = "commit"
         /\ pc[p]["ami"]' # "commit" /\ mode[p] = "up" /\ conn[p] = "ok"
         /\ faults' = faults /\ mode' = mode)
       => db[j.row].status' = j.status]_vars

\* services/callback/README.md:7: it "monitors a PostgreSQL database for pending
\* callback requests": a living process with a reachable database polls again.
KeepsPolling ==
  \A p \in Proc : []<>(mode[p] # "up" \/ pc[p]["main"] \in {"select", "originate"})

=============================================================================
