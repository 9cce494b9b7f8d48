--------------------------- MODULE CallbackProofs ---------------------------
(***************************************************************************)
(* What CallbackDaemon guarantees for every number of processes, rows and  *)
(* calls, whatever the threads do to each other's transaction.             *)
(***************************************************************************)
EXTENDS CallbackDaemon, WellFoundedInduction, TLAPS

-----------------------------------------------------------------------------
(* The helpers on sequences and sets *)

\* Min picks a member of a non-empty set of naturals.
LEMMA MinIsMember ==
  ASSUME NEW S \in SUBSET Nat, S # {}
  PROVE  Min(S) \in S
<1> DEFINE R == OpToRel(<, Nat)
<1>1. IsWellFoundedOn(R, Nat)
  BY NatLessThanWellFounded
<1>2. \A m, n \in Nat : m < n => <<m, n>> \in R
  BY DEF OpToRel
<1> HIDE DEF R
<1>3. \E n \in S : \A m \in S : ~ (<<m, n>> \in R)
  BY <1>1, WFMin
<1>4. \E n \in S : \A m \in S : n <= m
  <2>1. PICK n \in S : \A m \in S : ~ (<<m, n>> \in R)
    BY <1>3
  <2>2. n \in Nat /\ \A m \in S : m \in Nat
    OBVIOUS
  <2>3. \A m \in S : ~ (m < n)
    BY <2>1, <2>2, <1>2
  <2>4. \A m \in S : n <= m
    BY <2>2, <2>3
  <2> QED BY <2>4
<1> QED BY <1>4 DEF Min

\* Removing a position of a sequence leaves a sequence of the same elements.
LEMMA RemoveAtType ==
  ASSUME NEW S, NEW s \in Seq(S), NEW i \in 1 .. Len(s)
  PROVE  RemoveAt(s, i) \in Seq(S)
<1>1. SubSeq(s, 1, i - 1) \in Seq(S) /\ SubSeq(s, i + 1, Len(s)) \in Seq(S)
  OBVIOUS
<1> QED BY <1>1 DEF RemoveAt

\* _pop_from_dst keeps a list of rows a list of rows.
LEMMA PopFromDstType ==
  ASSUME NEW S, NEW s \in Seq(S), NEW e
  PROVE  PopFromDst(s, e) \in Seq(S)
<1> DEFINE I == {i \in 1 .. Len(s) : s[i] = e}
<1>1. CASE \E i \in 1 .. Len(s) : s[i] = e
  <2>1. I \in SUBSET Nat /\ I # {}
    BY <1>1
  <2>3. Min(I) \in I
    BY <2>1, MinIsMember
  <2>2. SelectInSeq(s, LAMBDA v : v = e) = Min(I)
    BY <1>1 DEF SelectInSeq
  <2> QED BY <1>1, <2>2, <2>3, RemoveAtType DEF PopFromDst, RemoveFirst
<1>2. CASE ~ \E i \in 1 .. Len(s) : s[i] = e
  BY <1>2 DEF PopFromDst, RemoveFirst
<1> QED BY <1>1, <1>2

\* The entry event_listener finds is one of the list and matches the channel.
LEMMA MatchingEntry ==
  ASSUME NEW S, NEW s \in Seq(S), NEW x, FirstMatch(s, x) # 0
  PROVE  /\ FirstMatch(s, x) \in 1 .. Len(s)
         /\ s[FirstMatch(s, x)] \in S
         /\ Matches(s[FirstMatch(s, x)], x)
<1> DEFINE I == {i \in 1 .. Len(s) : Matches(s[i], x)}
<1>1. I \in SUBSET Nat /\ I # {} /\ FirstMatch(s, x) = Min(I)
  BY DEF FirstMatch, SelectInSeq
<1>2. FirstMatch(s, x) \in I
  BY <1>1, MinIsMember
<1> QED BY <1>2

-----------------------------------------------------------------------------
(* Type correctness.  TypeOK is not inductive: call_dst appends the row of its *)
(* job to active_calls_by_dst, which has to be a row.  The invariant adds that *)
(* a database call always has a row, and an event always names a call of one.  *)

RowsOK ==
  /\ db \in [Row -> RowState]
  /\ draft \in [Row -> RowState]
  /\ owner \in [Row -> Proc \cup {NoProc}]
  /\ holder \in [JoinedRow -> Proc \cup {NoProc}]

ConnOK ==
  /\ conn \in [Proc -> {"ok", "dead", "aborted"}]
  /\ busy \in [Proc -> Thread \cup {NoThread}]

JobFits(l, j) ==
  /\ j.kind # "none" => j.row \in Row
  /\ l \in {"update", "commit", "originate", "pop"} => j.kind # "none"

ThreadsOK ==
  /\ pc \in [Proc -> [Thread -> Label]]
  /\ job \in [Proc -> [Thread -> Job]]
  /\ \A p \in Proc, t \in Thread : JobFits(pc[p][t], job[p][t])

MapsOK ==
  /\ waitlist \in [Proc -> Seq(Row)]
  /\ tracked \in [Proc -> [Call -> Row \cup {NoRow}]]

ModesOK == mode \in [Proc -> {"up", "deaf", "down"}] /\ faults \in 0 .. MaxFaults

CallsOK ==
  /\ call \in [Call -> CallRec]
  /\ \A c \in Call : call[c].state # "unused" => call[c].row \in Row

InboxOK ==
  /\ inbox \in [Proc -> Seq(Event)]
  /\ \A p \in Proc : \A i \in 1 .. Len(inbox[p]) :
       call[inbox[p][i].call].state # "unused"

TypeInv == RowsOK /\ ConnOK /\ ThreadsOK /\ MapsOK /\ ModesOK /\ CallsOK /\ InboxOK

\* Ending the transaction of a process leaves rows rows.
LEMMA RowsEndOfTransaction ==
  ASSUME RowsOK, NEW p \in Proc, Rollback(p) \/ CommitTx(p)
  PROVE  RowsOK'
<1>1. CASE Rollback(p)
  BY <1>1 DEF RowsOK, Rollback, Release
<1>2. CASE CommitTx(p)
  BY <1>2 DEF RowsOK, CommitTx, Release
<1> QED BY <1>1, <1>2

\* A thread that moves on with a job that fits leaves the threads well formed.
LEMMA ThreadsBecome ==
  ASSUME ThreadsOK, NEW p \in Proc, NEW t \in Thread, NEW l \in Label, NEW j \in Job,
         JobFits(l, j), Become(p, t, l, j)
  PROVE  ThreadsOK'
BY DEF ThreadsOK, Become, Goto, JobFits

LEMMA ThreadsGoto ==
  ASSUME ThreadsOK, NEW p \in Proc, NEW t \in Thread, NEW l \in Label,
         JobFits(l, job[p][t]), Goto(p, t, l), UNCHANGED job
  PROVE  ThreadsOK'
BY DEF ThreadsOK, Goto, JobFits

\* The jobs the code makes.
LEMMA JobsAreJobs ==
  /\ NoJob \in Job
  /\ \A r \in Row : ClaimJob(r) \in Job
  /\ \A r \in Row, s \in Status, c \in Call \cup {NoCall} : StatusJob(r, s, c) \in Job
  /\ \A r \in Row, f \in BOOLEAN : BusyJob(r, f) \in Job
  /\ \A j \in Job : [j EXCEPT !.kind = "uid"] \in Job
BY DEF NoJob, Job, ClaimJob, StatusJob, BusyJob, Status

\* Placing calls and forgetting events leaves the inboxes well formed.
LEMMA FewerEvents ==
  ASSUME InboxOK, inbox' = [q \in Proc |-> inbox'[q]],
         \A q \in Proc : inbox'[q] \in {inbox[q], <<>>},
         \A d \in Call : call[d].state # "unused" => call'[d].state # "unused"
  PROVE  InboxOK'
<1>1. ASSUME NEW q \in Proc
      PROVE  inbox'[q] \in Seq(Event)
  <2>1. inbox[q] \in Seq(Event) /\ <<>> \in Seq(Event)
    BY DEF InboxOK
  <2> QED BY <2>1
<1>2. ASSUME NEW q \in Proc, NEW i \in 1 .. Len(inbox'[q])
      PROVE  call'[inbox'[q][i].call].state # "unused"
  <2>1. inbox'[q] = inbox[q]
    BY <1>2
  <2>2. inbox[q] \in Seq(Event) /\ i \in 1 .. Len(inbox[q])
    BY <2>1, <1>2 DEF InboxOK
  <2>3. inbox[q][i] \in Event
    BY <2>2
  <2>4. inbox[q][i].call \in Call
    BY <2>3 DEF Event
  <2> QED BY <2>1, <2>2, <2>4 DEF InboxOK
<1> QED BY <1>1, <1>2 DEF InboxOK

\* An exception leaves threads, processes and inboxes well formed.
LEMMA RaiseType ==
  ASSUME TypeInv, NEW p \in Proc, NEW t \in Thread, Raise(p, t), UNCHANGED <<call, faults>>
  PROVE  ThreadsOK' /\ ModesOK' /\ InboxOK'
<1> DEFINE j == job[p][t]
<1> USE DEF TypeInv
<1>1. j \in Job /\ JobFits(pc[p][t], j)
  BY DEF ThreadsOK
<1>2. ASSUME Become(p, t, "idle", NoJob)
      PROVE  ThreadsOK'
  BY <1>2, ThreadsBecome, JobsAreJobs DEF JobFits, Label, NoJob
<1>3. ASSUME j.kind = "status", Become(p, t, "ensure", [j EXCEPT !.kind = "uid"])
      PROVE  ThreadsOK'
  <2>1. JobFits("ensure", [j EXCEPT !.kind = "uid"])
    BY <1>1, <1>3 DEF JobFits, Job
  <2> QED BY <1>1, <1>3, <2>1, ThreadsBecome, JobsAreJobs DEF Label
<1>4. ThreadsOK'
  BY <1>2, <1>3 DEF Raise
<1>5. CASE UNCHANGED <<inbox, mode>>
  BY <1>4, <1>5 DEF ModesOK, InboxOK
<1>6. CASE /\ mode' = [mode EXCEPT ![p] = "deaf"]
           /\ inbox' = [inbox EXCEPT ![p] = <<>>]
  BY <1>4, <1>6 DEF ModesOK, InboxOK
<1> QED BY <1>5, <1>6, <1>4 DEF Raise

\* The end of a process leaves every variable well formed.
LEMMA EndsType ==
  ASSUME TypeInv, NEW p \in Proc, Ends(p)
  PROVE  RowsOK' /\ ConnOK' /\ ThreadsOK' /\ MapsOK' /\ CallsOK' /\ InboxOK'
         /\ mode' \in [Proc -> {"up", "deaf", "down"}]
<1> USE DEF TypeInv
<1>1. RowsOK'
  BY DEF Ends, RowsOK
<1>2. ConnOK' /\ mode' \in [Proc -> {"up", "deaf", "down"}]
  BY DEF Ends, ConnOK, ModesOK
<1>3. ThreadsOK'
  BY JobsAreJobs DEF Ends, ThreadsOK, JobFits, Label, NoJob
<1>4. MapsOK'
  BY DEF Ends, MapsOK
<1>5. CallsOK'
  BY ZenonT(40) DEF Ends, CallsOK, CallRec
<1>6. \A c \in Call : call'[c].state = call[c].state
  BY DEF Ends, CallsOK, CallRec
<1>7. InboxOK'
  <2>1. /\ inbox' = [q \in Proc |-> inbox'[q]]
        /\ \A q \in Proc : inbox'[q] \in {inbox[q], <<>>}
    BY DEF Ends, InboxOK
  <2> QED BY <2>1, <1>6, FewerEvents
<1> QED BY <1>1, <1>2, <1>3, <1>4, <1>5, <1>7

\* Every statement of a thread, and the end of _mark_busy, preserves TypeInv.
LEMMA ThreadStepType ==
  ASSUME TypeInv, NEW p \in Proc, NEW t \in Thread, ThreadStep(p, t)
  PROVE  TypeInv'
<1> USE DEF TypeInv
<1>0. /\ job[p][t] \in Job
      /\ pc[p][t] \in Label
      /\ JobFits(pc[p][t], job[p][t])
  BY DEF ThreadsOK
<1>l. /\ AfterEnsure(p, t) \in Label
      /\ JobFits(AfterEnsure(p, t), job[p][t])
      /\ JobFits("rollback", job[p][t])
  BY <1>0 DEF AfterEnsure, Label, JobFits
<1>1. CASE Probe(p, t)
  <2>1. ThreadsOK'
    BY <1>1, <1>l, ThreadsGoto DEF Probe, Label
  <2>2. ConnOK'
    BY <1>1 DEF Probe, ConnOK
  <2> QED BY <1>1, <2>1, <2>2
      DEF Probe, dbVars, mapVars, envVars, RowsOK, MapsOK, ModesOK, CallsOK, InboxOK
<1>2. CASE ProbeRollback(p, t)
  <2>1. ThreadsOK'
    BY <1>2, <1>l, ThreadsGoto DEF ProbeRollback
  <2>2. RowsOK'
    BY <1>2, RowsEndOfTransaction DEF ProbeRollback
  <2>3. ConnOK'
    BY <1>2 DEF ProbeRollback, ConnOK
  <2> QED BY <1>2, <2>1, <2>2, <2>3
      DEF ProbeRollback, mapVars, envVars, MapsOK, ModesOK, CallsOK, InboxOK
<1>3. CASE EnsureRaises(p, t)
  <2>1. ThreadsOK' /\ ModesOK' /\ InboxOK'
    BY <1>3, RaiseType DEF EnsureRaises
  <2> QED BY <1>3, <2>1
      DEF EnsureRaises, dbVars, connVars, mapVars, RowsOK, ConnOK, MapsOK, CallsOK
<1>4. CASE Update(p, t)
  <2>1. job[p][t].row \in Row
    BY <1>0, <1>4 DEF Update, JobFits
  <2>2. Written(job[p][t]) \in RowState
    BY <2>1, <1>0, ZenonT(40) DEF Written, RowState, RowsOK, Job
  <2>3. RowsOK'
    BY <1>4, <2>1, <2>2 DEF Update, RowsOK
  <2>4. ThreadsOK'
    <3>1. JobFits("commit", job[p][t])
      BY <1>0, <1>4 DEF Update, JobFits
    <3> QED BY <1>4, <3>1, ThreadsGoto DEF Update, Label
  <2>5. ConnOK'
    BY <1>4 DEF Update, ConnOK
  <2> QED BY <1>4, <2>3, <2>4, <2>5
      DEF Update, mapVars, envVars, MapsOK, ModesOK, CallsOK, InboxOK
<1>5. CASE UpdateWaits(p, t)
  <2>1. ConnOK'
    BY <1>5 DEF UpdateWaits, ConnOK
  <2> QED BY <1>5, <2>1 DEF UpdateWaits, dbVars, threadVars, mapVars, envVars,
                            RowsOK, ThreadsOK, MapsOK, ModesOK, CallsOK, InboxOK
<1>6. CASE Commit(p, t)
  <2>1. RowsOK'
    BY <1>6, RowsEndOfTransaction DEF Commit
  <2>2. ConnOK'
    BY <1>6 DEF Commit, ConnOK
  <2>3. ThreadsOK'
    <3> DEFINE j == job[p][t]
    <3>1. j.kind # "none" /\ j.row \in Row
      BY <1>0, <1>6 DEF Commit, JobFits
    <3>2. CASE j.kind = "claim"
      <4>1. Become(p, t, "originate", j)
        BY <1>6, <3>2 DEF Commit, AfterCommit
      <4> QED BY <4>1, <3>1, <1>0, ThreadsBecome DEF Label, JobFits
    <3>3. CASE j.kind = "status" /\ j.call # NoCall
      <4>1. Become(p, t, "ensure", [j EXCEPT !.kind = "uid"])
        BY <1>6, <3>3 DEF Commit, AfterCommit
      <4>2. JobFits("ensure", [j EXCEPT !.kind = "uid"])
        BY <3>1, <1>0 DEF JobFits, Job
      <4> QED BY <4>1, <4>2, <1>0, JobsAreJobs, ThreadsBecome DEF Label
    <3>4. CASE j.kind = "status" /\ j.call = NoCall
      <4>1. Become(p, t, "pop", j)
        BY <1>6, <3>4 DEF Commit, AfterCommit
      <4> QED BY <4>1, <3>1, <1>0, ThreadsBecome DEF Label, JobFits
    <3>5. CASE j.kind \notin {"claim", "status"}
      <4>1. Become(p, t, "idle", NoJob)
        BY <1>6, <3>5 DEF Commit, AfterCommit
      <4> QED BY <4>1, JobsAreJobs, ThreadsBecome DEF Label, JobFits, NoJob
    <3> QED BY <3>2, <3>3, <3>4, <3>5
  <2> QED BY <1>6, <2>1, <2>2, <2>3
      DEF Commit, mapVars, envVars, MapsOK, ModesOK, CallsOK, InboxOK
<1>7. CASE StatementRaises(p, t)
  <2>1. ThreadsOK' /\ ModesOK' /\ InboxOK'
    BY <1>7, RaiseType DEF StatementRaises
  <2>2. ConnOK'
    BY <1>7 DEF StatementRaises, ConnOK
  <2> QED BY <1>7, <2>1, <2>2
      DEF StatementRaises, dbVars, mapVars, RowsOK, MapsOK, CallsOK
<1>8. CASE PopEntry(p, t)
  <2>1. CASE Ends(p) /\ UNCHANGED faults
    BY <2>1, EndsType DEF ModesOK
  <2>2. CASE ~ job[p][t].fatal
    <3>1. waitlist' = [waitlist EXCEPT ![p] = PopFromDst(@, job[p][t].row)]
          /\ Become(p, t, "idle", NoJob)
          /\ UNCHANGED <<dbVars, connVars, tracked, inbox, envVars>>
      BY <1>8, <2>2 DEF PopEntry
    <3>2. PopFromDst(waitlist[p], job[p][t].row) \in Seq(Row)
      BY PopFromDstType DEF MapsOK
    <3>3. MapsOK'
      BY <3>1, <3>2 DEF MapsOK
    <3>4. ThreadsOK'
      BY <3>1, JobsAreJobs, ThreadsBecome DEF Label, JobFits, NoJob
    <3> QED BY <3>1, <3>3, <3>4
        DEF dbVars, connVars, envVars, RowsOK, ConnOK, ModesOK, CallsOK, InboxOK
  <2> QED BY <1>8, <2>1, <2>2 DEF PopEntry
<1> QED BY <1>1, <1>2, <1>3, <1>4, <1>5, <1>6, <1>7, <1>8 DEF ThreadStep

\* The polling loop preserves TypeInv.
LEMMA MainStepType ==
  ASSUME TypeInv, NEW p \in Proc, MainStep(p)
  PROVE  TypeInv'
<1> USE DEF TypeInv
<1>t. "main" \in Thread
  BY DEF Thread
<1>0. /\ job[p]["main"] \in Job
      /\ pc[p]["main"] \in Label
      /\ JobFits(pc[p]["main"], job[p]["main"])
  BY <1>t DEF ThreadsOK
<1>1. CASE SelectFirst(p)
  <2>1. CASE Rollback(p) /\ Goto(p, "main", "idle") /\ UNCHANGED job
    <3>1. JobFits("idle", job[p]["main"])
      BY <1>0 DEF JobFits
    <3>2. ThreadsOK' /\ RowsOK'
      BY <2>1, <3>1, <1>t, ThreadsGoto, RowsEndOfTransaction DEF Label
    <3> QED BY <1>1, <3>2 DEF SelectFirst, connVars, mapVars, envVars,
                              ConnOK, MapsOK, ModesOK, CallsOK, InboxOK
  <2>2. CASE /\ Eligible(p) # {}
             /\ owner' = [r \in Row |-> IF r \in Passed(p) THEN p ELSE owner[r]]
             /\ holder' = [j \in JoinedRow |->
                  IF \E r \in Passed(p) : j \in Granted(p, r) THEN p ELSE holder[j]]
             /\ Become(p, "main", "update", ClaimJob(Min(Eligible(p))))
             /\ UNCHANGED <<db, draft>>
    <3>1. Eligible(p) \in SUBSET Row /\ Eligible(p) \in SUBSET Nat
      BY CallbackAssumption DEF Eligible, Due
    <3>2. Min(Eligible(p)) \in Row
      BY <3>1, <2>2, MinIsMember
    <3>3. RowsOK'
      BY <2>2, <3>2 DEF RowsOK
    <3>4. JobFits("update", ClaimJob(Min(Eligible(p))))
      BY <3>2 DEF JobFits, ClaimJob, NoJob
    <3>5. ThreadsOK'
      BY <2>2, <3>2, <3>4, <1>t, JobsAreJobs, ThreadsBecome DEF Label
    <3> QED BY <1>1, <3>3, <3>5 DEF SelectFirst, connVars, mapVars, envVars,
                                    ConnOK, MapsOK, ModesOK, CallsOK, InboxOK
  <2> QED BY <1>1, <2>1, <2>2 DEF SelectFirst
<1>2. CASE Originate(p)
  <2> DEFINE r == job[p]["main"].row
             c == Min(Unused)
  <2>1. r \in Row
    BY <1>0, <1>2 DEF Originate, JobFits
  <2>2. c \in Call /\ call[c].state = "unused"
    <3>1. Unused \in SUBSET Nat /\ Unused # {}
      BY <1>2, CallbackAssumption DEF Originate, Unused, Call
    <3> QED BY <3>1, MinIsMember DEF Unused
  <2>3. MapsOK'
    BY <1>2, <2>1 DEF Originate, MapsOK
  <2>4. PICK q \in Proc \cup {NoProc}, st \in {"requested", "failed"} : Placed(c, r, q, st)
    BY <1>2 DEF Originate
  <2>5. CallsOK' /\ \A d \in Call : call[d].state # "unused" => call'[d].state # "unused"
    <3>1. [row |-> r, by |-> q, state |-> st, dials |-> 0] \in CallRec
      BY <2>1, CallbackAssumption DEF CallRec, CallState
    <3> HIDE DEF c, r
    <3> QED BY <2>1, <2>2, <2>4, <3>1 DEF Placed, CallsOK
  <2>6. ThreadsOK'
    <3>1. CASE Become(p, "main", "idle", NoJob)
      BY <3>1, <1>t, JobsAreJobs, ThreadsBecome DEF Label, JobFits, NoJob
    <3>2. ASSUME NEW f \in BOOLEAN, Become(p, "main", "ensure", BusyJob(r, f))
          PROVE  ThreadsOK'
      <4>1. JobFits("ensure", BusyJob(r, f))
        BY <2>1 DEF JobFits, BusyJob, StatusJob
      <4> QED BY <4>1, <3>2, <1>t, <2>1, JobsAreJobs, ThreadsBecome DEF Label
    <3> QED BY <1>2, <3>1, <3>2 DEF Originate
  <2>7. InboxOK'
    <3>1. inbox' = inbox
      BY <1>2 DEF Originate
    <3>2. /\ inbox' = [u \in Proc |-> inbox'[u]]
          /\ \A u \in Proc : inbox'[u] \in {inbox[u], <<>>}
      BY <3>1 DEF InboxOK
    <3> HIDE DEF r, c
    <3> QED BY <3>2, <2>5, FewerEvents
  <2> QED BY <1>2, <2>3, <2>5, <2>6, <2>7
      DEF Originate, dbVars, connVars, RowsOK, ConnOK, ModesOK
<1> QED BY <1>1, <1>2 DEF MainStep

\* Taking the next event leaves the inboxes well formed.
LEMMA ReceiveType ==
  ASSUME InboxOK, NEW p \in Proc, NEW k, Receives(p, k), UNCHANGED call
  PROVE  /\ InboxOK'
         /\ Head(inbox[p]) \in Event
         /\ call[Head(inbox[p]).call].state # "unused"
<1>1. inbox[p] \in Seq(Event) /\ inbox[p] # <<>>
  BY DEF InboxOK, Receives
<1>2. /\ Head(inbox[p]) = inbox[p][1]
      /\ Head(inbox[p]) \in Event
      /\ 1 \in 1 .. Len(inbox[p])
      /\ Tail(inbox[p]) \in Seq(Event)
      /\ \A i \in 1 .. Len(Tail(inbox[p])) :
           i + 1 \in 1 .. Len(inbox[p]) /\ Tail(inbox[p])[i] = inbox[p][i + 1]
  BY <1>1
<1>3. inbox' = [inbox EXCEPT ![p] = Tail(@)]
  BY DEF Receives
<1>4. ASSUME NEW q \in Proc, NEW i \in 1 .. Len(inbox'[q])
      PROVE  call[inbox'[q][i].call].state # "unused"
  <2>1. CASE q = p
    BY <2>1, <1>2, <1>3, <1>4 DEF InboxOK
  <2>2. CASE q # p
    BY <2>2, <1>3, <1>4 DEF InboxOK
  <2> QED BY <2>1, <2>2
<1> QED BY <1>2, <1>3, <1>4 DEF InboxOK

\* Finish leaves the threads and the maps well formed.
LEMMA FinishType ==
  ASSUME TypeInv, NEW p \in Proc, NEW c \in Call, NEW s \in Status, Finish(p, c, s)
  PROVE  ThreadsOK' /\ MapsOK'
<1> USE DEF TypeInv
<1>1. MapsOK'
  BY DEF Finish, MapsOK
<1>2. CASE tracked[p][c] = NoRow
  BY <1>1, <1>2 DEF Finish, threadVars, ThreadsOK
<1>3. CASE tracked[p][c] # NoRow
  <2>1. tracked[p][c] \in Row
    BY <1>3 DEF MapsOK
  <2>2. JobFits("ensure", StatusJob(tracked[p][c], s, c))
    BY <2>1 DEF JobFits, StatusJob
  <2>3. Become(p, "ami", "ensure", StatusJob(tracked[p][c], s, c))
    BY <1>3 DEF Finish
  <2>4. "ami" \in Thread /\ "ensure" \in Label
    BY DEF Thread, Label
  <2> QED BY <1>1, <2>1, <2>2, <2>3, <2>4, JobsAreJobs, ThreadsBecome
<1> QED BY <1>2, <1>3

\* The handlers of event_listener and the Originate callback preserve TypeInv.
LEMMA ListenerStepType ==
  ASSUME TypeInv, NEW p \in Proc, ListenerStep(p)
  PROVE  TypeInv'
<1> USE DEF TypeInv
<1> DEFINE c == Head(inbox[p]).call
<1>t. "ami" \in Thread /\ "ensure" \in Label
  BY DEF Thread, Label
<1>0. ASSUME NEW k, Receives(p, k), UNCHANGED call
      PROVE  InboxOK' /\ c \in Call /\ call[c].row \in Row
  BY <1>0, ReceiveType DEF Event, CallsOK
<1>1. CASE OnDialBegin(p)
  <2>1. InboxOK' /\ c \in Call
    BY <1>0, <1>1 DEF OnDialBegin, envVars
  <2>2. MapsOK'
    <3> DEFINE at == FirstMatch(waitlist[p], call[c].row)
    <3>1. CASE UNCHANGED mapVars
      BY <3>1, SMTT(20) DEF mapVars, MapsOK
    <3>2. CASE /\ at # 0
               /\ tracked' = [tracked EXCEPT ![p][c] = waitlist[p][at]]
               /\ waitlist' = [waitlist EXCEPT ![p] = RemoveAt(@, at)]
      <4>1. at \in 1 .. Len(waitlist[p]) /\ waitlist[p][at] \in Row
        BY <3>2, MatchingEntry DEF MapsOK
      <4>2. RemoveAt(waitlist[p], at) \in Seq(Row)
        BY <4>1, RemoveAtType DEF MapsOK
      <4> QED BY <3>2, <4>1, <4>2 DEF MapsOK
    <3> QED BY <1>1, <3>1, <3>2 DEF OnDialBegin
  <2> QED BY <1>1, <2>1, <2>2 DEF OnDialBegin, dbVars, connVars, threadVars, envVars,
                                  RowsOK, ConnOK, ThreadsOK, ModesOK, CallsOK
<1>2. ASSUME NEW k, NEW s \in Status, Receives(p, k), Finish(p, c, s)
      PROVE  TypeInv'
  <2>1. InboxOK' /\ c \in Call
    BY <1>0, <1>2 DEF Finish, envVars
  <2>2. ThreadsOK' /\ MapsOK'
    BY <1>2, <2>1, FinishType
  <2> QED BY <1>2, <2>1, <2>2
      DEF Finish, dbVars, connVars, envVars, RowsOK, ConnOK, ModesOK, CallsOK
<1>3. CASE OnDialEnd(p)
  <2>1. CASE Receives(p, "DialEndAnswer") /\ Finish(p, c, "ANSWERED")
    BY <1>2, <2>1 DEF Status
  <2>2. CASE /\ Receives(p, "DialEndOther")
             /\ UNCHANGED <<dbVars, connVars, threadVars, mapVars, envVars>>
    <3>1. InboxOK'
      BY <1>0, <2>2 DEF envVars
    <3> QED BY <2>2, <3>1 DEF dbVars, connVars, threadVars, mapVars, envVars,
                              RowsOK, ConnOK, ThreadsOK, MapsOK, ModesOK, CallsOK
  <2> QED BY <1>3, <2>1, <2>2 DEF OnDialEnd
<1>4. CASE OnHangup(p)
  BY <1>2, <1>4 DEF OnHangup, Status
<1>5. CASE OnOriginateError(p)
  <2>1. InboxOK' /\ call[c].row \in Row
    BY <1>0, <1>5 DEF OnOriginateError, envVars
  <2>2. JobFits("ensure", BusyJob(call[c].row, FALSE)) /\ BusyJob(call[c].row, FALSE) \in Job
    BY <2>1, JobsAreJobs DEF JobFits, BusyJob, StatusJob
  <2>3. ThreadsOK'
    BY <1>5, <1>t, <2>2, ThreadsBecome DEF OnOriginateError
  <2> QED BY <1>5, <2>1, <2>3 DEF OnOriginateError, dbVars, connVars, mapVars, envVars,
                                  RowsOK, ConnOK, MapsOK, ModesOK, CallsOK
<1> QED BY <1>1, <1>3, <1>4, <1>5 DEF ListenerStep

\* More events of placed calls at the end of some inboxes.
LEMMA MoreEvents ==
  ASSUME InboxOK, NEW evs \in Seq(Event),
         \A i \in 1 .. Len(evs) : call'[evs[i].call].state # "unused",
         \A d \in Call : call[d].state # "unused" => call'[d].state # "unused",
         \A q \in Proc : inbox'[q] \in {inbox[q], inbox[q] \o evs},
         inbox' = [q \in Proc |-> inbox'[q]]
  PROVE  InboxOK'
<1>1. ASSUME NEW q \in Proc
      PROVE  /\ inbox'[q] \in Seq(Event)
             /\ \A i \in 1 .. Len(inbox'[q]) : call'[inbox'[q][i].call].state # "unused"
  <2>0. inbox[q] \in Seq(Event)
    BY DEF InboxOK
  <2>1. \A i \in 1 .. Len(inbox[q]) : call'[inbox[q][i].call].state # "unused"
    <3> SUFFICES ASSUME NEW i \in 1 .. Len(inbox[q])
                 PROVE  call'[inbox[q][i].call].state # "unused"
      OBVIOUS
    <3>1. inbox[q][i] \in Event
      BY <2>0
    <3>2. inbox[q][i].call \in Call
      BY <3>1 DEF Event
    <3> QED BY <3>2 DEF InboxOK
  <2>2. CASE inbox'[q] = inbox[q]
    BY <2>0, <2>1, <2>2
  <2>3. CASE inbox'[q] = inbox[q] \o evs
    <3>1. /\ inbox[q] \o evs \in Seq(Event)
          /\ \A i \in 1 .. Len(inbox[q] \o evs) :
               \/ i \in 1 .. Len(inbox[q]) /\ (inbox[q] \o evs)[i] = inbox[q][i]
               \/ /\ i - Len(inbox[q]) \in 1 .. Len(evs)
                  /\ (inbox[q] \o evs)[i] = evs[i - Len(inbox[q])]
      BY <2>0
    <3> QED BY <2>1, <2>3, <3>1
  <2> QED BY <2>2, <2>3
<1> QED BY <1>1 DEF InboxOK

\* Asterisk's steps preserve TypeInv.
LEMMA CallEventType ==
  ASSUME TypeInv, NEW c \in Call, CallEvent(c)
  PROVE  TypeInv'
<1> USE DEF TypeInv
<1>0. call[c] \in CallRec /\ call \in [Call -> CallRec]
  BY DEF CallsOK
<1> DEFINE Good == /\ CallsOK'
                     /\ call[c].state # "unused" /\ call'[c].state # "unused"
                     /\ \A d \in Call : call[d].state # "unused" => call'[d].state # "unused"
<1>1. Good
  <2>1. ASSUME NEW f \in {"requested", "dialing", "talking"},
               NEW g \in {"dialing", "talking", "ended", "failed"}, CallStep(c, f, g)
        PROVE  Good
    <3>0. g \in CallState /\ 0 \in 0 .. MaxDials
      BY CallbackAssumption DEF CallState
    <3>1. [[call[c] EXCEPT !.state = g] EXCEPT !.dials = 0] \in CallRec
      BY <1>0, <3>0 DEF CallRec
    <3>2. call' = [call EXCEPT ![c] = [[call[c] EXCEPT !.state = g] EXCEPT !.dials = 0]]
          /\ call[c].state = f
      BY <2>1, <1>0 DEF CallStep, CallRec
    <3> QED BY <3>1, <3>2, <1>0 DEF CallsOK, CallRec
  <2>2. CASE DialAgain(c)
    BY <2>2, <1>0, CallbackAssumption DEF DialAgain, CallsOK, CallRec
  <2>3. CASE Refuse(c) \/ EndUndialled(c)
    BY <2>1, <2>3 DEF Refuse, EndUndialled
  <2>4. CASE Dial(c) \/ Answer(c)
    BY <2>1, <2>4 DEF Dial, Answer
  <2>5. CASE HangUp(c)
    BY <2>1, <2>5 DEF HangUp
  <2> QED BY <2>2, <2>3, <2>4, <2>5 DEF CallEvent
<1>u. ASSUME UNCHANGED inbox
      PROVE  InboxOK'
  <2>1. /\ inbox' = [q \in Proc |-> inbox'[q]]
        /\ \A q \in Proc : inbox'[q] \in {inbox[q], <<>>}
    BY <1>u DEF InboxOK
  <2> QED BY <2>1, <1>1, FewerEvents
<1>2. \A k \in EventKind : Ev(k, c) \in Event /\ Ev(k, c).call = c
  BY DEF Ev, Event
<1>3. ASSUME NEW evs \in Seq(Event), \A i \in 1 .. Len(evs) : evs[i].call = c,
             Broadcast(evs)
      PROVE  InboxOK'
  <2>1. /\ inbox' = [q \in Proc |-> inbox'[q]]
        /\ \A q \in Proc : inbox'[q] \in {inbox[q], inbox[q] \o evs}
    BY <1>3 DEF Broadcast
  <2> QED BY <1>1, <1>3, <2>1, MoreEvents
<1>4. InboxOK'
  <2>1. CASE Refuse(c)
    <3>1. CASE UNCHANGED inbox
      BY <1>u, <3>1
    <3>2. CASE inbox' = [inbox EXCEPT ![call[c].by] = Append(@, Ev("OriginateError", c))]
      <4> DEFINE evs == <<Ev("OriginateError", c)>>
      <4>1. evs \in Seq(Event) /\ \A i \in 1 .. Len(evs) : evs[i].call = c
        BY <1>2 DEF EventKind
      <4>2. \A q \in Proc : inbox[q] \in Seq(Event)
        BY DEF InboxOK
      <4>3. \A q \in Proc : Append(inbox[q], Ev("OriginateError", c)) = inbox[q] \o evs
        BY <4>1, <4>2
      <4>4. /\ inbox' = [q \in Proc |-> inbox'[q]]
            /\ \A q \in Proc : inbox'[q] \in {inbox[q], inbox[q] \o evs}
        BY <3>2, <4>3 DEF InboxOK
      <4> HIDE DEF evs
      <4> QED BY <1>1, <4>1, <4>4, MoreEvents
    <3> QED BY <2>1, <3>1, <3>2 DEF Refuse
  <2>2. CASE EndUndialled(c)
    BY <1>u, <2>2 DEF EndUndialled
  <2>3. ASSUME NEW k \in EventKind, Broadcast(<<Ev(k, c)>>)
        PROVE  InboxOK'
    <3> DEFINE evs == <<Ev(k, c)>>
    <3>1. evs \in Seq(Event) /\ \A i \in 1 .. Len(evs) : evs[i].call = c
      BY <1>2
    <3> HIDE DEF evs
    <3>2. Broadcast(evs)
      BY <2>3 DEF evs
    <3> QED BY <3>1, <3>2, <1>3
  <2>4. ASSUME NEW k \in EventKind, NEW l \in EventKind, Broadcast(<<Ev(k, c), Ev(l, c)>>)
        PROVE  InboxOK'
    <3> DEFINE evs == <<Ev(k, c), Ev(l, c)>>
    <3>1. evs \in Seq(Event) /\ \A i \in 1 .. Len(evs) : evs[i].call = c
      BY <1>2
    <3> HIDE DEF evs
    <3>2. Broadcast(evs)
      BY <2>4 DEF evs
    <3> QED BY <3>1, <3>2, <1>3
  <2>5. CASE Dial(c)
    BY <2>3, <2>5 DEF Dial, EventKind
  <2>6. CASE DialAgain(c)
    BY <2>4, <2>6 DEF DialAgain, EventKind
  <2>7. CASE Answer(c)
    BY <2>3, <2>7 DEF Answer, EventKind
  <2>8. CASE HangUp(c)
    BY <2>3, <2>4, <2>8 DEF HangUp, EventKind
  <2> QED BY <2>1, <2>2, <2>5, <2>6, <2>7, <2>8 DEF CallEvent
<1>5. UNCHANGED <<dbVars, connVars, threadVars, mapVars, mode, faults>>
  BY DEF CallEvent, Refuse, EndUndialled, Dial, DialAgain, Answer, HangUp, CallStep
<1> QED BY <1>1, <1>4, <1>5 DEF dbVars, connVars, threadVars, mapVars,
                                RowsOK, ConnOK, ThreadsOK, MapsOK, ModesOK

\* The initial state is well formed.
LEMMA InitType == Init => TypeInv
<1> SUFFICES ASSUME Init PROVE TypeInv
  OBVIOUS
<1>1. RowsOK /\ ConnOK /\ ModesOK
  BY CallbackAssumption DEF Init, RowsOK, ConnOK, ModesOK, RowState, Status
<1>2. ThreadsOK
  BY JobsAreJobs DEF Init, ThreadsOK, JobFits, Label, NoJob
<1>3. MapsOK /\ InboxOK
  BY DEF Init, MapsOK, InboxOK
<1>4. CallsOK
  BY CallbackAssumption DEF Init, CallsOK, NewCall, CallRec, CallState
<1> QED BY <1>1, <1>2, <1>3, <1>4 DEF TypeInv

\* Every step preserves TypeInv.
LEMMA NextType == TypeInv /\ [Next]_vars => TypeInv'
<1> SUFFICES ASSUME TypeInv, [Next]_vars PROVE TypeInv'
  OBVIOUS
<1> USE DEF TypeInv
<1>1. ASSUME NEW p \in Proc, NEW t \in Thread, ThreadStep(p, t)
      PROVE  TypeInv'
  BY <1>1, ThreadStepType
<1>2. ASSUME NEW p \in Proc, MainStep(p) \/ ListenerStep(p)
      PROVE  TypeInv'
  BY <1>2, MainStepType, ListenerStepType
<1>3. ASSUME NEW p \in Proc, Ends(p), faults' \in 0 .. MaxFaults
      PROVE  TypeInv'
  BY <1>3, EndsType DEF ModesOK
<1>4. ASSUME NEW p \in Proc, HealthCheckExits(p)
      PROVE  TypeInv'
  BY <1>3, <1>4 DEF HealthCheckExits, ModesOK
<1>f. Fault => faults' \in 0 .. MaxFaults
  BY CallbackAssumption DEF Fault, ModesOK
<1>5. ASSUME NEW p \in Proc, Killed(p)
      PROVE  TypeInv'
  BY <1>3, <1>5, <1>f DEF Killed
<1>6. ASSUME NEW p \in Proc, DeadlockDetected(p) \/ DbLost(p)
      PROVE  TypeInv'
  <2>1. RowsOK'
    BY <1>6, RowsEndOfTransaction DEF DeadlockDetected, DbLost
  <2>2. ConnOK'
    BY <1>6 DEF DeadlockDetected, DbLost, ConnOK
  <2>3. ModesOK'
    BY <1>6, <1>f DEF DeadlockDetected, DbLost, ModesOK, envVars
  <2> QED BY <1>6, <2>1, <2>2, <2>3 DEF DeadlockDetected, DbLost, threadVars, mapVars,
                                        envVars, ThreadsOK, MapsOK, CallsOK, InboxOK
<1>7. ASSUME NEW p \in Proc, AmiLost(p)
      PROVE  TypeInv'
  <2>1. ModesOK'
    BY <1>7, <1>f DEF AmiLost, ModesOK
  <2> QED BY <1>7, <2>1 DEF AmiLost, dbVars, connVars, threadVars, mapVars,
                            RowsOK, ConnOK, ThreadsOK, MapsOK, CallsOK, InboxOK
<1>8. ASSUME NEW c \in Call, CallEvent(c)
      PROVE  TypeInv'
  BY <1>8, CallEventType
<1>9. ASSUME NEW r \in Row, Ripen(r)
      PROVE  TypeInv'
  <2>1. RowsOK'
    BY <1>9, ZenonT(40) DEF Ripen, RowsOK, RowState
  <2> QED BY <1>9, <2>1 DEF Ripen, connVars, threadVars, mapVars, envVars,
                            ConnOK, ThreadsOK, MapsOK, ModesOK, CallsOK, InboxOK
<1>10. CASE UNCHANGED vars
  BY <1>10 DEF vars, dbVars, connVars, threadVars, mapVars, envVars,
               RowsOK, ConnOK, ThreadsOK, MapsOK, ModesOK, CallsOK, InboxOK
<1> QED BY <1>1, <1>2, <1>4, <1>5, <1>6, <1>7, <1>8, <1>9, <1>10 DEF Next, Bounded

\* Types, and with them: every database call of a thread names a row and every
\* event on its way names a call that was placed.
THEOREM TypeInvariant == Spec => []TypeInv
BY InitType, NextType, PTL DEF Spec

\* Every variable of the daemon keeps its type, in every behaviour.
THEOREM TypeCorrect == Spec => []TypeOK
<1>1. TypeInv => TypeOK
  BY DEF TypeInv, TypeOK, RowsOK, ConnOK, ThreadsOK, MapsOK, ModesOK, CallsOK, InboxOK
<1> QED BY <1>1, TypeInvariant, PTL

-----------------------------------------------------------------------------
(* Row locks.  NoOrphanLock alone does not survive an exception: a thread that *)
(* fails leaves its statement behind.  It does so only on a connection that is *)
(* dead or aborted, and the transaction of such a connection holds no lock:    *)
(* that is what LockInv adds.                                                  *)

\* The process q has a thread that will commit.
WillCommit(q) ==
  \/ \E t \in Thread : pc[q][t] = "commit"
  \/ pc[q]["main"] = "update" /\ job[q]["main"].kind = "claim"

LockInv ==
  \A q \in Proc : Holds(q) => WillCommit(q) /\ conn[q] = "ok"

\* After the step p holds no lock, and no other process holds more than before.
Dropped(p) ==
  /\ \A r \in Row : owner'[r] \in {owner[r], NoProc} \ {p}
  /\ \A j \in JoinedRow : holder'[j] \in {holder[j], NoProc} \ {p}

\* A step after which p holds no lock, and which gives the other processes none
\* and leaves their threads and connections alone.
LEMMA LocksDropped ==
  ASSUME LockInv, NEW p \in Proc, Dropped(p),
         \A q \in Proc \ {p} : /\ pc'[q] = pc[q] /\ job'[q] = job[q]
                               /\ conn'[q] = conn[q]
  PROVE  LockInv'
<1> SUFFICES ASSUME NEW q \in Proc, Holds(q)'
             PROVE  WillCommit(q)' /\ conn'[q] = "ok"
  BY DEF LockInv
<1>1. q # p /\ Holds(q)
  BY CallbackAssumption DEF Holds, Dropped
<1>2. WillCommit(q) /\ conn[q] = "ok"
  BY <1>1 DEF LockInv
<1> QED BY <1>1, <1>2 DEF WillCommit

\* A step that changes no lock and no connection, and takes no thread away from a
\* commit or a claim.
LEMMA LocksKept ==
  ASSUME LockInv, UNCHANGED <<owner, holder, conn>>,
         \A q \in Proc : WillCommit(q) => WillCommit(q)'
  PROVE  LockInv'
BY DEF LockInv, Holds

\* A step that gives locks only to p, which then has a thread that will commit.
LEMMA LocksTaken ==
  ASSUME LockInv, NEW p \in Proc, conn[p] = "ok", UNCHANGED conn, WillCommit(p)',
         \A r \in Row : owner'[r] \in {owner[r], p},
         \A j \in JoinedRow : holder'[j] \in {holder[j], p},
         \A q \in Proc \ {p} : pc'[q] = pc[q] /\ job'[q] = job[q]
  PROVE  LockInv'
<1> SUFFICES ASSUME NEW q \in Proc, Holds(q)'
             PROVE  WillCommit(q)' /\ conn'[q] = "ok"
  BY DEF LockInv
<1>1. CASE q = p
  BY <1>1
<1>2. CASE q # p
  <2>1. Holds(q)
    BY <1>2 DEF Holds
  <2>2. WillCommit(q) /\ conn[q] = "ok"
    BY <2>1 DEF LockInv
  <2> QED BY <1>2, <2>2 DEF WillCommit
<1> QED BY <1>1, <1>2

\* The end of a process drops its locks, and every lock if it is the parent.
LEMMA EndsLocks ==
  ASSUME TypeInv, LockInv, NEW p \in Proc, Ends(p)
  PROVE  LockInv'
<1>1. CASE p = Parent
  BY <1>1, CallbackAssumption DEF Ends, LockInv, Holds, TypeInv, RowsOK
<1>2. CASE p # Parent
  <2>1. Dropped(p)
    BY <1>2, CallbackAssumption DEF Ends, Dropped, TypeInv, RowsOK
  <2>2. \A q \in Proc \ {p} : /\ pc'[q] = pc[q] /\ job'[q] = job[q]
                              /\ conn'[q] = conn[q]
    BY <1>2 DEF Ends, TypeInv, ThreadsOK, ConnOK
  <2> QED BY <2>1, <2>2, LocksDropped
<1> QED BY <1>1, <1>2

\* An exception in a thread on a connection that is not in order: p holds no lock.
LEMMA RaiseLocks ==
  ASSUME TypeInv, LockInv, NEW p \in Proc, NEW t \in Thread, Raise(p, t),
         conn[p] # "ok", UNCHANGED <<owner, holder, conn>>
  PROVE  LockInv'
<1>1. Dropped(p)
  BY CallbackAssumption DEF LockInv, Holds, Dropped, TypeInv, RowsOK
<1>2. \A q \in Proc \ {p} : pc'[q] = pc[q] /\ job'[q] = job[q] /\ conn'[q] = conn[q]
  BY DEF Raise, Become, Goto, TypeInv, ThreadsOK
<1> QED BY <1>1, <1>2, LocksDropped

\* Statements and commits.
LEMMA ThreadStepLocks ==
  ASSUME TypeInv, LockInv, NEW p \in Proc, NEW t \in Thread, ThreadStep(p, t)
  PROVE  LockInv'
<1>a. p # NoProc
  BY CallbackAssumption
<1>1. CASE Probe(p, t) \/ ProbeRollback(p, t)
  <2>1. \A q \in Proc \ {p} : pc'[q] = pc[q] /\ job'[q] = job[q] /\ conn'[q] = conn[q]
    BY <1>1 DEF Probe, ProbeRollback, Goto, TypeInv, ThreadsOK, ConnOK
  <2>2. CASE ProbeRollback(p, t)
    <3>1. Dropped(p)
      BY <2>2, <1>a DEF ProbeRollback, Rollback, Release, Dropped, TypeInv, RowsOK
    <3> QED BY <2>1, <3>1, LocksDropped
  <2>3. CASE Probe(p, t) /\ conn[p] = "dead"
    <3>1. Dropped(p)
      BY <2>3, <1>a DEF Probe, dbVars, LockInv, Holds, Dropped, TypeInv, RowsOK
    <3> QED BY <2>1, <3>1, LocksDropped
  <2>4. CASE Probe(p, t) /\ conn[p] # "dead"
    <3>1. UNCHANGED <<owner, holder, conn, job>> /\ Goto(p, t, "rollback") /\ AtEnsure(p, t)
      BY <2>4 DEF Probe, dbVars
    <3>2. \A q \in Proc : WillCommit(q) => WillCommit(q)'
      BY <3>1 DEF WillCommit, AtEnsure, Goto, TypeInv, ThreadsOK, Thread
    <3> QED BY <3>1, <3>2, LocksKept
  <2> QED BY <1>1, <2>2, <2>3, <2>4
<1>2. CASE EnsureRaises(p, t)
  <2>1. conn[p] # "ok"
    BY <1>2 DEF EnsureRaises
  <2> QED BY <1>2, <2>1, RaiseLocks DEF EnsureRaises, dbVars, connVars
<1>3. CASE Update(p, t)
  <2>1. /\ conn[p] = "ok" /\ pc'[p][t] = "commit"
        /\ UNCHANGED <<conn, job>>
        /\ \A r \in Row : owner'[r] \in {owner[r], p}
        /\ \A j \in JoinedRow : holder'[j] \in {holder[j], p}
        /\ \A q \in Proc \ {p} : pc'[q] = pc[q]
    BY <1>3 DEF Update, Goto, TypeInv, ThreadsOK, RowsOK
  <2>2. WillCommit(p)'
    BY <2>1 DEF WillCommit
  <2> QED BY <2>1, <2>2, LocksTaken
<1>4. CASE UpdateWaits(p, t)
  <2>1. UNCHANGED <<owner, holder, conn>> /\ \A q \in Proc : WillCommit(q) => WillCommit(q)'
    BY <1>4 DEF UpdateWaits, dbVars, threadVars, WillCommit
  <2> QED BY <2>1, LocksKept
<1>5. CASE Commit(p, t)
  <2>1. Dropped(p)
    BY <1>5, <1>a DEF Commit, CommitTx, Release, Dropped, TypeInv, RowsOK
  <2>2. \A q \in Proc \ {p} : pc'[q] = pc[q] /\ job'[q] = job[q]
    BY <1>5 DEF Commit, AfterCommit, Become, Goto, TypeInv, ThreadsOK
  <2>3. \A q \in Proc \ {p} : conn'[q] = conn[q]
    BY <1>5 DEF Commit, TypeInv, ConnOK
  <2> QED BY <2>1, <2>2, <2>3, LocksDropped
<1>6. CASE StatementRaises(p, t)
  <2>1. conn[p] # "ok"
    BY <1>6 DEF StatementRaises
  <2> QED BY <1>6, <2>1, RaiseLocks DEF StatementRaises, dbVars
<1>7. CASE PopEntry(p, t)
  <2>1. CASE Ends(p)
    BY <2>1, EndsLocks
  <2>2. CASE ~ Ends(p)
    <3>1. /\ UNCHANGED <<owner, holder, conn>>
          /\ pc[p][t] = "pop" /\ Become(p, t, "idle", NoJob)
      BY <1>7, <2>2 DEF PopEntry, dbVars, connVars
    <3>2. \A q \in Proc : WillCommit(q) => WillCommit(q)'
      BY <3>1 DEF WillCommit, Become, Goto, TypeInv, ThreadsOK, Thread
    <3> QED BY <3>1, <3>2, LocksKept
  <2> QED BY <2>1, <2>2
<1> QED BY <1>1, <1>2, <1>3, <1>4, <1>5, <1>6, <1>7 DEF ThreadStep

\* The polling loop: SELECT takes a lock for the UPDATE that follows.
LEMMA MainStepLocks ==
  ASSUME TypeInv, LockInv, NEW p \in Proc, MainStep(p)
  PROVE  LockInv'
<1>a. p # NoProc /\ "main" \in Thread
  BY CallbackAssumption DEF Thread
<1>1. CASE SelectFirst(p) /\ Eligible(p) = {}
  <2>1. Rollback(p) /\ Goto(p, "main", "idle") /\ UNCHANGED <<job, connVars>>
    BY <1>1 DEF SelectFirst
  <2>2. Dropped(p)
    BY <2>1, <1>a DEF Rollback, Release, Dropped, TypeInv, RowsOK
  <2>3. \A q \in Proc \ {p} : pc'[q] = pc[q] /\ job'[q] = job[q] /\ conn'[q] = conn[q]
    BY <2>1 DEF connVars, Goto, TypeInv, ThreadsOK
  <2> QED BY <2>2, <2>3, LocksDropped
<1>2. CASE SelectFirst(p) /\ Eligible(p) # {}
  <2> DEFINE m == Min(Eligible(p))
  <2>1. /\ conn[p] = "ok" /\ UNCHANGED conn
        /\ \A r \in Row : owner'[r] \in {owner[r], p}
        /\ \A j \in JoinedRow : holder'[j] \in {holder[j], p}
        /\ Become(p, "main", "update", ClaimJob(m))
    BY <1>2 DEF SelectFirst, connVars, TypeInv, RowsOK
  <2>2. /\ pc'[p]["main"] = "update" /\ job'[p]["main"].kind = "claim"
        /\ \A q \in Proc \ {p} : pc'[q] = pc[q] /\ job'[q] = job[q]
    BY <2>1, <1>a DEF Become, Goto, ClaimJob, NoJob, TypeInv, ThreadsOK
  <2>3. WillCommit(p)'
    BY <2>2 DEF WillCommit
  <2> QED BY <2>1, <2>2, <2>3, LocksTaken
<1>3. CASE Originate(p)
  <2>1. UNCHANGED <<owner, holder, conn>> /\ pc[p]["main"] = "originate"
        /\ \E l, j : Become(p, "main", l, j)
    BY <1>3 DEF Originate, dbVars, connVars
  <2>2. \A q \in Proc : WillCommit(q) => WillCommit(q)'
    BY <2>1 DEF WillCommit, Become, Goto, TypeInv, ThreadsOK, Thread
  <2> QED BY <2>1, <2>2, LocksKept
<1> QED BY <1>1, <1>2, <1>3 DEF MainStep

\* Every step preserves LockInv.
LEMMA NextLocks ==
  ASSUME TypeInv, LockInv, [Next]_vars
  PROVE  LockInv'
<1>1. ASSUME NEW p \in Proc, NEW t \in Thread, ThreadStep(p, t)
      PROVE  LockInv'
  BY <1>1, ThreadStepLocks
<1>2. ASSUME NEW p \in Proc, MainStep(p)
      PROVE  LockInv'
  BY <1>2, MainStepLocks
<1>3. ASSUME NEW p \in Proc, HealthCheckExits(p) \/ Killed(p)
      PROVE  LockInv'
  BY <1>3, EndsLocks DEF HealthCheckExits, Killed
<1>4. ASSUME NEW p \in Proc, DeadlockDetected(p) \/ DbLost(p)
      PROVE  LockInv'
  <2>1. Dropped(p)
    BY <1>4, CallbackAssumption
        DEF DeadlockDetected, DbLost, Rollback, Release, Dropped, TypeInv, RowsOK
  <2>2. \A q \in Proc \ {p} : pc'[q] = pc[q] /\ job'[q] = job[q] /\ conn'[q] = conn[q]
    BY <1>4 DEF DeadlockDetected, DbLost, threadVars, TypeInv, ConnOK
  <2> QED BY <2>1, <2>2, LocksDropped
<1>5. ASSUME UNCHANGED <<owner, holder, conn, pc, job>>
      PROVE  LockInv'
  BY <1>5 DEF LockInv, Holds, WillCommit
<1>6. ASSUME NEW p \in Proc, ListenerStep(p)
      PROVE  LockInv'
  <2>1. UNCHANGED <<owner, holder, conn>>
    BY <1>6 DEF ListenerStep, OnDialBegin, OnDialEnd, OnHangup, OnOriginateError,
                Finish, dbVars, connVars
  <2>2. \/ UNCHANGED <<pc, job>>
        \/ pc[p]["ami"] = "idle" /\ \E l, j : Become(p, "ami", l, j)
    BY <1>6 DEF ListenerStep, OnDialBegin, OnDialEnd, OnHangup, OnOriginateError,
                Finish, Receives, threadVars
  <2>3. \A q \in Proc : WillCommit(q) => WillCommit(q)'
    BY <2>2 DEF WillCommit, Become, Goto, TypeInv, ThreadsOK, Thread
  <2> QED BY <2>1, <2>3, LocksKept
<1>7. ASSUME NEW p \in Proc, AmiLost(p)
      PROVE  LockInv'
  BY <1>5, <1>7 DEF AmiLost, dbVars, connVars, threadVars
<1>8. ASSUME NEW c \in Call, CallEvent(c)
      PROVE  LockInv'
  BY <1>5, <1>8 DEF CallEvent, Refuse, EndUndialled, Dial, DialAgain, Answer, HangUp,
                    CallStep, dbVars, connVars, threadVars
<1>9. ASSUME NEW r \in Row, Ripen(r)
      PROVE  LockInv'
  BY <1>5, <1>9 DEF Ripen, connVars, threadVars
<1>10. CASE UNCHANGED vars
  BY <1>5, <1>10 DEF vars, dbVars, connVars, threadVars
<1> QED BY <1>1, <1>2, <1>3, <1>4, <1>6, <1>7, <1>8, <1>9, <1>10 DEF Next, Bounded

\* No process goes back to polling with a row locked: every lock is held by a
\* process with a thread between a statement and the commit.
THEOREM LocksReleased == Spec => []NoOrphanLock
<1>1. Init => LockInv
  <2> SUFFICES ASSUME Init, NEW q \in Proc
               PROVE  ~ Holds(q)
    BY DEF LockInv
  <2> QED BY CallbackAssumption DEF Init, Holds
<1>2. TypeInv /\ LockInv /\ [Next]_vars => LockInv'
  BY NextLocks
<1>3. LockInv => NoOrphanLock
  BY DEF LockInv, NoOrphanLock, WillCommit
<1> QED BY <1>1, <1>2, <1>3, TypeInvariant, PTL DEF Spec

-----------------------------------------------------------------------------
(* Numbers.  An answer travels from Asterisk to the row through an event, a    *)
(* tracked channel, a job, a draft and a commit, and every hop can be undone.  *)
(* NumberInv says that at each hop the call is one to the number of the row.   *)

\* c has been placed, and to the number of r.
CallFor(c, r) == call[c].state # "unused" /\ Dst[call[c].row] = Dst[r]

Real(r) == \E c \in Call : Answered(c) /\ Dst[call[c].row] = Dst[r]

RowsHonest ==
  \A r \in Row :
    /\ db[r].status = "ANSWERED" \/ draft[r].status = "ANSWERED" => Real(r)
    /\ \A c \in Call : db[r].uid = c \/ draft[r].uid = c => CallFor(c, r)

TrackedHonest ==
  \A p \in Proc, c \in Call, r \in Row : tracked[p][c] = r => CallFor(c, r)

JobsHonest ==
  \A p \in Proc, t \in Thread :
    /\ \A c \in Call, r \in Row : job[p][t].call = c /\ job[p][t].row = r => CallFor(c, r)
    /\ job[p][t].status = "ANSWERED" => job[p][t].call # NoCall
    /\ \A c \in Call : job[p][t].status = "ANSWERED" /\ job[p][t].call = c => Answered(c)

EventsHonest ==
  \A p \in Proc, c \in Call : \A i \in 1 .. Len(inbox[p]) :
    inbox[p][i] = Ev("DialEndAnswer", c) => Answered(c)

NumberInv == RowsHonest /\ TrackedHonest /\ JobsHonest /\ EventsHonest

\* A call, once placed, keeps its row, and once answered it stays answered.
LEMMA History ==
  ASSUME TypeInv, [Next]_vars
  PROVE  /\ \A c \in Call : call[c].state # "unused" =>
              call'[c].state # "unused" /\ call'[c].row = call[c].row
         /\ \A c \in Call : Answered(c) => Answered(c)'
<1> DEFINE Kept(c) == /\ call[c].state # "unused" =>
                           call'[c].state # "unused" /\ call'[c].row = call[c].row
                      /\ Answered(c) => Answered(c)'
<1> SUFFICES \A c \in Call : Kept(c)
  OBVIOUS
<1>0. call \in [Call -> CallRec]
  BY DEF TypeInv, CallsOK
<1>1. ASSUME UNCHANGED call PROVE \A c \in Call : Kept(c)
  BY <1>1 DEF Answered
<1>2. ASSUME NEW p \in Proc, Ends(p) PROVE \A c \in Call : Kept(c)
  <2>1. \A c \in Call : call'[c].state = call[c].state /\ call'[c].row = call[c].row
    BY <1>0, <1>2 DEF Ends, CallRec
  <2> QED BY <2>1 DEF Answered
<1>3. ASSUME NEW p \in Proc, NEW t \in Thread, ThreadStep(p, t)
      PROVE  \A c \in Call : Kept(c)
  <2>1. UNCHANGED call \/ Ends(p)
    BY <1>3 DEF ThreadStep, Probe, ProbeRollback, EnsureRaises, Update, UpdateWaits,
                Commit, StatementRaises, PopEntry, envVars
  <2> QED BY <2>1, <1>1, <1>2
<1>4. ASSUME NEW p \in Proc, Originate(p) PROVE \A c \in Call : Kept(c)
  <2>1. Unused \in SUBSET Nat /\ Unused # {}
    BY <1>4, CallbackAssumption DEF Originate, Unused, Call
  <2>2. Min(Unused) \in Call /\ call[Min(Unused)].state = "unused"
    BY <2>1, MinIsMember DEF Unused
  <2>3. \A c \in Call \ {Min(Unused)} : call'[c] = call[c]
    BY <1>0, <1>4, <2>2 DEF Originate, Placed
  <2> QED BY <2>2, <2>3 DEF Answered
<1>5. ASSUME NEW d \in Call, CallEvent(d) PROVE \A c \in Call : Kept(c)
  <2>1. ASSUME NEW f \in {"requested", "dialing"},
               NEW g \in {"dialing", "talking", "failed"}, CallStep(d, f, g)
        PROVE  \A c \in Call : Kept(c)
    BY <2>1, <1>0 DEF CallStep, Answered, CallRec
  <2>2. CASE CallStep(d, "talking", "ended")
    BY <2>2, <1>0 DEF CallStep, Answered, CallRec
  <2>3. CASE DialAgain(d)
    BY <2>3, <1>0 DEF DialAgain, Answered, CallRec
  <2> QED BY <1>5, <2>1, <2>2, <2>3
      DEF CallEvent, Refuse, EndUndialled, Dial, Answer, HangUp
<1>6. ASSUME NEW p \in Proc, SelectFirst(p) \/ ListenerStep(p) \/ DeadlockDetected(p)
                              \/ DbLost(p) \/ AmiLost(p)
      PROVE  UNCHANGED call
  BY <1>6 DEF SelectFirst, ListenerStep, OnDialBegin, OnDialEnd, OnHangup,
              OnOriginateError, Finish, DeadlockDetected, DbLost, AmiLost, envVars
<1>7. ASSUME NEW p \in Proc, HealthCheckExits(p) \/ Killed(p)
      PROVE  \A c \in Call : Kept(c)
  BY <1>2, <1>7 DEF HealthCheckExits, Killed
<1>8. ASSUME NEW r \in Row, Ripen(r) PROVE UNCHANGED call
  BY <1>8 DEF Ripen, envVars
<1>9. UNCHANGED vars => UNCHANGED call
  BY DEF vars, envVars
<1> HIDE DEF Kept
<1> QED BY <1>1, <1>3, <1>4, <1>5, <1>6, <1>7, <1>8, <1>9 DEF Next, MainStep, Bounded

\* What NumberInv says of a call and a row stays true.
LEMMA NumbersStay ==
  ASSUME TypeInv, [Next]_vars
  PROVE  /\ \A c \in Call, r \in Row : CallFor(c, r) => CallFor(c, r)'
         /\ \A r \in Row : Real(r) => Real(r)'
<1>1. \A c \in Call, r \in Row : CallFor(c, r) => CallFor(c, r)'
  BY History DEF CallFor
<1>2. \A c \in Call : Answered(c) =>
        Answered(c)' /\ call'[c].row = call[c].row
  BY History DEF Answered
<1>3. ASSUME NEW r \in Row, Real(r) PROVE Real(r)'
  <2>1. PICK c \in Call : Answered(c) /\ Dst[call[c].row] = Dst[r]
    BY <1>3 DEF Real
  <2> QED BY <2>1, <1>2 DEF Real
<1> QED BY <1>1, <1>3

\* Committing, rolling back and waiting only move what db and draft say.
LEMMA RowsMoved ==
  ASSUME TypeInv, RowsHonest, [Next]_vars,
         \A r \in Row : \E a, b \in {db[r], draft[r]} :
           /\ db'[r].status = a.status /\ db'[r].uid = a.uid
           /\ draft'[r].status = b.status /\ draft'[r].uid = b.uid
  PROVE  RowsHonest'
<1> SUFFICES ASSUME NEW r \in Row
             PROVE  /\ db'[r].status = "ANSWERED" \/ draft'[r].status = "ANSWERED" => Real(r)'
                    /\ \A c \in Call : db'[r].uid = c \/ draft'[r].uid = c => CallFor(c, r)'
  BY DEF RowsHonest
<1>1. PICK a, b \in {db[r], draft[r]} :
        /\ db'[r].status = a.status /\ db'[r].uid = a.uid
        /\ draft'[r].status = b.status /\ draft'[r].uid = b.uid
  OBVIOUS
<1>2. \A x \in {db[r], draft[r]} : x.status = "ANSWERED" => Real(r)
  BY DEF RowsHonest
<1>3. \A x \in {db[r], draft[r]} : \A c \in Call : x.uid = c => CallFor(c, r)
  BY DEF RowsHonest
<1> QED BY <1>1, <1>2, <1>3, NumbersStay

\* The UPDATE writes what an honest job says.
LEMMA UpdateHonest ==
  ASSUME TypeInv, NumberInv, [Next]_vars, NEW p \in Proc, NEW t \in Thread, Update(p, t)
  PROVE  RowsHonest'
<1> DEFINE j == job[p][t]
<1>1. j \in Job /\ draft \in [Row -> RowState] /\ db' = db
      /\ draft' = [draft EXCEPT ![j.row] = Written(j)]
  BY DEF TypeInv, ThreadsOK, RowsOK, Update
<1> SUFFICES ASSUME NEW r \in Row
             PROVE  /\ db'[r].status = "ANSWERED" \/ draft'[r].status = "ANSWERED" => Real(r)'
                    /\ \A c \in Call : db'[r].uid = c \/ draft'[r].uid = c => CallFor(c, r)'
  BY DEF RowsHonest
<1>2. /\ db[r].status = "ANSWERED" \/ draft[r].status = "ANSWERED" => Real(r)
      /\ \A c \in Call : db[r].uid = c \/ draft[r].uid = c => CallFor(c, r)
  BY DEF NumberInv, RowsHonest
<1>3. CASE j.row # r
  BY <1>1, <1>2, <1>3, NumbersStay
<1>4. CASE j.row = r
  <2>1. draft[r] \in RowState /\ draft'[r] = Written(j)
    BY <1>1, <1>4
  <2>2. /\ Written(j).status \in {draft[r].status, j.status}
        /\ Written(j).uid \in {draft[r].uid, j.call}
    BY <2>1, <1>4 DEF Written, RowState
  <2>3. j.status = "ANSWERED" => Real(r)
    <3> SUFFICES ASSUME j.status = "ANSWERED" PROVE Real(r)
      OBVIOUS
    <3>1. j.call \in Call
      BY <1>1 DEF NumberInv, JobsHonest, Job
    <3>2. Answered(j.call) /\ CallFor(j.call, r)
      BY <3>1, <1>4 DEF NumberInv, JobsHonest
    <3> QED BY <3>1, <3>2 DEF Real, CallFor
  <2>4. \A c \in Call : j.call = c => CallFor(c, r)
    BY <1>4 DEF NumberInv, JobsHonest
  <2>5. draft'[r].status = "ANSWERED" => Real(r)
    BY <1>2, <2>1, <2>2, <2>3
  <2>6. \A c \in Call : draft'[r].uid = c => CallFor(c, r)
    BY <1>2, <2>1, <2>2, <2>4
  <2> QED BY <1>1, <1>2, <2>5, <2>6, NumbersStay
<1> QED BY <1>3, <1>4

\* No step makes a row ANSWERED, or links a recording to it, without a call.
LEMMA RowsStayHonest ==
  ASSUME TypeInv, NumberInv, [Next]_vars
  PROVE  RowsHonest'
<1> USE DEF NumberInv
<1>0. db \in [Row -> RowState] /\ draft \in [Row -> RowState]
  BY DEF TypeInv, RowsOK
<1> DEFINE Moved == \A r \in Row : \E a, b \in {db[r], draft[r]} :
             /\ db'[r].status = a.status /\ db'[r].uid = a.uid
             /\ draft'[r].status = b.status /\ draft'[r].uid = b.uid
<1>1. ASSUME UNCHANGED <<db, draft>> PROVE Moved
  BY <1>1
<1>2. ASSUME NEW p \in Proc, Rollback(p) \/ CommitTx(p) \/ Ends(p) PROVE Moved
  BY <1>2, <1>0 DEF Rollback, CommitTx, Ends
<1>3. ASSUME NEW p \in Proc, NEW t \in Thread, ThreadStep(p, t) PROVE Moved \/ Update(p, t)
  <2> HIDE DEF Moved
  <2> QED BY <1>1, <1>2, <1>3
      DEF ThreadStep, Probe, ProbeRollback, EnsureRaises, UpdateWaits, Commit,
          StatementRaises, PopEntry, dbVars
<1>4. ASSUME NEW p \in Proc,
             MainStep(p) \/ ListenerStep(p) \/ HealthCheckExits(p) \/ DeadlockDetected(p)
               \/ DbLost(p) \/ AmiLost(p) \/ Killed(p)
      PROVE  Moved
  <2> HIDE DEF Moved
  <2>1. SelectFirst(p) => Rollback(p) \/ UNCHANGED <<db, draft>>
    BY DEF SelectFirst
  <2>2. Originate(p) \/ ListenerStep(p) \/ AmiLost(p) => UNCHANGED <<db, draft>>
    BY DEF Originate, ListenerStep, OnDialBegin, OnDialEnd, OnHangup, OnOriginateError,
           Finish, AmiLost, dbVars
  <2>3. DeadlockDetected(p) \/ DbLost(p) => Rollback(p)
    BY DEF DeadlockDetected, DbLost
  <2>4. HealthCheckExits(p) \/ Killed(p) => Ends(p)
    BY DEF HealthCheckExits, Killed
  <2> QED BY <1>1, <1>2, <1>4, <2>1, <2>2, <2>3, <2>4 DEF MainStep
<1>5. ASSUME NEW c \in Call, CallEvent(c) PROVE Moved
  <2> HIDE DEF Moved
  <2> QED BY <1>1, <1>5 DEF CallEvent, Refuse, EndUndialled, Dial, DialAgain, Answer,
                            HangUp, CallStep, dbVars
<1>6. ASSUME NEW r \in Row, Ripen(r) PROVE Moved
  BY <1>6, <1>0 DEF Ripen, RowState
<1>7. UNCHANGED vars => Moved
  BY <1>1 DEF vars, dbVars
<1>8. Moved => RowsHonest'
  BY RowsMoved
<1> HIDE DEF Moved
<1> QED BY <1>3, <1>4, <1>5, <1>6, <1>7, <1>8, UpdateHonest DEF Next, Bounded

\* A channel is tracked for a row only if its call is to the row's number.
LEMMA TrackedStayHonest ==
  ASSUME TypeInv, NumberInv, [Next]_vars
  PROVE  TrackedHonest'
<1> USE DEF NumberInv
<1>0. tracked \in [Proc -> [Call -> Row \cup {NoRow}]] /\ NoRow \notin Row
  BY CallbackAssumption DEF TypeInv, MapsOK, NoRow
<1> DEFINE Fewer == \A p \in Proc, c \in Call : tracked'[p][c] \in {tracked[p][c], NoRow}
<1>1. ASSUME UNCHANGED tracked PROVE Fewer
  BY <1>1
<1>2. ASSUME NEW p \in Proc, Ends(p) PROVE Fewer
  BY <1>2, <1>0 DEF Ends
<1>3. Fewer => TrackedHonest'
  BY <1>0, NumbersStay DEF TrackedHonest
<1>4. ASSUME NEW p \in Proc, NEW t \in Thread, ThreadStep(p, t) PROVE Fewer
  <2>1. UNCHANGED tracked \/ Ends(p)
    BY <1>4 DEF ThreadStep, Probe, ProbeRollback, EnsureRaises, Update, UpdateWaits,
                Commit, StatementRaises, PopEntry, mapVars
  <2> QED BY <2>1, <1>1, <1>2
<1>5. ASSUME NEW p \in Proc, OnDialBegin(p) PROVE TrackedHonest'
  <2> DEFINE d == Head(inbox[p]).call
             at == FirstMatch(waitlist[p], call[d].row)
  <2>1. CASE UNCHANGED mapVars
    BY <2>1, <1>1, <1>3 DEF mapVars
  <2>2. CASE /\ at # 0
             /\ tracked' = [tracked EXCEPT ![p][d] = waitlist[p][at]]
    <3>1. at \in 1 .. Len(waitlist[p]) /\ Matches(waitlist[p][at], call[d].row)
      BY <2>2, MatchingEntry DEF TypeInv, MapsOK
    <3>2. d \in Call /\ call[d].state # "unused"
      <4>1. InboxOK /\ UNCHANGED call
        BY <1>5 DEF OnDialBegin, envVars, TypeInv
      <4> QED BY <4>1, <1>5, ReceiveType DEF OnDialBegin, Event
    <3>3. \A r \in Row : waitlist[p][at] = r => CallFor(d, r)
      BY <3>1, <3>2 DEF Matches, CallFor
    <3> HIDE DEF d, at
    <3>4. \A q \in Proc, c \in Call, r \in Row : tracked'[q][c] = r => CallFor(c, r)
      BY <1>0, <2>2, <3>2, <3>3 DEF TrackedHonest
    <3> QED BY <3>4, NumbersStay DEF TrackedHonest
  <2> QED BY <1>5, <2>1, <2>2 DEF OnDialBegin
<1>6. ASSUME NEW p \in Proc, NEW c, NEW s, Finish(p, c, s) PROVE Fewer
  BY <1>6, <1>0 DEF Finish
<1>7. ASSUME NEW p \in Proc,
             MainStep(p) \/ OnDialEnd(p) \/ OnHangup(p) \/ OnOriginateError(p)
               \/ HealthCheckExits(p) \/ DeadlockDetected(p)
               \/ DbLost(p) \/ AmiLost(p) \/ Killed(p)
      PROVE  Fewer
  <2> HIDE DEF Fewer
  <2>1. MainStep(p) \/ OnOriginateError(p) \/ DeadlockDetected(p) \/ DbLost(p) \/ AmiLost(p)
          => UNCHANGED tracked
    BY DEF MainStep, SelectFirst, Originate, OnOriginateError, DeadlockDetected, DbLost,
           AmiLost, mapVars
  <2>2. OnDialEnd(p) => UNCHANGED tracked \/ \E c, s : Finish(p, c, s)
    BY DEF OnDialEnd, mapVars
  <2>3. OnHangup(p) => \E c, s : Finish(p, c, s)
    BY DEF OnHangup
  <2>4. HealthCheckExits(p) \/ Killed(p) => Ends(p)
    BY DEF HealthCheckExits, Killed
  <2> QED BY <1>1, <1>2, <1>6, <1>7, <2>1, <2>2, <2>3, <2>4
<1>8. ASSUME NEW c \in Call, CallEvent(c) PROVE UNCHANGED tracked
  BY <1>8 DEF CallEvent, Refuse, EndUndialled, Dial, DialAgain, Answer, HangUp, CallStep,
              mapVars
<1>9. ASSUME NEW r \in Row, Ripen(r) PROVE UNCHANGED tracked
  BY <1>9 DEF Ripen, mapVars
<1>10. UNCHANGED vars => UNCHANGED tracked
  BY DEF vars, mapVars
<1> HIDE DEF Fewer
<1> QED BY <1>1, <1>3, <1>4, <1>5, <1>7, <1>8, <1>9, <1>10 DEF Next, ListenerStep, Bounded

\* A thread gets an honest job.
LEMMA JobsBecome ==
  ASSUME TypeInv, NumberInv, [Next]_vars, NEW p \in Proc, NEW t \in Thread, NEW l, NEW j,
         Become(p, t, l, j),
         \A c \in Call, r \in Row : j.call = c /\ j.row = r => CallFor(c, r),
         j.status = "ANSWERED" => j.call # NoCall,
         \A c \in Call : j.status = "ANSWERED" /\ j.call = c => Answered(c)
  PROVE  JobsHonest'
<1>1. job \in [Proc -> [Thread -> Job]] /\ job' = [job EXCEPT ![p][t] = j]
  BY DEF TypeInv, ThreadsOK, Become
<1> SUFFICES ASSUME NEW q \in Proc, NEW u \in Thread
             PROVE  /\ \A c \in Call, r \in Row :
                         job'[q][u].call = c /\ job'[q][u].row = r => CallFor(c, r)'
                    /\ job'[q][u].status = "ANSWERED" => job'[q][u].call # NoCall
                    /\ \A c \in Call : job'[q][u].status = "ANSWERED" /\ job'[q][u].call = c
                                         => Answered(c)'
  BY DEF JobsHonest
<1>2. CASE q = p /\ u = t
  <2>1. job'[q][u] = j
    BY <1>1, <1>2
  <2> QED BY <2>1, NumbersStay, History
<1>3. CASE ~ (q = p /\ u = t)
  <2>1. job'[q][u] = job[q][u]
    BY <1>1, <1>3
  <2> QED BY <2>1, NumbersStay, History DEF NumberInv, JobsHonest
<1> QED BY <1>2, <1>3

\* A job that names no call, and does not say ANSWERED, is honest.
LEMMA CallFreeJob ==
  ASSUME TypeInv, NumberInv, [Next]_vars, NEW p \in Proc, NEW t \in Thread, NEW l, NEW j,
         Become(p, t, l, j), j.call = NoCall, j.status # "ANSWERED"
  PROVE  JobsHonest'
<1>1. NoCall \notin Call
  BY DEF NoCall, Call
<1> QED BY <1>1, JobsBecome

\* The job a thread has is honest, whatever its kind becomes.
LEMMA SameJob ==
  ASSUME TypeInv, NumberInv, [Next]_vars, NEW p \in Proc, NEW t \in Thread, NEW l, NEW k,
         \/ Become(p, t, l, job[p][t])
         \/ Become(p, t, l, [job[p][t] EXCEPT !.kind = k])
  PROVE  JobsHonest'
<1> DEFINE i == job[p][t]
           j == [job[p][t] EXCEPT !.kind = k]
<1>1. i \in Job
  BY DEF TypeInv, ThreadsOK
<1>2. j.call = i.call /\ j.row = i.row /\ j.status = i.status
  BY <1>1 DEF Job
<1>3. /\ \A c \in Call, r \in Row : i.call = c /\ i.row = r => CallFor(c, r)
      /\ i.status = "ANSWERED" => i.call # NoCall
      /\ \A c \in Call : i.status = "ANSWERED" /\ i.call = c => Answered(c)
  BY DEF NumberInv, JobsHonest
<1> HIDE DEF i, j
<1>4. CASE Become(p, t, l, i)
  BY <1>3, <1>4, JobsBecome
<1>5. CASE Become(p, t, l, j)
  BY <1>2, <1>3, <1>5, JobsBecome
<1> QED BY <1>4, <1>5 DEF i, j

\* An exception leaves honest jobs.
LEMMA RaiseHonest ==
  ASSUME TypeInv, NumberInv, [Next]_vars, NEW p \in Proc, NEW t \in Thread, Raise(p, t)
  PROVE  JobsHonest'
<1>1. \/ Become(p, t, "idle", NoJob)
      \/ Become(p, t, "ensure", [job[p][t] EXCEPT !.kind = "uid"])
  BY DEF Raise
<1>2. CASE Become(p, t, "idle", NoJob)
  BY <1>2, CallFreeJob DEF NoJob
<1>3. CASE Become(p, t, "ensure", [job[p][t] EXCEPT !.kind = "uid"])
  BY <1>3, SameJob
<1> QED BY <1>1, <1>2, <1>3

\* Finish gives the AMI thread an honest job, if the status it records is true.
LEMMA FinishHonest ==
  ASSUME TypeInv, NumberInv, [Next]_vars, NEW p \in Proc, NEW c \in Call, NEW s,
         Finish(p, c, s), s = "ANSWERED" => Answered(c)
  PROVE  JobsHonest'
<1>1. CASE tracked[p][c] = NoRow
  BY <1>1, NumbersStay, History
  DEF Finish, threadVars, NumberInv, JobsHonest
<1>2. CASE tracked[p][c] # NoRow
  <2> DEFINE j == StatusJob(tracked[p][c], s, c)
  <2>1. Become(p, "ami", "ensure", j)
    BY <1>2 DEF Finish
  <2>2. j.call = c /\ j.row = tracked[p][c] /\ j.status = s
    BY DEF StatusJob
  <2>3. \A d \in Call, r \in Row : j.call = d /\ j.row = r => CallFor(d, r)
    BY <2>2 DEF NumberInv, TrackedHonest
  <2>4. c # NoCall /\ "ami" \in Thread
    BY DEF Call, NoCall, Thread
  <2> HIDE DEF j
  <2> QED BY <2>1, <2>2, <2>3, <2>4, JobsBecome
<1> QED BY <1>1, <1>2

\* No thread is about to report what did not happen.
LEMMA JobsStayHonest ==
  ASSUME TypeInv, NumberInv, [Next]_vars
  PROVE  JobsHonest'
<1>c. /\ NoJob.call = NoCall /\ NoJob.status # "ANSWERED"
      /\ \A r : ClaimJob(r).call = NoCall /\ ClaimJob(r).status # "ANSWERED"
      /\ \A r, f : BusyJob(r, f).call = NoCall /\ BusyJob(r, f).status # "ANSWERED"
  BY DEF NoJob, ClaimJob, BusyJob, StatusJob
<1>t. "main" \in Thread /\ "ami" \in Thread
  BY DEF Thread
<1>1. ASSUME UNCHANGED job PROVE JobsHonest'
  BY <1>1, NumbersStay, History DEF NumberInv, JobsHonest
<1>2. ASSUME NEW p \in Proc, Ends(p) PROVE JobsHonest'
  <2>1. \A q \in Proc, u \in Thread : job'[q][u] \in {job[q][u], NoJob}
    BY <1>2 DEF Ends
  <2>2. NoJob.call = NoCall /\ NoJob.status = "NEW" /\ NoCall \notin Call
    BY DEF NoJob, NoCall, Call
  <2> QED BY <2>1, <2>2, NumbersStay, History DEF NumberInv, JobsHonest
<1>3. ASSUME NEW p \in Proc, NEW t \in Thread, ThreadStep(p, t) PROVE JobsHonest'
  <2>1. CASE Commit(p, t)
    <3>1. \/ \E l, k : \/ Become(p, t, l, job[p][t])
                       \/ Become(p, t, l, [job[p][t] EXCEPT !.kind = k])
          \/ Become(p, t, "idle", NoJob)
      <4> DEFINE j == job[p][t]
      <4>1. CASE j.kind = "claim"
        BY <2>1, <4>1 DEF Commit, AfterCommit
      <4>2. CASE j.kind = "status" /\ j.call # NoCall
        BY <2>1, <4>2 DEF Commit, AfterCommit
      <4>3. CASE j.kind = "status" /\ j.call = NoCall
        BY <2>1, <4>3 DEF Commit, AfterCommit
      <4>4. CASE j.kind \notin {"claim", "status"}
        BY <2>1, <4>4 DEF Commit, AfterCommit
      <4> QED BY <4>1, <4>2, <4>3, <4>4
    <3>2. CASE Become(p, t, "idle", NoJob)
      BY <3>2, <1>c, CallFreeJob
    <3>3. ASSUME NEW l, NEW k,
                 \/ Become(p, t, l, job[p][t])
                 \/ Become(p, t, l, [job[p][t] EXCEPT !.kind = k])
          PROVE  JobsHonest'
      BY <3>3, SameJob
    <3> QED BY <3>1, <3>2, <3>3
  <2>2. CASE EnsureRaises(p, t) \/ StatementRaises(p, t)
    BY <2>2, RaiseHonest DEF EnsureRaises, StatementRaises
  <2>3. CASE Probe(p, t) \/ ProbeRollback(p, t) \/ Update(p, t) \/ UpdateWaits(p, t)
    BY <2>3, <1>1 DEF Probe, ProbeRollback, Update, UpdateWaits, threadVars
  <2>4. CASE PopEntry(p, t)
    <3>1. Ends(p) \/ Become(p, t, "idle", NoJob)
      BY <2>4 DEF PopEntry
    <3> QED BY <3>1, <1>2, CallFreeJob DEF NoJob
  <2> QED BY <1>3, <2>1, <2>2, <2>3, <2>4 DEF ThreadStep
<1>4. ASSUME NEW p \in Proc, MainStep(p) PROVE JobsHonest'
  <2>1. CASE SelectFirst(p)
    <3>1. UNCHANGED job \/ \E r : Become(p, "main", "update", ClaimJob(r))
      BY <2>1 DEF SelectFirst
    <3>2. ASSUME NEW r, Become(p, "main", "update", ClaimJob(r)) PROVE JobsHonest'
      BY <3>2, <1>c, <1>t, CallFreeJob
    <3> QED BY <3>1, <3>2, <1>1
  <2>2. CASE Originate(p)
    <3>1. \/ Become(p, "main", "idle", NoJob)
          \/ \E r, f : Become(p, "main", "ensure", BusyJob(r, f))
      BY <2>2 DEF Originate
    <3>2. ASSUME NEW r, NEW f, Become(p, "main", "ensure", BusyJob(r, f)) PROVE JobsHonest'
      BY <3>2, <1>c, <1>t, CallFreeJob
    <3>3. CASE Become(p, "main", "idle", NoJob)
      BY <3>3, <1>c, <1>t, CallFreeJob
    <3> QED BY <3>1, <3>2, <3>3
  <2> QED BY <1>4, <2>1, <2>2 DEF MainStep
<1>5. ASSUME NEW p \in Proc, ListenerStep(p) PROVE JobsHonest'
  <2> DEFINE c == Head(inbox[p]).call
  <2>0. ASSUME NEW k, Receives(p, k), UNCHANGED call
        PROVE  c \in Call /\ (k = "DialEndAnswer" => Answered(c))
    <3>1. Head(inbox[p]) \in Event
      BY <2>0, ReceiveType DEF TypeInv
    <3>2. c \in Call /\ Head(inbox[p]) = Ev(k, c)
      BY <3>1, <2>0 DEF Event, Ev, Receives
    <3>3. 1 \in 1 .. Len(inbox[p]) /\ Head(inbox[p]) = inbox[p][1]
      BY <2>0 DEF Receives, TypeInv, InboxOK
    <3> QED BY <3>2, <3>3 DEF NumberInv, EventsHonest
  <2>1. CASE OnDialBegin(p)
    BY <2>1, <1>1 DEF OnDialBegin, threadVars
  <2>2. CASE OnDialEnd(p)
    <3>1. \/ UNCHANGED job
          \/ Receives(p, "DialEndAnswer") /\ Finish(p, c, "ANSWERED") /\ UNCHANGED call
      BY <2>2 DEF OnDialEnd, threadVars, Finish, envVars
    <3> QED BY <3>1, <1>1, <2>0, FinishHonest
  <2>3. CASE OnHangup(p)
    <3>1. Receives(p, "Hangup") /\ Finish(p, c, "BUSY") /\ UNCHANGED call
      BY <2>3 DEF OnHangup, Finish, envVars
    <3> QED BY <3>1, <2>0, FinishHonest
  <2>4. CASE OnOriginateError(p)
    <3>1. \E r : Become(p, "ami", "ensure", BusyJob(r, FALSE))
      BY <2>4 DEF OnOriginateError
    <3> QED BY <3>1, <1>t, CallFreeJob DEF BusyJob, StatusJob
  <2> QED BY <1>5, <2>1, <2>2, <2>3, <2>4 DEF ListenerStep
<1>6. ASSUME NEW p \in Proc,
             HealthCheckExits(p) \/ DeadlockDetected(p) \/ DbLost(p) \/ AmiLost(p) \/ Killed(p)
      PROVE  UNCHANGED job \/ Ends(p)
  BY <1>6 DEF HealthCheckExits, DeadlockDetected, DbLost, AmiLost, Killed, threadVars
<1>7. ASSUME NEW c \in Call, CallEvent(c) PROVE UNCHANGED job
  BY <1>7 DEF CallEvent, Refuse, EndUndialled, Dial, DialAgain, Answer, HangUp, CallStep,
              threadVars
<1>8. ASSUME NEW r \in Row, Ripen(r) PROVE UNCHANGED job
  BY <1>8 DEF Ripen, threadVars
<1>9. UNCHANGED vars => UNCHANGED job
  BY DEF vars, threadVars
<1> QED BY <1>1, <1>2, <1>3, <1>4, <1>5, <1>6, <1>7, <1>8, <1>9 DEF Next, Bounded

\* Events sent to some processes: true ones keep the inboxes true.
LEMMA EventsAppended ==
  ASSUME TypeInv, NumberInv, [Next]_vars, NEW evs \in Seq(Event),
         \A q \in Proc : inbox'[q] \in {inbox[q], inbox[q] \o evs},
         \A i \in 1 .. Len(evs), c \in Call : evs[i] = Ev("DialEndAnswer", c) => Answered(c)'
  PROVE  EventsHonest'
<1> SUFFICES ASSUME NEW q \in Proc, NEW c \in Call, NEW i \in 1 .. Len(inbox'[q]),
                    inbox'[q][i] = Ev("DialEndAnswer", c)
             PROVE  Answered(c)'
  BY DEF EventsHonest
<1>1. inbox[q] \in Seq(Event)
  BY DEF TypeInv, InboxOK
<1>2. CASE i \in 1 .. Len(inbox[q]) /\ inbox'[q][i] = inbox[q][i]
  BY <1>2, History DEF NumberInv, EventsHonest
<1>3. CASE i - Len(inbox[q]) \in 1 .. Len(evs) /\ inbox'[q][i] = evs[i - Len(inbox[q])]
  BY <1>3
<1>4. CASE inbox'[q] = inbox[q]
  BY <1>2, <1>4
<1>5. CASE inbox'[q] = inbox[q] \o evs
  <2>1. \/ i \in 1 .. Len(inbox[q]) /\ inbox'[q][i] = inbox[q][i]
        \/ i - Len(inbox[q]) \in 1 .. Len(evs) /\ inbox'[q][i] = evs[i - Len(inbox[q])]
    BY <1>1, <1>5
  <2> QED BY <2>1, <1>2, <1>3
<1> QED BY <1>4, <1>5

\* A DialEnd with status ANSWER on its way tells of a call that was answered.
LEMMA EventsStayHonest ==
  ASSUME TypeInv, NumberInv, [Next]_vars
  PROVE  EventsHonest'
<1>0. inbox \in [Proc -> Seq(Event)]
  BY DEF TypeInv, InboxOK
<1> DEFINE Fewer == \A q \in Proc : inbox'[q] \in {inbox[q], <<>>}
<1>1. ASSUME Fewer PROVE EventsHonest'
  <2> SUFFICES ASSUME NEW q \in Proc, NEW c \in Call, NEW i \in 1 .. Len(inbox'[q]),
                      inbox'[q][i] = Ev("DialEndAnswer", c)
               PROVE  Answered(c)'
    BY DEF EventsHonest
  <2>1. inbox'[q] = inbox[q]
    BY <1>1
  <2> QED BY <2>1, History DEF NumberInv, EventsHonest
<1>2. ASSUME UNCHANGED inbox PROVE Fewer
  BY <1>2
<1>3. ASSUME NEW p \in Proc, Ends(p) PROVE Fewer
  BY <1>3, <1>0 DEF Ends
<1>4. ASSUME NEW p \in Proc, NEW t, Raise(p, t) PROVE Fewer
  BY <1>4, <1>0 DEF Raise
<1>5. ASSUME NEW p \in Proc, NEW t \in Thread, ThreadStep(p, t) PROVE Fewer
  <2>1. UNCHANGED inbox \/ Ends(p) \/ Raise(p, t)
    BY <1>5 DEF ThreadStep, Probe, ProbeRollback, EnsureRaises, Update, UpdateWaits,
                Commit, StatementRaises, PopEntry
  <2> QED BY <2>1, <1>2, <1>3, <1>4
<1>6. ASSUME NEW p \in Proc, ListenerStep(p) PROVE EventsHonest'
  <2>1. inbox[p] \in Seq(Event) /\ inbox[p] # <<>> /\ inbox' = [inbox EXCEPT ![p] = Tail(@)]
    BY <1>6, <1>0 DEF ListenerStep, OnDialBegin, OnDialEnd, OnHangup, OnOriginateError,
                      Receives
  <2> SUFFICES ASSUME NEW q \in Proc, NEW c \in Call, NEW i \in 1 .. Len(inbox'[q]),
                      inbox'[q][i] = Ev("DialEndAnswer", c)
               PROVE  Answered(c)'
    BY DEF EventsHonest
  <2>2. CASE q # p
    BY <2>1, <2>2, <1>0, History DEF NumberInv, EventsHonest
  <2>3. CASE q = p
    <3>1. inbox'[q] = Tail(inbox[p])
      BY <2>1, <2>3, <1>0
    <3>0. i \in 1 .. Len(Tail(inbox[p]))
      BY <3>1
    <3>2. i + 1 \in 1 .. Len(inbox[p]) /\ Tail(inbox[p])[i] = inbox[p][i + 1]
      BY <2>1, <3>0
    <3> QED BY <3>1, <3>2, <2>3, History DEF NumberInv, EventsHonest
  <2> QED BY <2>2, <2>3
<1>7. ASSUME NEW p \in Proc,
             MainStep(p) \/ DeadlockDetected(p) \/ DbLost(p) \/ AmiLost(p)
               \/ HealthCheckExits(p) \/ Killed(p)
      PROVE  UNCHANGED inbox \/ Ends(p)
  BY <1>7 DEF MainStep, SelectFirst, Originate, DeadlockDetected, DbLost, AmiLost,
              HealthCheckExits, Killed
<1>8. ASSUME NEW c \in Call, CallEvent(c) PROVE EventsHonest'
  <2>e. /\ \A k \in EventKind : Ev(k, c) \in Event
        /\ \A k, d : Ev(k, c) = Ev("DialEndAnswer", d) => k = "DialEndAnswer" /\ d = c
    BY DEF Ev, Event
  <2>1. ASSUME NEW k \in EventKind, NEW l \in EventKind,
               NEW evs \in {<<Ev(k, c)>>, <<Ev(k, c), Ev(l, c)>>},
               \A q \in Proc : inbox'[q] \in {inbox[q], inbox[q] \o evs},
               k = "DialEndAnswer" \/ l = "DialEndAnswer" => Answered(c)'
        PROVE  EventsHonest'
    <3>0. Ev(k, c) \in Event /\ Ev(l, c) \in Event
      BY <2>e
    <3>a. <<Ev(k, c)>> \in Seq(Event)
      BY <3>0
    <3>b. <<Ev(k, c), Ev(l, c)>> \in Seq(Event)
      BY <3>0
    <3>1. evs \in Seq(Event)
      BY <3>a, <3>b, <2>1
    <3>2. \A i \in 1 .. Len(evs) : evs[i] = Ev(k, c) \/ evs[i] = Ev(l, c)
      OBVIOUS
    <3>3. \A i \in 1 .. Len(evs), d \in Call :
            evs[i] = Ev("DialEndAnswer", d) => Answered(d)'
      BY <3>2, <2>e, <2>1
    <3> QED BY <3>1, <3>3, <2>1, EventsAppended
  <2>2. ASSUME NEW evs, Broadcast(evs)
        PROVE  \A q \in Proc : inbox'[q] \in {inbox[q], inbox[q] \o evs}
    BY <2>2 DEF Broadcast
  <2>3. CASE Refuse(c)
    <3> DEFINE evs == <<Ev("OriginateError", c)>>
    <3>1. \A q \in Proc : Append(inbox[q], Ev("OriginateError", c)) = inbox[q] \o evs
      BY <1>0, <2>e DEF EventKind
    <3>2. \A q \in Proc : inbox'[q] \in {inbox[q], inbox[q] \o evs}
      BY <2>3, <3>1, <1>0, ZenonT(40) DEF Refuse
    <3> QED BY <3>2, <2>1 DEF EventKind
  <2>4. CASE EndUndialled(c)
    BY <2>4, <1>1, <1>2, ZenonT(40) DEF EndUndialled
  <2>5. CASE Dial(c)
    BY <2>5, <2>1, <2>2 DEF Dial, EventKind
  <2>6. CASE DialAgain(c)
    BY <2>6, <2>1, <2>2, ZenonT(40) DEF DialAgain, EventKind
  <2>7. CASE Answer(c)
    <3>0. call \in [Call -> CallRec]
      BY DEF TypeInv, CallsOK
    <3>1. Answered(c)'
      <4>1. call'[c].state = "talking"
        BY <2>7, <3>0, ZenonT(40) DEF Answer, CallStep, CallRec
      <4> QED BY <4>1 DEF Answered
    <3> QED BY <2>7, <3>1, <2>1, <2>2 DEF Answer, EventKind
  <2>8. CASE HangUp(c)
    BY <2>8, <2>1, <2>2 DEF HangUp, EventKind
  <2> QED BY <1>8, <2>3, <2>4, <2>5, <2>6, <2>7, <2>8 DEF CallEvent
<1>9. ASSUME NEW r \in Row, Ripen(r) PROVE UNCHANGED inbox
  BY <1>9 DEF Ripen
<1>10. UNCHANGED vars => UNCHANGED inbox
  BY DEF vars
<1> HIDE DEF Fewer
<1> QED BY <1>1, <1>2, <1>3, <1>5, <1>6, <1>7, <1>8, <1>9, <1>10 DEF Next, Bounded

\* Every behaviour keeps the numbers straight.
LEMMA NumbersHold == Spec => []NumberInv
<1>1. Init => NumberInv
  <2> SUFFICES ASSUME Init PROVE NumberInv
    OBVIOUS
  <2>1. NoCall \notin Call /\ NoRow \notin Row
    BY CallbackAssumption DEF NoCall, Call, NoRow
  <2> QED BY <2>1 DEF Init, NumberInv, RowsHonest, TrackedHonest, JobsHonest,
                      EventsHonest, NoJob
<1>2. TypeInv /\ NumberInv /\ [Next]_vars => NumberInv'
  BY RowsStayHonest, TrackedStayHonest, JobsStayHonest, EventsStayHonest DEF NumberInv
<1> QED BY <1>1, <1>2, TypeInvariant, PTL DEF Spec

\* No row is reported ANSWERED unless a call to its number was answered.
THEOREM NoFalseAnswer == Spec => []AnsweredIsReal
<1>1. NumberInv => AnsweredIsReal
  BY DEF NumberInv, RowsHonest, AnsweredIsReal, Real
<1> QED BY <1>1, NumbersHold, PTL

\* No row is linked to the recording of a call to another number.
THEOREM NoForeignRecording == Spec => []UidOfSameNumber
<1>1. TypeInv /\ NumberInv => UidOfSameNumber
  <2> SUFFICES ASSUME TypeInv, NumberInv, NEW r \in Row, db[r].uid # NoCall
               PROVE  Dst[call[db[r].uid].row] = Dst[r]
    BY DEF UidOfSameNumber
  <2>1. db[r].uid \in Call
    BY DEF TypeInv, RowsOK, RowState
  <2> QED BY <2>1 DEF NumberInv, RowsHonest, CallFor
<1> QED BY <1>1, NumbersHold, TypeInvariant, PTL

-----------------------------------------------------------------------------
(* Order.  The DialEnd of an answered call stands before its Hangup in every   *)
(* inbox, and no attempt follows it; a process that was restarted, or did not  *)
(* hear of the answer, does not track the call or will not hear of its Hangup. *)


\* An inbox holds such an event of c; it holds the answer of c, with no attempt after it
\* and no hangup before it.
Says(s, k, c) == \E i \in 1 .. Len(s) : s[i] = Ev(k, c)
SaysAnswer(s, c) == \E i \in 1 .. Len(s) :
  /\ s[i] = Ev("DialEndAnswer", c)
  /\ \A j \in 1 .. Len(s) : /\ j > i => s[j] # Ev("DialBegin", c)
                            /\ j < i => s[j] # Ev("Hangup", c)

Over(c) == call[c].state \in {"ended", "failed"}

\* When process p comes to the Hangup of the answered call c, if it ever does, c is not
\* among its tracked calls.
Clear(p, c) ==
  \/ SaysAnswer(inbox[p], c)
  \/ tracked[p][c] = NoRow /\ ~Says(inbox[p], "DialBegin", c)
  \/ mode[p] # "up" /\ ~Says(inbox[p], "Hangup", c)

HangupsEnd == \A p \in Proc, c \in Call : Says(inbox[p], "Hangup", c) => Over(c)
AnswersClear == \A p \in Proc, c \in Call : Answered(c) => Clear(p, c)
BusyFailed == \A p \in Proc, t \in Thread, c \in Call :
  job[p][t].status = "BUSY" /\ job[p][t].call = c => call[c].state = "failed"
OrderInv == HangupsEnd /\ AnswersClear /\ BusyFailed

-----------------------------------------------------------------------------
\* Events are equal if kind and call are.
LEMMA EventsDiffer ==
  /\ \A k \in EventKind, c \in Call : Ev(k, c) \in Event
  /\ \A k, l, c, d : Ev(k, c) = Ev(l, d) => k = l /\ c = d
BY DEF Ev, Event

\* What is left to read when the first event has been read.
LEMMA ReadOne ==
  ASSUME NEW s \in Seq(Event), s # <<>>, NEW c \in Call
  PROVE  /\ \A k : Says(Tail(s), k, c) => Says(s, k, c)
         /\ \A k : Head(s) = Ev(k, c) => Says(s, k, c)
         /\ SaysAnswer(s, c) /\ Head(s) # Ev("DialEndAnswer", c) => SaysAnswer(Tail(s), c)
         /\ SaysAnswer(s, c) => Head(s) # Ev("Hangup", c)
         /\ SaysAnswer(s, c) => \/ SaysAnswer(Tail(s), c)
                                \/ ~Says(Tail(s), "DialBegin", c)
<1>1. /\ Len(s) \in Nat /\ Len(s) > 0 /\ Head(s) = s[1]
      /\ Tail(s) \in Seq(Event) /\ Len(Tail(s)) = Len(s) - 1
      /\ \A i \in 1 .. Len(Tail(s)) : Tail(s)[i] = s[i + 1]
  OBVIOUS
<1>2. \A i \in 1 .. Len(Tail(s)) : i + 1 \in 1 .. Len(s)
  BY <1>1
<1>3. \A k : Says(Tail(s), k, c) => Says(s, k, c)
  BY <1>1, <1>2 DEF Says
<1>4. \A k : Head(s) = Ev(k, c) => Says(s, k, c)
  <2>1. 1 \in 1 .. Len(s)
    BY <1>1
  <2> QED BY <1>1, <2>1 DEF Says
<1>5. ASSUME NEW i \in 1 .. Len(s), i > 1, s[i] = Ev("DialEndAnswer", c),
             \A j \in 1 .. Len(s) : /\ j > i => s[j] # Ev("DialBegin", c)
                                    /\ j < i => s[j] # Ev("Hangup", c)
      PROVE  SaysAnswer(Tail(s), c)
  <2>1. i - 1 \in 1 .. Len(Tail(s)) /\ Tail(s)[i - 1] = s[i]
    BY <1>1, <1>5
  <2>2. ASSUME NEW j \in 1 .. Len(Tail(s))
        PROVE  /\ j > i - 1 => Tail(s)[j] # Ev("DialBegin", c)
               /\ j < i - 1 => Tail(s)[j] # Ev("Hangup", c)
    <3>1. j + 1 \in 1 .. Len(s) /\ Tail(s)[j] = s[j + 1] /\ j \in Nat /\ i \in Nat
      BY <1>1, <1>2
    <3>2. (j > i - 1 => j + 1 > i) /\ (j < i - 1 => j + 1 < i)
      BY <3>1
    <3> QED BY <3>1, <3>2, <1>5
  <2> QED BY <2>1, <2>2, <1>5 DEF SaysAnswer
<1>6. CASE ~SaysAnswer(s, c)
  BY <1>3, <1>4, <1>6
<1>7. CASE SaysAnswer(s, c)
  <2>1. PICK i \in 1 .. Len(s) :
          /\ s[i] = Ev("DialEndAnswer", c)
          /\ \A j \in 1 .. Len(s) : /\ j > i => s[j] # Ev("DialBegin", c)
                                    /\ j < i => s[j] # Ev("Hangup", c)
    BY <1>7 DEF SaysAnswer
  <2>2. CASE i > 1
    <3>1. SaysAnswer(Tail(s), c)
      BY <2>1, <2>2, <1>5
    <3>2. Head(s) # Ev("Hangup", c)
      BY <2>1, <2>2, <1>1
    <3> QED BY <1>3, <1>4, <3>1, <3>2
  <2>3. CASE i = 1
    <3>1. Head(s) = Ev("DialEndAnswer", c)
      BY <2>1, <2>3, <1>1
    <3>2. ~Says(Tail(s), "DialBegin", c)
      <4>1. \A j \in 1 .. Len(Tail(s)) : j + 1 > 1
        BY <1>1
      <4> QED BY <2>1, <2>3, <4>1, <1>1, <1>2 DEF Says
    <3>3. Head(s) # Ev("Hangup", c)
      BY <3>1, EventsDiffer
    <3> QED BY <1>3, <1>4, <3>1, <3>2, <3>3
  <2> QED BY <2>1, <2>2, <2>3
<1> QED BY <1>6, <1>7

\* What is there to read when more events have come.
LEMMA ReadMore ==
  ASSUME NEW s \in Seq(Event), NEW evs \in Seq(Event), NEW c \in Call
  PROVE  /\ \A k : Says(s \o evs, k, c) => Says(s, k, c) \/ Says(evs, k, c)
         /\ SaysAnswer(s, c) /\ ~Says(evs, "DialBegin", c) => SaysAnswer(s \o evs, c)
         /\ ~Says(s, "Hangup", c) /\ evs = <<Ev("DialEndAnswer", c)>>
              => SaysAnswer(s \o evs, c)
<1> DEFINE r == s \o evs
<1>1. /\ Len(s) \in Nat /\ Len(evs) \in Nat /\ r \in Seq(Event)
      /\ Len(r) = Len(s) + Len(evs)
  OBVIOUS
<1>2. \A i \in 1 .. Len(s) : i \in 1 .. Len(r) /\ r[i] = s[i]
  OBVIOUS
<1>3. \A i \in 1 .. Len(r) : \/ i \in 1 .. Len(s) /\ r[i] = s[i]
                             \/ /\ i > Len(s) /\ i - Len(s) \in 1 .. Len(evs)
                                /\ r[i] = evs[i - Len(s)]
  OBVIOUS
<1>4. \A k : Says(r, k, c) => Says(s, k, c) \/ Says(evs, k, c)
  BY <1>3 DEF Says
<1>5. ASSUME SaysAnswer(s, c), ~Says(evs, "DialBegin", c) PROVE SaysAnswer(r, c)
  <2>1. PICK i \in 1 .. Len(s) :
          /\ s[i] = Ev("DialEndAnswer", c)
          /\ \A j \in 1 .. Len(s) : /\ j > i => s[j] # Ev("DialBegin", c)
                                    /\ j < i => s[j] # Ev("Hangup", c)
    BY <1>5 DEF SaysAnswer
  <2>2. ASSUME NEW j \in 1 .. Len(r)
        PROVE  /\ j > i => r[j] # Ev("DialBegin", c)
               /\ j < i => r[j] # Ev("Hangup", c)
    <3>1. CASE j \in 1 .. Len(s) /\ r[j] = s[j]
      BY <3>1, <2>1
    <3>2. CASE /\ j > Len(s) /\ j - Len(s) \in 1 .. Len(evs)
               /\ r[j] = evs[j - Len(s)]
      <4>1. ~ (j < i)
        BY <3>2, <1>1
      <4>2. r[j] # Ev("DialBegin", c)
        BY <3>2, <1>5 DEF Says
      <4> QED BY <4>1, <4>2
    <3> HIDE DEF r
    <3> QED BY <3>1, <3>2, <1>3
  <2>3. i \in 1 .. Len(r) /\ r[i] = Ev("DialEndAnswer", c)
    BY <1>2, <2>1
  <2> HIDE DEF r
  <2> QED BY <2>2, <2>3 DEF SaysAnswer
<1>6. ASSUME ~Says(s, "Hangup", c), evs = <<Ev("DialEndAnswer", c)>>
      PROVE  SaysAnswer(r, c)
  <2> DEFINE i == Len(s) + 1
  <2>1. Len(evs) = 1 /\ evs[1] = Ev("DialEndAnswer", c)
    BY <1>6
  <2>2. i \in 1 .. Len(r) /\ Len(r) = i
    BY <1>1, <2>1
  <2>3. r[i] = Ev("DialEndAnswer", c)
    <3>1. i \notin 1 .. Len(s) /\ i - Len(s) = 1
      BY <1>1
    <3> HIDE DEF r, i
    <3> QED BY <1>3, <2>1, <2>2, <3>1
  <2>4. ASSUME NEW j \in 1 .. Len(r)
        PROVE  /\ ~ (j > i)
               /\ j < i => r[j] # Ev("Hangup", c)
    <3>1. ~ (j > i) /\ (j < i => j \in 1 .. Len(s))
      BY <1>1, <2>2
    <3> HIDE DEF r, i
    <3> QED BY <3>1, <1>2, <1>6 DEF Says
  <2> HIDE DEF r, i
  <2> QED BY <2>2, <2>3, <2>4 DEF SaysAnswer
<1> HIDE DEF r
<1>7. \A k : Says(r, k, c) => Says(s, k, c) \/ Says(evs, k, c)
  BY <1>4
<1> QED BY <1>7, <1>5, <1>6 DEF r

-----------------------------------------------------------------------------
\* What a step that is not one of Asterisk's does to the inbox of p and to c among its
\* tracked calls: nothing that tracks c, or the inbox is dropped, or its first event read.
Kept(p, c) ==
  \/ /\ inbox'[p] = inbox[p] /\ tracked'[p][c] \in {tracked[p][c], NoRow}
     /\ mode[p] # "up" => mode'[p] # "up"
  \/ inbox'[p] = <<>> /\ (tracked'[p][c] = NoRow \/ mode'[p] # "up")
  \/ /\ inbox[p] # <<>> /\ inbox'[p] = Tail(inbox[p]) /\ mode'[p] = mode[p]
     /\ tracked'[p][c] \in {tracked[p][c], NoRow} \/ Head(inbox[p]) = Ev("DialBegin", c)
     /\ Head(inbox[p]) = Ev("DialEndAnswer", c) => tracked'[p][c] = NoRow
\* ... and to the state of c.
Still(c) == \/ call'[c].state = call[c].state
            \/ call[c].state = "unused" /\ ~Answered(c)'
\* ... and to the job of a thread, for every step.
NoNewBusy(p, t) == \A c \in Call :
  job'[p][t].status = "BUSY" /\ job'[p][t].call = c
    => \/ job[p][t].status = "BUSY" /\ job[p][t].call = c
       \/ call[c].state = "failed"

\* Such a step keeps an inbox in order, and brings no Hangup.
LEMMA KeptClear ==
  ASSUME TypeInv, NEW p \in Proc, NEW c \in Call, Kept(p, c)
  PROVE  /\ Clear(p, c) => Clear(p, c)'
         /\ Says(inbox'[p], "Hangup", c) => Says(inbox[p], "Hangup", c)
<1>0. inbox[p] \in Seq(Event)
  BY DEF TypeInv, InboxOK
<1>n. \A k : ~Says(<<>>, k, c)
  BY DEF Says
<1>1. CASE /\ inbox'[p] = inbox[p] /\ tracked'[p][c] \in {tracked[p][c], NoRow}
           /\ mode[p] # "up" => mode'[p] # "up"
  BY <1>1 DEF Clear
<1>2. CASE inbox'[p] = <<>> /\ (tracked'[p][c] = NoRow \/ mode'[p] # "up")
  BY <1>2, <1>n DEF Clear
<1>3. CASE /\ inbox[p] # <<>> /\ inbox'[p] = Tail(inbox[p]) /\ mode'[p] = mode[p]
           /\ tracked'[p][c] \in {tracked[p][c], NoRow}
                \/ Head(inbox[p]) = Ev("DialBegin", c)
           /\ Head(inbox[p]) = Ev("DialEndAnswer", c) => tracked'[p][c] = NoRow
  <2>1. /\ \A k : Says(inbox'[p], k, c) => Says(inbox[p], k, c)
        /\ \A k : Head(inbox[p]) = Ev(k, c) => Says(inbox[p], k, c)
        /\ SaysAnswer(inbox[p], c) /\ Head(inbox[p]) # Ev("DialEndAnswer", c)
             => SaysAnswer(inbox'[p], c)
        /\ SaysAnswer(inbox[p], c) => \/ SaysAnswer(inbox'[p], c)
                                      \/ ~Says(inbox'[p], "DialBegin", c)
    BY <1>0, <1>3, ReadOne
  <2>2. CASE SaysAnswer(inbox[p], c)
    BY <2>1, <2>2, <1>3 DEF Clear
  <2>3. CASE tracked[p][c] = NoRow /\ ~Says(inbox[p], "DialBegin", c)
    BY <2>1, <2>3, <1>3 DEF Clear
  <2>4. CASE mode[p] # "up" /\ ~Says(inbox[p], "Hangup", c)
    BY <2>1, <2>4, <1>3 DEF Clear
  <2> QED BY <2>1, <2>2, <2>3, <2>4 DEF Clear
<1> QED BY <1>1, <1>2, <1>3 DEF Kept

-----------------------------------------------------------------------------
\* The end of a process.
LEMMA EndsKeep ==
  ASSUME TypeInv, NEW q \in Proc, Ends(q)
  PROVE  /\ \A p \in Proc, c \in Call : Kept(p, c) /\ Still(c)
         /\ \A p \in Proc, t \in Thread : NoNewBusy(p, t)
<1>1. ASSUME NEW p \in Proc, NEW c \in Call PROVE Kept(p, c)
  <2>1. \/ inbox'[p] = <<>> /\ tracked'[p][c] = NoRow
        \/ inbox'[p] = inbox[p] /\ tracked'[p] = tracked[p] /\ mode'[p] = mode[p]
    BY DEF Ends
  <2> QED BY <2>1 DEF Kept
<1>2. ASSUME NEW c \in Call PROVE Still(c)
  <2>1. call'[c].state = call[c].state
    BY DEF Ends, TypeInv, CallsOK, CallRec
  <2> QED BY <2>1 DEF Still
<1>3. ASSUME NEW p \in Proc, NEW t \in Thread PROVE NoNewBusy(p, t)
  <2>1. job'[p][t] \in {job[p][t], NoJob}
    BY DEF Ends
  <2>2. NoJob.status # "BUSY"
    BY DEF NoJob
  <2> QED BY <2>1, <2>2 DEF NoNewBusy
<1> QED BY <1>1, <1>2, <1>3

\* An exception: the inbox may be dropped, the job may become that of the recording.
LEMMA RaiseKeeps ==
  ASSUME TypeInv, NEW q \in Proc, NEW u \in Thread, Raise(q, u), UNCHANGED <<call, tracked>>
  PROVE  /\ \A p \in Proc, c \in Call : Kept(p, c) /\ Still(c)
         /\ \A p \in Proc, t \in Thread : NoNewBusy(p, t)
<1>1. ASSUME NEW p \in Proc, NEW c \in Call PROVE Kept(p, c)
  <2>1. \/ inbox'[p] = <<>> /\ mode'[p] # "up"
        \/ inbox'[p] = inbox[p] /\ mode'[p] = mode[p]
    BY DEF Raise, TypeInv, InboxOK, ModesOK
  <2> QED BY <2>1 DEF Kept
<1>2. \A c \in Call : Still(c)
  BY DEF Still
<1>3. ASSUME NEW p \in Proc, NEW t \in Thread PROVE NoNewBusy(p, t)
  <2>0. job[p][t] \in Job
    BY DEF TypeInv, ThreadsOK
  <2>1. job'[p][t] \in {job[p][t], NoJob, [job[p][t] EXCEPT !.kind = "uid"]}
    BY DEF Raise, Become, TypeInv, ThreadsOK
  <2>2. NoJob.status # "BUSY"
    BY DEF NoJob
  <2>3. PICK j \in Job : j = job[p][t]
    BY <2>0
  <2>4. [j EXCEPT !.kind = "uid"].status = j.status /\ [j EXCEPT !.kind = "uid"].call = j.call
    BY DEF Job
  <2> QED BY <2>1, <2>2, <2>3, <2>4 DEF NoNewBusy
<1> QED BY <1>1, <1>2, <1>3

\* A thread that goes on with a job that names no call, or the call it had.
LEMMA BecomesKeeps ==
  ASSUME TypeInv, NEW q \in Proc, NEW u \in Thread, NEW l, NEW j, Become(q, u, l, j),
         \A c \in Call : j.status = "BUSY" /\ j.call = c
           => \/ job[q][u].status = "BUSY" /\ job[q][u].call = c
              \/ call[c].state = "failed"
  PROVE  \A p \in Proc, t \in Thread : NoNewBusy(p, t)
BY DEF Become, NoNewBusy, TypeInv, ThreadsOK

\* The jobs the polling loop and the end of a call make.
LEMMA NoCallJobs ==
  /\ NoJob.call \notin Call
  /\ \A r : ClaimJob(r).call \notin Call
  /\ \A r, f : BusyJob(r, f).call \notin Call
BY DEF NoJob, ClaimJob, BusyJob, StatusJob, NoCall, Call

\* The statements of a thread, and the end of _mark_busy.
LEMMA ThreadStepKeeps ==
  ASSUME TypeInv, NEW q \in Proc, NEW u \in Thread, ThreadStep(q, u)
  PROVE  /\ \A p \in Proc, c \in Call : Kept(p, c) /\ Still(c)
         /\ \A p \in Proc, t \in Thread : NoNewBusy(p, t)
<1>1. ASSUME UNCHANGED <<inbox, tracked, mode, call>>
      PROVE  \A p \in Proc, c \in Call : Kept(p, c) /\ Still(c)
  BY <1>1 DEF Kept, Still
<1>2. ASSUME UNCHANGED job PROVE \A p \in Proc, t \in Thread : NoNewBusy(p, t)
  BY <1>2 DEF NoNewBusy
<1>3. CASE Probe(q, u) \/ ProbeRollback(q, u) \/ Update(q, u) \/ UpdateWaits(q, u)
  <2>1. UNCHANGED <<inbox, tracked, mode, call, job>>
    BY <1>3 DEF Probe, ProbeRollback, Update, UpdateWaits, mapVars, envVars, threadVars
  <2> QED BY <2>1, <1>1, <1>2
<1>4. CASE EnsureRaises(q, u) \/ StatementRaises(q, u)
  <2>1. Raise(q, u) /\ UNCHANGED <<call, tracked>>
    BY <1>4 DEF EnsureRaises, StatementRaises, mapVars
  <2> QED BY <2>1, RaiseKeeps
<1>5. CASE Commit(q, u)
  <2>1. UNCHANGED <<inbox, tracked, mode, call>>
    BY <1>5 DEF Commit, mapVars, envVars
  <2>2. PICK j \in Job : j = job[q][u]
    BY DEF TypeInv, ThreadsOK
  <2>3. [j EXCEPT !.kind = "uid"].status = j.status /\ [j EXCEPT !.kind = "uid"].call = j.call
    BY <2>2 DEF Job
  <2>4. \E l : \/ Become(q, u, l, j)
               \/ Become(q, u, l, [j EXCEPT !.kind = "uid"])
               \/ Become(q, u, l, NoJob)
    <3>1. CASE j.kind = "claim"
      BY <1>5, <2>2, <3>1 DEF Commit, AfterCommit
    <3>2. CASE j.kind = "status" /\ j.call # NoCall
      BY <1>5, <2>2, <3>2 DEF Commit, AfterCommit
    <3>3. CASE j.kind = "status" /\ j.call = NoCall
      BY <1>5, <2>2, <3>3 DEF Commit, AfterCommit
    <3>4. CASE j.kind \notin {"claim", "status"}
      BY <1>5, <2>2, <3>4 DEF Commit, AfterCommit
    <3> QED BY <3>1, <3>2, <3>3, <3>4
  <2>5. \A p \in Proc, t \in Thread : NoNewBusy(p, t)
    <3>1. PICK l : \/ Become(q, u, l, j)
                   \/ Become(q, u, l, [j EXCEPT !.kind = "uid"])
                   \/ Become(q, u, l, NoJob)
      BY <2>4
    <3>2. CASE Become(q, u, l, j)
      BY <3>2, <2>2, BecomesKeeps
    <3>3. CASE Become(q, u, l, [j EXCEPT !.kind = "uid"])
      <4> DEFINE i == [j EXCEPT !.kind = "uid"]
      <4>1. Become(q, u, l, i) /\ i.status = job[q][u].status /\ i.call = job[q][u].call
        BY <3>3, <2>2, <2>3
      <4> HIDE DEF i
      <4> QED BY <4>1, BecomesKeeps
    <3>4. CASE Become(q, u, l, NoJob)
      BY <3>4, NoCallJobs, BecomesKeeps
    <3> QED BY <3>1, <3>2, <3>3, <3>4
  <2> QED BY <2>1, <2>5, <1>1
<1>6. CASE PopEntry(q, u)
  <2>1. CASE Ends(q)
    BY <2>1, EndsKeep
  <2>2. CASE Become(q, u, "idle", NoJob) /\ UNCHANGED <<inbox, tracked, mode, call>>
    BY <2>2, <1>1, NoCallJobs, BecomesKeeps
  <2> QED BY <1>6, <2>1, <2>2 DEF PopEntry, envVars
<1> QED BY <1>3, <1>4, <1>5, <1>6 DEF ThreadStep

\* The polling loop.
LEMMA MainStepKeeps ==
  ASSUME TypeInv, NEW q \in Proc, MainStep(q)
  PROVE  /\ \A p \in Proc, c \in Call : Kept(p, c) /\ Still(c)
         /\ \A p \in Proc, t \in Thread : NoNewBusy(p, t)
<1>t. "main" \in Thread
  BY DEF Thread
<1>1. UNCHANGED <<inbox, tracked, mode>>
  BY DEF MainStep, SelectFirst, Originate, mapVars, envVars
<1>2. \A p \in Proc, c \in Call : Kept(p, c)
  BY <1>1 DEF Kept
<1>3. \/ UNCHANGED job
      \/ \E l, j : Become(q, "main", l, j) /\ j.call \notin Call
  <2>1. CASE SelectFirst(q)
    BY <2>1, NoCallJobs DEF SelectFirst
  <2>2. CASE Originate(q)
    <3>1. \/ Become(q, "main", "idle", NoJob)
          \/ \E r, f : Become(q, "main", "ensure", BusyJob(r, f))
      BY <2>2 DEF Originate
    <3> QED BY <3>1, NoCallJobs
  <2> QED BY <2>1, <2>2 DEF MainStep
<1>4. \A p \in Proc, t \in Thread : NoNewBusy(p, t)
  <2>1. CASE UNCHANGED job
    BY <2>1 DEF NoNewBusy
  <2>2. CASE \E l, j : Become(q, "main", l, j) /\ j.call \notin Call
    <3>1. PICK l, j : Become(q, "main", l, j) /\ j.call \notin Call
      BY <2>2
    <3> QED BY <3>1, <1>t, BecomesKeeps
  <2> QED BY <2>1, <2>2, <1>3
<1>5. \A c \in Call : Still(c)
  <2>1. CASE SelectFirst(q)
    BY <2>1 DEF SelectFirst, envVars, Still
  <2>2. CASE Originate(q)
    <3>1. Unused \in SUBSET Nat /\ Unused # {}
      BY <2>2, CallbackAssumption DEF Originate, Unused, Call
    <3>2. Min(Unused) \in Call /\ call[Min(Unused)].state = "unused"
      BY <3>1, MinIsMember DEF Unused
    <3>3. PICK r, b, s : Placed(Min(Unused), r, b, s) /\ s \in {"requested", "failed"}
      BY <2>2 DEF Originate
    <3>4. \A c \in Call \ {Min(Unused)} : call'[c] = call[c]
      BY <3>3 DEF Placed, TypeInv, CallsOK
    <3>5. call'[Min(Unused)].state \in {"requested", "failed"}
      BY <3>2, <3>3 DEF Placed, TypeInv, CallsOK
    <3> QED BY <3>2, <3>4, <3>5 DEF Still, Answered
  <2> QED BY <2>1, <2>2 DEF MainStep
<1> QED BY <1>2, <1>4, <1>5

\* event_listener and the callback of an Originate.
LEMMA ListenerStepKeeps ==
  ASSUME TypeInv, OrderInv, NEW q \in Proc, ListenerStep(q)
  PROVE  /\ \A p \in Proc, c \in Call : Kept(p, c) /\ Still(c)
         /\ \A p \in Proc, t \in Thread : NoNewBusy(p, t)
<1>t. "ami" \in Thread
  BY DEF Thread
<1>0. PICK k \in EventKind : Receives(q, k)
  BY DEF ListenerStep, OnDialBegin, OnDialEnd, OnHangup, OnOriginateError, EventKind
<1>1. UNCHANGED <<mode, call>>
  BY DEF ListenerStep, OnDialBegin, OnDialEnd, OnHangup, OnOriginateError, Finish, envVars
<1>2. \A c \in Call : Still(c)
  BY <1>1 DEF Still
<1>3. PICK d : Head(inbox[q]) = Ev(k, d) /\ d = Head(inbox[q]).call /\ d \in Call
  <2>1. Head(inbox[q]) \in Event
    BY <1>0, <1>1, ReceiveType DEF TypeInv
  <2> QED BY <2>1, <1>0 DEF Receives, Ev, Event
<1>4. /\ inbox[q] # <<>> /\ inbox'[q] = Tail(inbox[q])
      /\ \A p \in Proc \ {q} : inbox'[p] = inbox[p]
  BY <1>0 DEF Receives, TypeInv, InboxOK
<1>k. ASSUME NEW l, Receives(q, l) PROVE l = k
  BY <1>0, <1>k DEF Receives
<1>5. /\ \A p \in Proc \ {q} : tracked'[p] = tracked[p]
      /\ \A c \in Call : \/ tracked'[q][c] \in {tracked[q][c], NoRow}
                         \/ k = "DialBegin" /\ c = d
      /\ k = "DialEndAnswer" => tracked'[q][d] = NoRow
  <2>1. CASE OnDialBegin(q)
    <3>1. k = "DialBegin"
      BY <2>1, <1>k DEF OnDialBegin
    <3>2. UNCHANGED tracked \/ \E v : tracked' = [tracked EXCEPT ![q][d] = v]
      BY <2>1, <1>3 DEF OnDialBegin, mapVars
    <3> QED BY <3>1, <3>2 DEF TypeInv, MapsOK
  <2>2. ASSUME NEW s, Finish(q, d, s)
        PROVE  /\ \A p \in Proc \ {q} : tracked'[p] = tracked[p]
               /\ \A c \in Call : tracked'[q][c] \in {tracked[q][c], NoRow}
               /\ tracked'[q][d] = NoRow
    BY <2>2, <1>3 DEF Finish, TypeInv, MapsOK
  <2>3. CASE OnDialEnd(q)
    <3>1. CASE Receives(q, "DialEndAnswer") /\ Finish(q, d, "ANSWERED")
      BY <3>1, <2>2
    <3>2. CASE Receives(q, "DialEndOther") /\ UNCHANGED tracked
      BY <3>2, <1>k
    <3> QED BY <2>3, <1>3, <3>1, <3>2 DEF OnDialEnd, mapVars
  <2>4. CASE OnHangup(q)
    BY <2>4, <2>2, <1>3 DEF OnHangup
  <2>5. CASE OnOriginateError(q)
    BY <2>5, <1>k DEF OnOriginateError, mapVars
  <2> QED BY <2>1, <2>3, <2>4, <2>5 DEF ListenerStep
<1>6. ASSUME NEW p \in Proc, NEW c \in Call PROVE Kept(p, c)
  <2>1. CASE p # q
    BY <2>1, <1>1, <1>4, <1>5 DEF Kept
  <2>2. CASE p = q
    <3>1. Head(inbox[q]) = Ev("DialEndAnswer", c) => tracked'[q][c] = NoRow
      BY <1>3, <1>5, EventsDiffer
    <3>2. \/ tracked'[q][c] \in {tracked[q][c], NoRow}
          \/ Head(inbox[q]) = Ev("DialBegin", c)
      BY <1>3, <1>5
    <3> QED BY <2>2, <1>1, <1>4, <3>1, <3>2 DEF Kept
  <2> QED BY <2>1, <2>2
<1>7. \A p \in Proc, t \in Thread : NoNewBusy(p, t)
  <2>1. CASE UNCHANGED job
    BY <2>1 DEF NoNewBusy
  <2>2. ASSUME NEW s, Finish(q, d, s), tracked[q][d] # NoRow,
               s = "BUSY" => call[d].state = "failed"
        PROVE  \A p \in Proc, t \in Thread : NoNewBusy(p, t)
    <3> DEFINE j == StatusJob(tracked[q][d], s, d)
    <3>1. Become(q, "ami", "ensure", j)
      BY <2>2 DEF Finish
    <3>2. j.status = s /\ j.call = d
      BY DEF StatusJob
    <3> HIDE DEF j
    <3> QED BY <3>1, <3>2, <2>2, <1>t, BecomesKeeps
  <2>3. CASE OnHangup(q)
    <3>1. Receives(q, "Hangup") /\ Finish(q, d, "BUSY")
      BY <2>3, <1>3 DEF OnHangup
    <3>2. Head(inbox[q]) = Ev("Hangup", d)
      BY <3>1, <1>3, <1>k
    <3>3. CASE tracked[q][d] = NoRow
      BY <3>1, <3>3, <2>1 DEF Finish, threadVars
    <3>4. CASE tracked[q][d] # NoRow
      <4>1. inbox[q] \in Seq(Event)
        BY DEF TypeInv, InboxOK
      <4>2. Says(inbox[q], "Hangup", d) /\ ~SaysAnswer(inbox[q], d)
        BY <4>1, <3>2, <1>3, <1>4, ReadOne
      <4>3. ~Clear(q, d)
        BY <4>2, <3>4 DEF Clear
      <4>4. Over(d) /\ ~Answered(d)
        BY <4>2, <4>3, <1>3 DEF OrderInv, HangupsEnd, AnswersClear
      <4> QED BY <4>4, <3>1, <3>4, <2>2 DEF Over, Answered
    <3> QED BY <3>3, <3>4
  <2>4. CASE OnDialEnd(q)
    <3>1. CASE Finish(q, d, "ANSWERED") /\ tracked[q][d] # NoRow
      BY <3>1, <2>2
    <3>2. CASE Finish(q, d, "ANSWERED") /\ tracked[q][d] = NoRow
      BY <3>2, <2>1 DEF Finish, threadVars
    <3> QED BY <2>4, <1>3, <3>1, <3>2, <2>1 DEF OnDialEnd, threadVars
  <2>5. CASE OnDialBegin(q)
    BY <2>5, <2>1 DEF OnDialBegin, threadVars
  <2>6. CASE OnOriginateError(q)
    <3>1. \E j : Become(q, "ami", "ensure", j) /\ j.call \notin Call
      BY <2>6, NoCallJobs DEF OnOriginateError
    <3>2. PICK j : Become(q, "ami", "ensure", j) /\ j.call \notin Call
      BY <3>1
    <3> QED BY <3>2, <1>t, BecomesKeeps
  <2> QED BY <2>3, <2>4, <2>5, <2>6 DEF ListenerStep
<1> QED BY <1>2, <1>6, <1>7

\* Whatever is not an event of Asterisk's.
LEMMA OthersKeep ==
  ASSUME TypeInv, OrderInv, [Next]_vars
  PROVE  \/ \E c \in Call : CallEvent(c)
         \/ /\ \A p \in Proc, c \in Call : Kept(p, c) /\ Still(c)
            /\ \A p \in Proc, t \in Thread : NoNewBusy(p, t)
<1> DEFINE Keeps == /\ \A p \in Proc, c \in Call : Kept(p, c) /\ Still(c)
                    /\ \A p \in Proc, t \in Thread : NoNewBusy(p, t)
<1>1. ASSUME NEW q \in Proc, NEW u \in Thread, ThreadStep(q, u) PROVE Keeps
  BY <1>1, ThreadStepKeeps
<1>2. ASSUME NEW q \in Proc, MainStep(q) \/ ListenerStep(q) PROVE Keeps
  BY <1>2, MainStepKeeps, ListenerStepKeeps
<1>3. ASSUME NEW q \in Proc, Ends(q) PROVE Keeps
  BY <1>3, EndsKeep
<1>4. ASSUME UNCHANGED <<inbox, tracked, call, job>>,
             \A p \in Proc : mode[p] # "up" => mode'[p] # "up"
      PROVE  Keeps
  BY <1>4 DEF Kept, Still, NoNewBusy
<1>5. ASSUME NEW q \in Proc, DeadlockDetected(q) \/ DbLost(q) \/ AmiLost(q) PROVE Keeps
  <2>1. UNCHANGED <<inbox, tracked, call, job>>
    BY <1>5 DEF DeadlockDetected, DbLost, AmiLost, threadVars, mapVars, envVars
  <2>2. \A p \in Proc : mode[p] # "up" => mode'[p] # "up"
    BY <1>5 DEF DeadlockDetected, DbLost, AmiLost, envVars, TypeInv, ModesOK
  <2> QED BY <2>1, <2>2, <1>4
<1>6. ASSUME NEW q \in Proc, HealthCheckExits(q) \/ Killed(q) PROVE Keeps
  BY <1>6, <1>3 DEF HealthCheckExits, Killed
<1>7. ASSUME NEW r \in Row, Ripen(r) PROVE Keeps
  <2>1. UNCHANGED <<inbox, tracked, call, job, mode>>
    BY <1>7 DEF Ripen, threadVars, mapVars, envVars
  <2> QED BY <2>1, <1>4
<1>8. ASSUME UNCHANGED vars PROVE Keeps
  <2>1. UNCHANGED <<inbox, tracked, call, job, mode>>
    BY <1>8 DEF vars, threadVars, mapVars, envVars
  <2> QED BY <2>1, <1>4
<1> HIDE DEF Keeps
<1>9. (\E c \in Call : CallEvent(c)) \/ Keeps
  BY <1>1, <1>2, <1>5, <1>6, <1>7, <1>8 DEF Next, Bounded
<1> QED BY <1>9 DEF Keeps

-----------------------------------------------------------------------------
\* What process p is told of call c when the events evs are sent: there is no attempt
\* after the answer, the hangup is the end, and an answer is told of at once.
Spoken(p, c, evs) ==
  /\ evs \in Seq(Event)
  /\ inbox'[p] \in {inbox[p], inbox[p] \o evs}
  /\ mode[p] # "up" => inbox'[p] = inbox[p]
  /\ Says(evs, "DialBegin", c) => ~Answered(c)'
  /\ Says(evs, "Hangup", c) => Over(c)'
  /\ Answered(c)' /\ ~Answered(c) =>
       /\ ~Over(c) /\ evs = <<Ev("DialEndAnswer", c)>>
       /\ mode[p] = "up" => inbox'[p] = inbox[p] \o evs

\* What one or two events say.
LEMMA OnceSaid ==
  ASSUME NEW c, NEW d, NEW k, NEW l, NEW m
  PROVE  /\ Says(<<Ev(k, d)>>, m, c) <=> k = m /\ d = c
         /\ Says(<<Ev(k, d), Ev(l, d)>>, m, c) <=> (k = m \/ l = m) /\ d = c
<1>1. Says(<<Ev(k, d)>>, m, c) <=> Ev(k, d) = Ev(m, c)
  BY DEF Says
<1>2. Says(<<Ev(k, d), Ev(l, d)>>, m, c) <=> Ev(k, d) = Ev(m, c) \/ Ev(l, d) = Ev(m, c)
  BY DEF Says
<1> QED BY <1>1, <1>2, EventsDiffer

\* The last events of a call.
LEMMA HangupSaid ==
  ASSUME NEW c, NEW d, NEW evs,
         evs \in {<<Ev("Hangup", d)>>, <<Ev("DialEndOther", d), Ev("Hangup", d)>>}
  PROVE  ~Says(evs, "DialBegin", c) /\ (Says(evs, "Hangup", c) => c = d)
<1>1. \A i \in 1 .. Len(evs) : evs[i] = Ev("Hangup", d) \/ evs[i] = Ev("DialEndOther", d)
  OBVIOUS
<1>2. \A k : Says(evs, k, c) => Ev(k, c) = Ev("Hangup", d) \/ Ev(k, c) = Ev("DialEndOther", d)
  BY <1>1 DEF Says
<1> QED BY <1>2, EventsDiffer

\* Appending one event is appending a list of one.
LEMMA AppendOne ==
  ASSUME NEW e \in Event, NEW s \in Seq(Event)
  PROVE  Append(s, e) = s \o <<e>>
OBVIOUS

\* Asterisk speaks like that.
LEMMA CallsSpoken ==
  ASSUME TypeInv, NEW d \in Call, CallEvent(d), NEW p \in Proc, NEW c \in Call
  PROVE  /\ \E evs : Spoken(p, c, evs)
         /\ tracked' = tracked /\ mode' = mode /\ job' = job
         /\ Over(c) => call'[c].state = call[c].state
<1>0. /\ inbox \in [Proc -> Seq(Event)] /\ call \in [Call -> CallRec]
      /\ inbox[p] \in Seq(Event) /\ call[c] \in CallRec
  BY DEF TypeInv, InboxOK, CallsOK
<1>1. tracked' = tracked /\ mode' = mode /\ job' = job
  BY DEF CallEvent, Refuse, EndUndialled, Dial, DialAgain, Answer, HangUp, CallStep,
         threadVars, mapVars
<1>2. ASSUME NEW f, NEW g, CallStep(d, f, g)
      PROVE  /\ c # d => call'[c] = call[c]
             /\ call[d].state = f /\ call'[d].state = g
  BY <1>2, <1>0 DEF CallStep, CallRec
<1>3. ASSUME NEW k \in EventKind PROVE Ev(k, d) \in Event
  BY <1>3, EventsDiffer
<1>4. ASSUME NEW evs, Broadcast(evs)
      PROVE  /\ inbox'[p] \in {inbox[p], inbox[p] \o evs}
             /\ mode[p] # "up" => inbox'[p] = inbox[p]
             /\ mode[p] = "up" => inbox'[p] = inbox[p] \o evs
  BY <1>4 DEF Broadcast
<1>5. CASE Refuse(d)
  <2> DEFINE evs == <<Ev("OriginateError", d)>>
  <2>1. Ev("OriginateError", d) \in Event
    BY <1>3 DEF EventKind
  <2>2. evs \in Seq(Event) /\ Append(inbox[p], Ev("OriginateError", d)) = inbox[p] \o evs
    <3>1. Append(inbox[p], Ev("OriginateError", d)) = inbox[p] \o <<Ev("OriginateError", d)>>
      BY <2>1, <1>0, AppendOne
    <3> QED BY <2>1, <3>1
  <2>3. /\ inbox'[p] \in {inbox[p], inbox[p] \o evs}
        /\ mode[p] # "up" => inbox'[p] = inbox[p]
    BY <1>5, <2>2, <1>0 DEF Refuse
  <2>4. ~Says(evs, "DialBegin", c) /\ ~Says(evs, "Hangup", c)
    <3>1. /\ Says(evs, "DialBegin", c) => "OriginateError" = "DialBegin"
          /\ Says(evs, "Hangup", c) => "OriginateError" = "Hangup"
      BY OnceSaid
    <3> QED BY <3>1
  <2>5. /\ c # d => call'[c] = call[c]
        /\ call[d].state = "requested" /\ call'[d].state = "failed"
    BY <1>5, <1>2 DEF Refuse
  <2> HIDE DEF evs
  <2>6. Spoken(p, c, evs)
    BY <2>2, <2>3, <2>4, <2>5 DEF Spoken, Answered
  <2> QED BY <1>1, <2>5, <2>6 DEF Over
<1>6. CASE EndUndialled(d)
  <2>1. /\ c # d => call'[c] = call[c]
        /\ call[d].state = "requested" /\ call'[d].state = "failed"
    BY <1>6, <1>2 DEF EndUndialled
  <2>2. Spoken(p, c, <<>>)
    BY <1>6, <2>1 DEF EndUndialled, Spoken, Says, Answered
  <2> QED BY <1>1, <2>1, <2>2 DEF Over
<1>7. CASE Dial(d)
  <2> DEFINE evs == <<Ev("DialBegin", d)>>
  <2>1. Ev("DialBegin", d) \in Event
    BY <1>3 DEF EventKind
  <2>2. evs \in Seq(Event)
    BY <2>1
  <2>3. /\ c # d => call'[c] = call[c]
        /\ call[d].state = "requested" /\ call'[d].state = "dialing"
    BY <1>7, <1>2 DEF Dial
  <2>4. Says(evs, "DialBegin", c) => c = d
    BY OnceSaid
  <2>5. ~Says(evs, "Hangup", c)
    <3>1. Says(evs, "Hangup", c) => "DialBegin" = "Hangup"
      BY OnceSaid
    <3> QED BY <3>1
  <2>6. Broadcast(evs)
    BY <1>7 DEF Dial
  <2> HIDE DEF evs
  <2>7. Spoken(p, c, evs)
    BY <2>2, <2>3, <2>4, <2>5, <2>6, <1>4 DEF Spoken, Answered
  <2> QED BY <1>1, <2>3, <2>7 DEF Over
<1>8. CASE DialAgain(d)
  <2> DEFINE evs == <<Ev("DialEndOther", d), Ev("DialBegin", d)>>
  <2>1. Ev("DialEndOther", d) \in Event /\ Ev("DialBegin", d) \in Event
    BY <1>3 DEF EventKind
  <2>2. evs \in Seq(Event)
    BY <2>1
  <2>3. /\ c # d => call'[c] = call[c]
        /\ call[d].state = "dialing" /\ call'[d].state = "dialing"
    BY <1>8, <1>0 DEF DialAgain, CallRec
  <2>4. Says(evs, "DialBegin", c) => c = d
    BY OnceSaid
  <2>5. ~Says(evs, "Hangup", c)
    <3>1. Says(<<Ev("DialEndOther", d), Ev("DialBegin", d)>>, "Hangup", c)
            <=> ("DialEndOther" = "Hangup" \/ "DialBegin" = "Hangup") /\ d = c
      BY OnceSaid
    <3> QED BY <3>1
  <2>6. Broadcast(evs)
    BY <1>8 DEF DialAgain
  <2> HIDE DEF evs
  <2>7. Spoken(p, c, evs)
    BY <2>2, <2>3, <2>4, <2>5, <2>6, <1>4 DEF Spoken, Answered
  <2> QED BY <1>1, <2>3, <2>7 DEF Over
<1>9. CASE Answer(d)
  <2> DEFINE evs == <<Ev("DialEndAnswer", d)>>
  <2>1. Ev("DialEndAnswer", d) \in Event
    BY <1>3 DEF EventKind
  <2>2. evs \in Seq(Event)
    BY <2>1
  <2>3. /\ c # d => call'[c] = call[c]
        /\ call[d].state = "dialing" /\ call'[d].state = "talking"
    BY <1>9, <1>2 DEF Answer
  <2>4. ~Says(evs, "DialBegin", c) /\ ~Says(evs, "Hangup", c)
    <3>1. /\ Says(evs, "DialBegin", c) => "DialEndAnswer" = "DialBegin"
          /\ Says(evs, "Hangup", c) => "DialEndAnswer" = "Hangup"
      BY OnceSaid
    <3> QED BY <3>1
  <2>5. Broadcast(evs) /\ (c = d => evs = <<Ev("DialEndAnswer", c)>>)
    BY <1>9 DEF Answer
  <2> HIDE DEF evs
  <2>6. Answered(c)' /\ ~Answered(c) => c = d /\ ~Over(c)
    BY <2>3 DEF Answered, Over
  <2>7. Spoken(p, c, evs)
    BY <2>2, <2>4, <2>5, <2>6, <1>4 DEF Spoken
  <2> QED BY <1>1, <2>3, <2>7 DEF Over
<1>10. ASSUME NEW evs \in Seq(Event), Broadcast(evs),
              evs \in {<<Ev("Hangup", d)>>, <<Ev("DialEndOther", d), Ev("Hangup", d)>>},
              NEW f \in {"dialing", "talking"}, NEW g \in {"failed", "ended"},
              g = "ended" => f = "talking", CallStep(d, f, g)
       PROVE  /\ Spoken(p, c, evs)
              /\ Over(c) => call'[c].state = call[c].state
  <2>1. /\ c # d => call'[c] = call[c]
        /\ call[d].state = f /\ call'[d].state = g
    BY <1>10, <1>2
  <2>2. ~Says(evs, "DialBegin", c) /\ (Says(evs, "Hangup", c) => c = d)
    BY <1>10, HangupSaid
  <2>3. Answered(c)' => Answered(c)
    BY <1>10, <2>1 DEF Answered
  <2>4. c = d => Over(c)' /\ ~Over(c)
    BY <1>10, <2>1 DEF Over
  <2>5. Over(c) => call'[c].state = call[c].state
    BY <2>1, <2>4
  <2>6. Spoken(p, c, evs)
    BY <1>10, <2>2, <2>3, <2>4, <1>4 DEF Spoken
  <2> QED BY <2>5, <2>6
<1>11. CASE HangUp(d)
  <2>1. Ev("DialEndOther", d) \in Event /\ Ev("Hangup", d) \in Event
    BY <1>3 DEF EventKind
  <2>2. /\ <<Ev("Hangup", d)>> \in Seq(Event)
        /\ <<Ev("DialEndOther", d), Ev("Hangup", d)>> \in Seq(Event)
    BY <2>1
  <2>3. CASE /\ CallStep(d, "dialing", "failed")
             /\ Broadcast(<<Ev("DialEndOther", d), Ev("Hangup", d)>>)
    BY <2>2, <2>3, <1>10, <1>1
  <2>4. CASE /\ CallStep(d, "talking", "ended")
             /\ Broadcast(<<Ev("Hangup", d)>>)
    BY <2>2, <2>4, <1>10, <1>1
  <2> QED BY <1>11, <2>3, <2>4 DEF HangUp
<1> QED BY <1>5, <1>6, <1>7, <1>8, <1>9, <1>11 DEF CallEvent

\* What is told keeps an inbox in order.
LEMMA SpokenClear ==
  ASSUME TypeInv, OrderInv, NEW p \in Proc, NEW c \in Call, NEW evs, Spoken(p, c, evs),
         tracked' = tracked, mode' = mode
  PROVE  /\ Answered(c)' => Clear(p, c)'
         /\ Says(inbox'[p], "Hangup", c) => Says(inbox[p], "Hangup", c) \/ Over(c)'
<1>0. inbox[p] \in Seq(Event) /\ evs \in Seq(Event)
  BY DEF TypeInv, InboxOK, Spoken
<1>1. /\ \A k : Says(inbox[p] \o evs, k, c) => Says(inbox[p], k, c) \/ Says(evs, k, c)
      /\ SaysAnswer(inbox[p], c) /\ ~Says(evs, "DialBegin", c)
           => SaysAnswer(inbox[p] \o evs, c)
      /\ ~Says(inbox[p], "Hangup", c) /\ evs = <<Ev("DialEndAnswer", c)>>
           => SaysAnswer(inbox[p] \o evs, c)
  BY <1>0, ReadMore
<1>2. Says(inbox'[p], "Hangup", c) => Says(inbox[p], "Hangup", c) \/ Over(c)'
  BY <1>1 DEF Spoken
<1>3. ASSUME Answered(c)', Answered(c) PROVE Clear(p, c)'
  <2>1. Clear(p, c)
    BY <1>3 DEF OrderInv, AnswersClear
  <2>2. ~Says(evs, "DialBegin", c)
    BY <1>3 DEF Spoken
  <2>3. CASE inbox'[p] = inbox[p]
    BY <2>1, <2>3 DEF Clear
  <2>4. CASE inbox'[p] = inbox[p] \o evs /\ mode[p] = "up"
    BY <2>1, <2>2, <2>4, <1>1 DEF Clear
  <2> QED BY <2>3, <2>4 DEF Spoken
<1>4. ASSUME Answered(c)', ~Answered(c) PROVE Clear(p, c)'
  <2>1. ~Says(inbox[p], "Hangup", c)
    BY <1>4 DEF Spoken, OrderInv, HangupsEnd
  <2>2. CASE mode[p] = "up"
    BY <2>1, <2>2, <1>1, <1>4 DEF Spoken, Clear
  <2>3. CASE mode[p] # "up"
    BY <2>1, <2>3, <1>4 DEF Spoken, Clear
  <2> QED BY <2>2, <2>3
<1> QED BY <1>2, <1>3, <1>4

\* Every step keeps the order.
LEMMA NextOrder == TypeInv /\ OrderInv /\ [Next]_vars => OrderInv'
<1> SUFFICES ASSUME TypeInv, OrderInv, [Next]_vars PROVE OrderInv'
  OBVIOUS
<1>1. ASSUME NEW d \in Call, CallEvent(d) PROVE OrderInv'
  <2>1. ASSUME NEW p \in Proc, NEW c \in Call
        PROVE  /\ Answered(c)' => Clear(p, c)'
               /\ Says(inbox'[p], "Hangup", c) => Over(c)'
    <3>1. /\ \E evs : Spoken(p, c, evs)
          /\ tracked' = tracked /\ mode' = mode
          /\ Over(c) => call'[c].state = call[c].state
      BY <1>1, CallsSpoken
    <3>2. PICK evs : Spoken(p, c, evs)
      BY <3>1
    <3>3. /\ Answered(c)' => Clear(p, c)'
          /\ Says(inbox'[p], "Hangup", c) => Says(inbox[p], "Hangup", c) \/ Over(c)'
      BY <3>1, <3>2, SpokenClear
    <3>4. Over(c) => Over(c)'
      BY <3>1 DEF Over
    <3> QED BY <3>3, <3>4 DEF OrderInv, HangupsEnd
  <2>2. BusyFailed'
    <3> SUFFICES ASSUME NEW p \in Proc, NEW t \in Thread, NEW c \in Call,
                        job'[p][t].status = "BUSY", job'[p][t].call = c
                 PROVE  call'[c].state = "failed"
      BY DEF BusyFailed
    <3>1. job' = job /\ (Over(c) => call'[c].state = call[c].state)
      BY <1>1, CallsSpoken
    <3>2. call[c].state = "failed"
      BY <3>1 DEF OrderInv, BusyFailed
    <3> QED BY <3>1, <3>2 DEF Over
  <2> QED BY <2>1, <2>2 DEF OrderInv, HangupsEnd, AnswersClear
<1>2. CASE /\ \A p \in Proc, c \in Call : Kept(p, c) /\ Still(c)
           /\ \A p \in Proc, t \in Thread : NoNewBusy(p, t)
  <2>1. ASSUME NEW p \in Proc, NEW c \in Call
        PROVE  /\ Answered(c)' => Clear(p, c)'
               /\ Says(inbox'[p], "Hangup", c) => Over(c)'
    <3>1. /\ Clear(p, c) => Clear(p, c)'
          /\ Says(inbox'[p], "Hangup", c) => Says(inbox[p], "Hangup", c)
      BY <1>2, KeptClear
    <3>2. Answered(c)' => Answered(c)
      BY <1>2 DEF Still, Answered
    <3>3. Over(c) => Over(c)'
      BY <1>2 DEF Still, Over
    <3> QED BY <3>1, <3>2, <3>3 DEF OrderInv, HangupsEnd, AnswersClear
  <2>2. BusyFailed'
    <3> SUFFICES ASSUME NEW p \in Proc, NEW t \in Thread, NEW c \in Call,
                        job'[p][t].status = "BUSY", job'[p][t].call = c
                 PROVE  call'[c].state = "failed"
      BY DEF BusyFailed
    <3>1. call[c].state = "failed"
      BY <1>2 DEF NoNewBusy, OrderInv, BusyFailed
    <3> QED BY <3>1, <1>2 DEF Still
  <2> QED BY <2>1, <2>2 DEF OrderInv, HangupsEnd, AnswersClear
<1> QED BY <1>1, <1>2, OthersKeep

\* No process reports an answered call as one that failed, however its events, restarts
\* and lost connections meet (event_listener, _mark_busy).
THEOREM AnsweredNeverBusy == Spec => []AnsweredCallNeverBusy
<1>1. Init => OrderInv
  <2> SUFFICES ASSUME Init PROVE OrderInv
    OBVIOUS
  <2>1. \A p \in Proc : \A k, c : ~Says(inbox[p], k, c)
    BY DEF Init, Says
  <2>2. \A c \in Call : ~Answered(c)
    BY DEF Init, NewCall, Answered
  <2>3. \A p \in Proc, t \in Thread : job[p][t].status # "BUSY"
    BY DEF Init, NoJob
  <2> QED BY <2>1, <2>2, <2>3 DEF OrderInv, HangupsEnd, AnswersClear, BusyFailed
<1>2. TypeInv /\ OrderInv => AnsweredCallNeverBusy
  <2> SUFFICES ASSUME TypeInv, OrderInv, NEW p \in Proc, NEW t \in Thread,
                      job[p][t].status = "BUSY", job[p][t].call # NoCall
               PROVE  ~Answered(job[p][t].call)
    BY DEF AnsweredCallNeverBusy
  <2>1. job[p][t].call \in Call
    BY DEF TypeInv, ThreadsOK, Job
  <2>2. call[job[p][t].call].state = "failed"
    BY <2>1 DEF OrderInv, BusyFailed
  <2> QED BY <2>2 DEF Answered
<1> QED BY <1>1, <1>2, NextOrder, TypeInvariant, PTL DEF Spec
=============================================================================
