--------------------------- MODULE ListenerProofs ---------------------------
(* Proofs about the listener.
   ListenerChannels, for any finite set of channels, any number of tasks and any number
   of events and mishaps: the types, and that a listener with nothing left to do has in
   its memory the channels that Asterisk has, with what a list of them tells and the
   variables they had at the last reset, and with all else of those that came later.
   ListenerQueues, for any sets of agents and callers, any number of tasks, orders and
   troubles: the types, that pauses survive restarts, and that the memory of a settled
   listener is what Asterisk has.
   MissedCalls, for any set of calls: the types, that no missed call is lost or told
   twice, and that the reports behave like Outbox.
   AmiReconnect, for any number of lost connections: the types, that one thread at a
   time connects, and that two connections feed the listener only after a loss was acted
   upon too late.
   WebhookDelivery, for any number of events, retries and threads and any attempts that
   time out: the types, and that what the receiver gets is what was tried and told, in an
   order that only what overlaps can upset. *)
EXTENDS MCDashboard, FiniteSetTheorems, TLAPS

-----------------------------------------------------------------------------
(* The channels. *)

\* Task i waits at `at` for channel c.
Has(i, at, c) == tasks[i] # NoTask /\ tasks[i].at = at /\ tasks[i].chan = c
Hanging(c) == \E i \in Id : Has(i, "publish", c)
\* Task i will write the key of c.
Writes(i, c) == \/ Has(i, "key", c)
                \/ /\ tasks[i] # NoTask
                   /\ tasks[i].at = "other" /\ Other(tasks[i].chan) = c
\* A list of the channels is yet to be asked for; it will tell of channel c.
ToList == \E i \in Id : /\ tasks[i] # NoTask
                        /\ \/ tasks[i].kind = "reset"
                           \/ tasks[i].kind = "start" /\ tasks[i].at = "list"
ToShow(c) == \E n \in 1 .. Len(feed) : feed[n].kind = "show" /\ feed[n].chan = c

\* Channel c had variables in Asterisk.
RealVars(c) == ast[c].vars \/ c \in gone

\* Where the tasks of each kind wait, and what they write.
TaskFits(t) == t # NoTask =>
  /\ t.kind \in {"reset", "start"} => t.at \in {"all", "list"}
  /\ t.at = "list" => t.kind \in {"reset", "start"}
  /\ t.at = "other" => t.kind = "dial"
  /\ t.at = "get" => t.kind = "show"
  /\ t.at \in {"publish", "del"} => t.chan \in gone
  /\ t.at = "key" => (t.val[t.chan].vars => RealVars(t.chan))
  /\ t.at = "other" => (t.val[Other(t.chan)].vars => RealVars(Other(t.chan)))
TasksFit == \A i \in Id : TaskFits(tasks[i])

\* The list that is not handled yet is true: nothing happens in Asterisk before it is.
FeedFits == \A n \in 1 .. Len(feed) :
  /\ feed[n].kind \in {"show", "complete"}
  /\ feed[n].kind = "show" => ast[feed[n].chan].known /\ feed[n].data = ast[feed[n].chan].data

ChannelFits(c) ==
  /\ ~mem[c].known => mem[c] = Absent
  /\ ~ast[c].known => ast[c] = Absent
  /\ c \in gone => ~ast[c].known
  /\ c \in saved => ast[c].known \/ c \in gone
  /\ mem[c].vars \/ key[c].vars => RealVars(c)

\* A connected listener has the last state of a channel, or will hear of it, or is
\* about to forget it.
Follows(c) ==
  amilink = "up" /\ c \notin raced /\ ~Hanging(c)
    => /\ mem[c].known => ast[c].known /\ mem[c].data = ast[c].data
       /\ \A i \in Id : Has(i, "get", c) => ast[c].known /\ tasks[i].data = ast[c].data
       /\ ast[c].known /\ ~mem[c].known => ToList \/ ToShow(c) \/ Getting(c)

\* The variables are in the memory or in the key, and no task is about to lose them.
Survives(c) ==
  amilink = "up" /\ c \in saved /\ c \notin gone /\ c \notin raced
    => /\ mem[c].known => mem[c].vars
       /\ ~mem[c].known => key[c].vars
       /\ \A i \in Id : Writes(i, c) => tasks[i].val[c].vars

\* The types of all but what is told of the dialling.
CoreOK ==
  /\ ast \in Snapshot
  /\ gone \subseteq Chan
  /\ mem \in Snapshot
  /\ key \in Snapshot
  /\ all \in Snapshot
  /\ feed \in Seq(Event)
  /\ amilink \in {"up", "joining", "down"}
  /\ tasks \in [Id -> Task \cup {NoTask}]
  /\ tick \in [on : {TRUE}, snap : Snapshot] \cup {NoTick}
  /\ said \in 0 .. MaxEvents
  /\ mishaps \in 0 .. MaxMishaps
  /\ raced \subseteq Chan
  /\ saved \subseteq Chan

ChannelsInv ==
  /\ CoreOK /\ TasksFit /\ FeedFits
  /\ \A c \in Chan : ChannelFits(c) /\ Follows(c) /\ Survives(c)

-----------------------------------------------------------------------------
\* The channel that is dialled is a channel.
LEMMA OtherIsChan == ASSUME NEW c \in Chan PROVE Other(c) \in Chan
  BY DEF Other

\* The parts of a task.
LEMMA TaskParts ==
  ASSUME NEW t \in Task
  PROVE  /\ t # NoTask /\ t.kind \in Kind /\ t.chan \in Chan /\ t.data \in 0 .. 1
         /\ t.at \in {"key", "other", "all", "publish", "del", "get", "list"}
         /\ t.val \in Snapshot
<1>1. NoTask.at = "none"
  BY DEF NoTask
<1> QED
  BY <1>1 DEF Task

\* What a handler leaves behind when it waits is a task.
LEMMA WaitsIsTask ==
  ASSUME NEW e, e.kind \in Kind, e.chan \in Chan, e.data \in 0 .. 1,
         NEW at \in {"key", "other", "all", "publish", "del", "get", "list"},
         NEW v \in Snapshot
  PROVE  /\ Waits(e, at, v) \in Task /\ Waits(e, at, v) # NoTask
         /\ Waits(e, at, v).kind = e.kind /\ Waits(e, at, v).chan = e.chan
         /\ Waits(e, at, v).data = e.data /\ Waits(e, at, v).at = at
         /\ Waits(e, at, v).val = v
<1>1. Waits(e, at, v) \in Task
  BY DEF Waits, Task
<1> QED
  BY <1>1, TaskParts DEF Waits

\* The snapshots of nobody and of one channel.
LEMMA OnlyDoes ==
  ASSUME NEW c \in Chan, NEW r \in Rec
  PROVE  /\ Nobody \in Snapshot /\ \A d \in Chan : Nobody[d] = Absent
         /\ Absent \in Rec /\ ~Absent.known /\ ~Absent.vars /\ Absent.data = 0
         /\ Only(c, r) \in Snapshot /\ Only(c, r)[c] = r
<1>1. Absent \in Rec /\ ~Absent.known /\ ~Absent.vars /\ Absent.data = 0
  BY DEF Absent, Rec
<1>2. Nobody \in Snapshot /\ \A d \in Chan : Nobody[d] = Absent
  BY <1>1 DEF Nobody, Snapshot
<1> QED
  BY <1>1, <1>2 DEF Only, Snapshot

\* The parts of what is known of a channel.
LEMMA RecParts ==
  ASSUME NEW r \in Rec
  PROVE  r.known \in BOOLEAN /\ r.data \in 0 .. 1 /\ r.vars \in BOOLEAN
  BY DEF Rec

\* A step of the task at i.
LEMMA TaskMoves ==
  ASSUME tasks \in [Id -> Task \cup {NoTask}], NEW i \in Id, NEW t \in Task \cup {NoTask},
         tasks' = [tasks EXCEPT ![i] = t]
  PROVE  /\ tasks' \in [Id -> Task \cup {NoTask}]
         /\ tasks'[i] = t /\ \A j \in Id \ {i} : tasks'[j] = tasks[j]
  OBVIOUS

\* A channel is followed as before if nothing of it has changed, or it has changed
\* in a way that the listener need not follow.
LEMMA ChannelStays ==
  ASSUME ChannelsInv, NEW n \in Chan,
         amilink' = "up" => amilink = "up",
         mem'[n] = mem[n], ast'[n] = ast[n],
         n \in raced => n \in raced', n \in gone => n \in gone',
         Hanging(n) => Hanging(n)',
         \A i \in Id : Has(i, "get", n)' => Has(i, "get", n) /\ tasks'[i].data = tasks[i].data,
         Getting(n) => Getting(n)' \/ mem[n].known,
         ToShow(n) => ToShow(n)' \/ Getting(n)' \/ mem[n].known,
         ToList => ToList' \/ ToShow(n)' \/ ~ast[n].known
  PROVE  Follows(n)'
<1>1. Follows(n)
  BY DEF ChannelsInv
<1> QED
  BY <1>1 DEF Follows

\* The variables of a channel survive as before if its key, the memory of it and the
\* tasks that write it have not changed for the worse.
LEMMA SavedStays ==
  ASSUME ChannelsInv, NEW n \in Chan,
         amilink' = "up" => amilink = "up",
         mem'[n] = mem[n], key'[n].vars = key[n].vars,
         n \in raced => n \in raced', n \in gone => n \in gone', n \in saved' => n \in saved,
         \A i \in Id : Writes(i, n)' =>
            \/ tasks'[i].val[n].vars
            \/ Writes(i, n) /\ tasks'[i].val = tasks[i].val
            \/ (tasks'[i].val[n] = mem[n] /\ mem[n].known)
  PROVE  Survives(n)'
<1>1. Survives(n)
  BY DEF ChannelsInv
<1> QED
  BY <1>1 DEF Survives

\* A step that leaves Asterisk and what is known of the hung-up channels alone.
LEMMA FitStays ==
  ASSUME TasksFit, NEW i \in Id, NEW t \in Task \cup {NoTask},
         tasks \in [Id -> Task \cup {NoTask}],
         tasks' = [tasks EXCEPT ![i] = t],
         \A c \in Chan : RealVars(c) => RealVars(c)',
         gone \subseteq gone', TaskFits(t)'
  PROVE  TasksFit'
<1>1. /\ tasks'[i] = t /\ \A j \in Id \ {i} : tasks'[j] = tasks[j]
  OBVIOUS
<1>2. ASSUME NEW j \in Id PROVE TaskFits(tasks[j])'
  <2>1. CASE j = i
    BY <2>1, <1>1 DEF TaskFits, RealVars
  <2>2. CASE j # i
    <3>1. TaskFits(tasks[j]) /\ tasks'[j] = tasks[j] /\ tasks[j] \in Task \cup {NoTask}
      BY <2>2, <1>1 DEF TasksFit
    <3>2. tasks[j] # NoTask => tasks[j].chan \in Chan /\ Other(tasks[j].chan) \in Chan
      BY <3>1, TaskParts, OtherIsChan
    <3> QED
      BY <3>1, <3>2 DEF TaskFits
  <2> QED
    BY <2>1, <2>2
<1> QED
  BY <1>2 DEF TasksFit

\* What the invariant says of a task that is there.
LEMMA TaskFacts ==
  ASSUME ChannelsInv, NEW i \in Id, tasks[i] # NoTask
  PROVE  /\ tasks[i] \in Task /\ TaskFits(tasks[i])
         /\ tasks[i].kind \in Kind /\ tasks[i].chan \in Chan /\ tasks[i].data \in 0 .. 1
         /\ tasks[i].at \in {"key", "other", "all", "publish", "del", "get", "list"}
         /\ tasks[i].val \in Snapshot /\ Other(tasks[i].chan) \in Chan
<1>1. tasks[i] \in Task /\ TaskFits(tasks[i])
  BY DEF ChannelsInv, CoreOK, TasksFit
<1> QED
  BY <1>1, TaskParts, OtherIsChan

\* A step of task i that touches neither Asterisk nor the memory, where the task
\* neither waits for a key to be read, nor for the end of a call, nor for the list.
LEMMA WriteKeeps ==
  ASSUME ChannelsInv, NEW i \in Id, tasks[i] # NoTask,
         tasks[i].at \in {"key", "other", "all", "del"},
         NEW t \in Task \cup {NoTask}, tasks' = [tasks EXCEPT ![i] = t],
         TaskFits(t)',
         t # NoTask => t.at \notin {"get", "publish"},
         tasks[i].kind = "reset" => t # NoTask /\ t.kind = "reset",
         \A n \in Chan : Writes(i, n)' =>
            \/ tasks'[i].val[n].vars
            \/ (tasks'[i].val[n] = mem[n] /\ mem[n].known),
         key' \in Snapshot,
         \A n \in Chan : n \notin gone /\ n \in saved
            => \/ key'[n] = key[n]
               \/ Writes(i, n) /\ key'[n] = tasks[i].val[n],
         \A n \in Chan : key'[n].vars => RealVars(n),
         all' \in Snapshot, mishaps' \in 0 .. MaxMishaps,
         UNCHANGED <<ast, gone, mem, feed, amilink, tick, said, raced, saved>>
  PROVE  ChannelsInv'
<1>1. /\ CoreOK /\ TasksFit /\ FeedFits
      /\ \A c \in Chan : ChannelFits(c) /\ Follows(c) /\ Survives(c)
  BY DEF ChannelsInv
<1>2. /\ tasks' \in [Id -> Task \cup {NoTask}]
      /\ tasks'[i] = t /\ \A j \in Id \ {i} : tasks'[j] = tasks[j]
  BY <1>1 DEF CoreOK
<1>3. CoreOK'
  BY <1>1, <1>2 DEF CoreOK
<1>4. \A c \in Chan : RealVars(c)' = RealVars(c)
  BY DEF RealVars
<1>5. TasksFit'
  BY <1>1, <1>4, FitStays DEF CoreOK
<1>6. FeedFits'
  BY <1>1 DEF FeedFits
<1>7. ASSUME NEW n \in Chan PROVE ChannelFits(n)'
  BY <1>1, <1>4 DEF ChannelFits
<1>8. ASSUME NEW n \in Chan PROVE Follows(n)'
  <2>1. /\ Hanging(n) => Hanging(n)'
        /\ \A j \in Id : Has(j, "get", n)' => Has(j, "get", n) /\ tasks'[j].data = tasks[j].data
        /\ Getting(n) => Getting(n)'
    BY <1>2 DEF Hanging, Has, Getting
  <2>2. ToShow(n)' = ToShow(n)
    BY DEF ToShow
  <2>3. ToList => ToList'
    <3>1. tasks[i].kind = "start" => tasks[i].at = "all"
      BY TaskFacts DEF TaskFits
    <3> QED
      BY <1>2, <3>1 DEF ToList
  <2> QED
    BY <2>1, <2>2, <2>3, ChannelStays
<1>9. ASSUME NEW n \in Chan PROVE Survives(n)'
  <2>1. \A j \in Id : Writes(j, n)' =>
            \/ Writes(j, n) /\ tasks'[j].val = tasks[j].val
            \/ tasks'[j].val[n].vars
            \/ (tasks'[j].val[n] = mem[n] /\ mem[n].known)
    BY <1>2 DEF Writes, Has
  <2>2. CASE key'[n] = key[n]
    BY <2>1, <2>2, SavedStays
  <2>3. CASE n \notin gone /\ n \in saved /\ Writes(i, n) /\ key'[n] = tasks[i].val[n]
    <3>1. Survives(n)
      BY <1>1
    <3> QED
      BY <2>1, <2>3, <3>1 DEF Survives
  <2>4. CASE ~(n \notin gone /\ n \in saved)
    BY <2>4 DEF Survives
  <2> QED
    BY <2>2, <2>3, <2>4
<1> QED
  BY <1>3, <1>5, <1>6, <1>7, <1>8, <1>9 DEF ChannelsInv

\* The number of mishaps stays in its bound.
LEMMA MishapCounts ==
  ASSUME CoreOK, Mishap \/ UNCHANGED mishaps
  PROVE  mishaps' \in 0 .. MaxMishaps
  BY ChannelsAssumption DEF CoreOK, Mishap

\* The write of the other channel's key, or of the snapshot, that a dial leads to.
LEMMA WriteOtherFits ==
  ASSUME ChannelsInv, NEW t \in Task, t.kind = "dial"
  PROVE  /\ WriteOther(t) \in Task /\ WriteOther(t) # NoTask
         /\ WriteOther(t).kind = t.kind /\ WriteOther(t).chan = t.chan
         /\ \/ WriteOther(t).at = "all"
            \/ /\ WriteOther(t).at = "other" /\ mem[Other(t.chan)].known
               /\ WriteOther(t).val[Other(t.chan)] = mem[Other(t.chan)]
<1>1. mem \in Snapshot
  BY DEF ChannelsInv, CoreOK
<1>2. PICK o \in Chan : o = Other(t.chan)
  BY TaskParts, OtherIsChan
<1>3. mem[o] \in Rec
  BY <1>1 DEF Snapshot
<1>4. /\ t.kind \in Kind /\ t.chan \in Chan /\ t.data \in 0 .. 1
  BY TaskParts
<1>5. Only(o, mem[o]) \in Snapshot /\ Only(o, mem[o])[o] = mem[o]
  BY <1>3, OnlyDoes
<1>6. CASE mem[o].known
  <2>1. WriteOther(t) = Waits(t, "other", Only(o, mem[o]))
    BY <1>2, <1>6 DEF WriteOther
  <2> QED
    BY <1>2, <1>4, <1>5, <1>6, <2>1, WaitsIsTask
<1>7. CASE ~mem[o].known
  <2>1. WriteOther(t) = Waits(t, "all", mem)
    BY <1>2, <1>7 DEF WriteOther
  <2> QED
    BY <1>1, <1>4, <2>1, WaitsIsTask
<1> QED
  BY <1>6, <1>7

\* KeyWritten: the key of the task's channel is written, or Redis fails.
LEMMA KeyWrittenKeeps ==
  ASSUME ChannelsInv, NEW i \in Id, KeyWritten(i)
  PROVE  ChannelsInv'
<1>1. PICK u \in Task : u = tasks[i] /\ u.at = "key" /\ TaskFits(u)
  BY TaskFacts DEF KeyWritten
<1>2. /\ u # NoTask /\ u.kind \in Kind /\ u.chan \in Chan /\ u.data \in 0 .. 1
      /\ u.val \in Snapshot /\ u.kind \notin {"reset", "start"}
  BY <1>1, TaskParts DEF TaskFits
<1>3. CoreOK /\ mem \in Snapshot /\ key \in Snapshot /\ all \in Snapshot
      /\ \A c \in Chan : ChannelFits(c)
  BY DEF ChannelsInv, CoreOK
<1>4. /\ tasks' = [tasks EXCEPT ![i] = AfterKey(u)]
      /\ key' = [key EXCEPT ![u.chan] = u.val[u.chan]] \/ key' = key
      /\ Mishap \/ UNCHANGED mishaps
      /\ UNCHANGED <<ast, gone, mem, all, feed, amilink, tick, said, raced, saved>>
  BY <1>1 DEF KeyWritten
<1>5. PICK t \in Task \cup {NoTask} :
        /\ t = AfterKey(u)
        /\ t # NoTask => /\ t.kind = u.kind /\ t.chan = u.chan
                         /\ \/ t.at = "all"
                            \/ /\ t.at = "other" /\ t.kind = "dial" /\ mem[Other(t.chan)].known
                               /\ t.val[Other(t.chan)] = mem[Other(t.chan)]
  <2>1. CASE u.kind \in {"new", "state", "enter", "leave", "dialend"}
    <3>1. AfterKey(u) = Waits(u, "all", mem)
      BY <2>1 DEF AfterKey
    <3> QED
      BY <1>2, <1>3, <3>1, WaitsIsTask
  <2>2. CASE u.kind = "dial"
    <3>1. AfterKey(u) = WriteOther(u)
      BY <2>2 DEF AfterKey
    <3> QED
      BY <1>2, <2>2, <3>1, WriteOtherFits
  <2>3. CASE u.kind \notin {"new", "state", "enter", "leave", "dialend", "dial"}
    BY <2>3 DEF AfterKey
  <2> QED
    BY <2>1, <2>2, <2>3
<1>6. tasks'[i] = t /\ tasks' = [tasks EXCEPT ![i] = t]
  BY <1>3, <1>4, <1>5 DEF CoreOK
<1>7. TaskFits(t)'
  <2>1. t # NoTask => Other(t.chan) \in Chan
    BY <1>2, <1>5, OtherIsChan
  <2>2. \A c \in Chan : mem[c].vars => RealVars(c)'
    BY <1>3, <1>4 DEF ChannelFits, RealVars
  <2> QED
    BY <1>2, <1>5, <2>1, <2>2 DEF TaskFits
<1>8. \A n \in Chan : Writes(i, n)' => tasks'[i].val[n] = mem[n] /\ mem[n].known
  BY <1>5, <1>6 DEF Writes, Has
<1>9. u.val[u.chan] \in Rec /\ (u.val[u.chan].vars => RealVars(u.chan))
  BY <1>1, <1>2 DEF TaskFits, Snapshot
<1>10. key' \in Snapshot
  BY <1>2, <1>3, <1>4, <1>9 DEF Snapshot
<1>11. \A n \in Chan : key'[n] = key[n] \/ (n = u.chan /\ key'[n] = u.val[n])
  BY <1>2, <1>3, <1>4 DEF Snapshot
<1>12. \A n \in Chan : key'[n].vars => RealVars(n)
  BY <1>3, <1>9, <1>11 DEF ChannelFits
<1>13. \A n \in Chan : key'[n] = key[n] \/ (Writes(i, n) /\ key'[n] = tasks[i].val[n])
  BY <1>1, <1>2, <1>11 DEF Writes, Has
<1>14. mishaps' \in 0 .. MaxMishaps
  BY <1>3, <1>4, MishapCounts
<1> QED
  BY <1>1, <1>2, <1>3, <1>4, <1>5, <1>6, <1>7, <1>8, <1>10, <1>12, <1>13, <1>14,
     WriteKeeps, ZenonT(40)

\* OtherWritten: the key of the channel that is dialled is written, or Redis fails.
LEMMA OtherWrittenKeeps ==
  ASSUME ChannelsInv, NEW i \in Id, OtherWritten(i)
  PROVE  ChannelsInv'
<1>1. PICK u \in Task : u = tasks[i] /\ u.at = "other" /\ TaskFits(u)
  BY TaskFacts DEF OtherWritten
<1>2. /\ u # NoTask /\ u.kind \in Kind /\ u.chan \in Chan /\ u.data \in 0 .. 1
      /\ u.val \in Snapshot /\ u.kind = "dial"
  BY <1>1, TaskParts DEF TaskFits
<1>3. CoreOK /\ mem \in Snapshot /\ key \in Snapshot /\ all \in Snapshot
      /\ \A c \in Chan : ChannelFits(c)
  BY DEF ChannelsInv, CoreOK
<1>4. PICK o \in Chan : o = Other(u.chan)
  BY <1>2, OtherIsChan
<1>5. PICK t \in Task : t = Waits(u, "all", mem) /\ t # NoTask /\ t.kind = u.kind /\ t.at = "all"
  BY <1>2, <1>3, WaitsIsTask
<1>6. /\ tasks' = [tasks EXCEPT ![i] = t]
      /\ key' = [key EXCEPT ![o] = u.val[o]] \/ key' = key
      /\ Mishap \/ UNCHANGED mishaps
      /\ UNCHANGED <<ast, gone, mem, all, feed, amilink, tick, said, raced, saved>>
  BY <1>1, <1>4, <1>5 DEF OtherWritten
<1>7. tasks'[i] = t
  BY <1>3, <1>6 DEF CoreOK
<1>8. TaskFits(t)'
  BY <1>2, <1>5 DEF TaskFits
<1>9. \A n \in Chan : ~Writes(i, n)'
  BY <1>5, <1>7 DEF Writes, Has
<1>10. u.val[o] \in Rec /\ (u.val[o].vars => RealVars(o))
  BY <1>1, <1>2, <1>4 DEF TaskFits, Snapshot
<1>11. key' \in Snapshot
  BY <1>3, <1>6, <1>10 DEF Snapshot
<1>12. \A n \in Chan : key'[n] = key[n] \/ (n = o /\ key'[n] = u.val[n])
  BY <1>3, <1>6 DEF Snapshot
<1>13. \A n \in Chan : key'[n].vars => RealVars(n)
  BY <1>3, <1>10, <1>12 DEF ChannelFits
<1>14. \A n \in Chan : key'[n] = key[n] \/ (Writes(i, n) /\ key'[n] = tasks[i].val[n])
  BY <1>1, <1>2, <1>4, <1>12 DEF Writes
<1>15. mishaps' \in 0 .. MaxMishaps
  BY <1>3, <1>6, MishapCounts
<1> QED
  BY <1>1, <1>2, <1>3, <1>5, <1>6, <1>8, <1>9, <1>11, <1>13, <1>14, <1>15, WriteKeeps

\* SnapshotWritten: the snapshot is written; a reset goes on to ask for the list.
LEMMA SnapshotWrittenKeeps ==
  ASSUME ChannelsInv, NEW i \in Id, SnapshotWritten(i)
  PROVE  ChannelsInv'
<1>1. PICK u \in Task : u = tasks[i] /\ u.at = "all" /\ TaskFits(u)
  BY TaskFacts DEF SnapshotWritten
<1>2. /\ u # NoTask /\ u.kind \in Kind /\ u.chan \in Chan /\ u.data \in 0 .. 1
      /\ u.val \in Snapshot
  BY <1>1, TaskParts
<1>3. CoreOK /\ mem \in Snapshot /\ key \in Snapshot /\ all \in Snapshot
      /\ \A c \in Chan : ChannelFits(c) /\ Nobody \in Snapshot
  BY OnlyDoes DEF ChannelsInv, CoreOK, Nobody, Snapshot, Absent, Rec
<1>4. PICK t \in Task \cup {NoTask} :
        /\ t = IF u.kind = "reset" THEN Waits(u, "list", Nobody) ELSE NoTask
        /\ t # NoTask => t.at = "list" /\ t.kind = "reset"
        /\ u.kind = "reset" => t # NoTask /\ t.kind = "reset"
  <2>1. CASE u.kind = "reset"
    BY <1>2, <1>3, <2>1, WaitsIsTask
  <2>2. CASE u.kind # "reset"
    BY <2>2
  <2> QED
    BY <2>1, <2>2
<1>5. /\ tasks' = [tasks EXCEPT ![i] = t]
      /\ all' = u.val \/ all' = all
      /\ Mishap \/ UNCHANGED mishaps
      /\ UNCHANGED <<ast, gone, mem, key, feed, amilink, tick, said, raced, saved>>
  BY <1>1, <1>4 DEF SnapshotWritten
<1>6. tasks'[i] = t
  BY <1>3, <1>5 DEF CoreOK
<1>7. TaskFits(t)'
  BY <1>4 DEF TaskFits
<1>8. \A n \in Chan : ~Writes(i, n)'
  BY <1>4, <1>6 DEF Writes, Has
<1>9. \A n \in Chan : key'[n].vars => RealVars(n)
  BY <1>3, <1>5 DEF ChannelFits
<1>10. mishaps' \in 0 .. MaxMishaps /\ all' \in Snapshot
  BY <1>2, <1>3, <1>5, MishapCounts
<1> QED
  BY <1>1, <1>2, <1>3, <1>4, <1>5, <1>7, <1>8, <1>9, <1>10, WriteKeeps

\* KeyDeleted: the key of a channel that has hung up is deleted, or Redis fails.
LEMMA KeyDeletedKeeps ==
  ASSUME ChannelsInv, NEW i \in Id, KeyDeleted(i)
  PROVE  ChannelsInv'
<1>1. PICK u \in Task : u = tasks[i] /\ u.at = "del" /\ TaskFits(u)
  BY TaskFacts DEF KeyDeleted
<1>2. /\ u # NoTask /\ u.kind \in Kind /\ u.chan \in Chan /\ u.data \in 0 .. 1
      /\ u.chan \in gone /\ u.kind \notin {"reset", "start"}
  BY <1>1, TaskParts DEF TaskFits
<1>3. CoreOK /\ mem \in Snapshot /\ key \in Snapshot /\ all \in Snapshot
      /\ \A c \in Chan : ChannelFits(c)
  BY DEF ChannelsInv, CoreOK
<1>4. Absent \in Rec /\ ~Absent.vars
  BY DEF Absent, Rec
<1>5. PICK t \in Task : t = Waits(u, "all", mem) /\ t # NoTask /\ t.kind = u.kind /\ t.at = "all"
  BY <1>2, <1>3, WaitsIsTask
<1>6. /\ tasks' = [tasks EXCEPT ![i] = t]
      /\ key' = [key EXCEPT ![u.chan] = Absent] \/ key' = key
      /\ Mishap \/ UNCHANGED mishaps
      /\ UNCHANGED <<ast, gone, mem, all, feed, amilink, tick, said, raced, saved>>
  BY <1>1, <1>3, <1>5 DEF KeyDeleted, CoreOK
<1>7. tasks'[i] = t
  BY <1>3, <1>6 DEF CoreOK
<1>8. TaskFits(t)'
  BY <1>2, <1>5 DEF TaskFits
<1>9. \A n \in Chan : ~Writes(i, n)'
  BY <1>5, <1>7 DEF Writes, Has
<1>10. key' \in Snapshot
  BY <1>2, <1>3, <1>4, <1>6 DEF Snapshot
<1>11. \A n \in Chan : key'[n] = key[n] \/ (n = u.chan /\ key'[n] = Absent)
  BY <1>3, <1>6 DEF Snapshot
<1>12. \A n \in Chan : key'[n].vars => RealVars(n)
  BY <1>3, <1>4, <1>11 DEF ChannelFits
<1>13. mishaps' \in 0 .. MaxMishaps
  BY <1>3, <1>6, MishapCounts
<1> QED
  BY <1>1, <1>2, <1>3, <1>5, <1>6, <1>8, <1>9, <1>10, <1>11, <1>12, <1>13, WriteKeeps

\* Forget: the channel leaves the memory; no one hears of it any more.
LEMMA ForgetKeeps ==
  ASSUME ChannelsInv, NEW i \in Id, Forget(i)
  PROVE  ChannelsInv'
<1>0. /\ CoreOK /\ TasksFit /\ FeedFits
      /\ \A c \in Chan : ChannelFits(c) /\ Follows(c) /\ Survives(c)
  BY DEF ChannelsInv
<1>1. PICK u \in Task : u = tasks[i] /\ u.at = "publish" /\ TaskFits(u)
  BY TaskFacts DEF Forget
<1>2. /\ u # NoTask /\ u.kind \in Kind /\ u.chan \in Chan /\ u.data \in 0 .. 1
      /\ u.chan \in gone /\ u.kind \notin {"reset", "start"} /\ u.at = "publish"
  BY <1>1, TaskParts DEF TaskFits
<1>3. /\ Nobody \in Snapshot /\ Absent \in Rec /\ ~Absent.vars /\ ~Absent.known
  BY <1>2, OnlyDoes DEF Nobody, Snapshot, Absent, Rec
<1>4. PICK t \in Task : /\ t = Waits(u, "del", Nobody) /\ t # NoTask /\ t.kind = u.kind
                        /\ t.at = "del" /\ t.chan = u.chan
  BY <1>2, <1>3, WaitsIsTask
<1>5. /\ tasks' = [tasks EXCEPT ![i] = t]
      /\ mem' = [mem EXCEPT ![u.chan] = Absent]
      /\ raced' = IF Getting(u.chan) THEN raced \cup {u.chan} ELSE raced
      /\ UNCHANGED <<ast, gone, key, all, feed, amilink, tick, said, mishaps, saved>>
  BY <1>0, <1>1, <1>4 DEF Forget, CoreOK
<1>6. /\ tasks' \in [Id -> Task \cup {NoTask}]
      /\ tasks'[i] = t /\ \A j \in Id \ {i} : tasks'[j] = tasks[j]
  BY <1>0, <1>5 DEF CoreOK
<1>7. /\ mem' \in Snapshot /\ mem'[u.chan] = Absent
      /\ \A n \in Chan \ {u.chan} : mem'[n] = mem[n]
  BY <1>0, <1>2, <1>3, <1>5 DEF CoreOK, Snapshot
<1>8. CoreOK'
  BY <1>0, <1>2, <1>5, <1>6, <1>7 DEF CoreOK
<1>9. \A c \in Chan : RealVars(c)' = RealVars(c)
  BY <1>5 DEF RealVars
<1>10. TaskFits(t)'
  BY <1>2, <1>4, <1>5 DEF TaskFits
<1>11. TasksFit'
  BY <1>0, <1>5, <1>9, <1>10, FitStays DEF CoreOK
<1>12. FeedFits'
  BY <1>0, <1>5 DEF FeedFits
<1>13. ASSUME NEW n \in Chan PROVE ChannelFits(n)'
  BY <1>0, <1>3, <1>5, <1>7, <1>9 DEF ChannelFits
<1>14. ASSUME NEW n \in Chan \ {u.chan} PROVE Follows(n)' /\ Survives(n)'
  <2>1. /\ Hanging(n) => Hanging(n)'
        /\ \A j \in Id : Has(j, "get", n)' => Has(j, "get", n) /\ tasks'[j].data = tasks[j].data
        /\ Getting(n) => Getting(n)'
    BY <1>1, <1>2, <1>4, <1>6 DEF Hanging, Has, Getting
  <2>2. ToShow(n)' = ToShow(n)
    BY <1>5 DEF ToShow
  <2>3. ToList => ToList'
    BY <1>1, <1>2, <1>6 DEF ToList
  <2>4. \A j \in Id : Writes(j, n)' => Writes(j, n) /\ tasks'[j].val = tasks[j].val
    BY <1>4, <1>6 DEF Writes, Has
  <2>5. /\ amilink' = amilink /\ mem'[n] = mem[n] /\ ast'[n] = ast[n] /\ key' = key
        /\ gone' = gone /\ saved' = saved /\ (n \in raced => n \in raced')
    BY <1>5, <1>7
  <2>6. Follows(n)'
    BY <2>1, <2>2, <2>3, <2>5, ChannelStays
  <2>7. Survives(n)'
    BY <2>4, <2>5, SavedStays
  <2> QED
    BY <2>6, <2>7
<1>15. Follows(u.chan)' /\ Survives(u.chan)'
  <2>1. u.chan \notin raced' => \A j \in Id : ~Has(j, "get", u.chan)'
    BY <1>4, <1>5, <1>6 DEF Has, Getting
  <2>2. ~ast[u.chan].known
    BY <1>0, <1>2 DEF ChannelFits
  <2> QED
    BY <1>2, <1>3, <1>5, <1>7, <2>1, <2>2 DEF Follows, Survives
<1> QED
  BY <1>8, <1>11, <1>12, <1>13, <1>14, <1>15 DEF ChannelsInv

\* What a channel is rebuilt to from the list and its key (_build_channel_state).
LEMMA RebuiltIs ==
  ASSUME NEW u, u.data \in 0 .. 1, NEW v \in BOOLEAN
  PROVE  /\ Rebuilt(u, v) \in Rec /\ Rebuilt(u, v).known
         /\ Rebuilt(u, v).data = u.data /\ Rebuilt(u, v).vars = v
  BY DEF Rebuilt, Rec

\* Restore: the answer for a key has come, and the channel is known again.
LEMMA RestoreKeeps ==
  ASSUME ChannelsInv, NEW i \in Id, Restore(i)
  PROVE  ChannelsInv'
<1>0. /\ CoreOK /\ TasksFit /\ FeedFits
      /\ \A c \in Chan : ChannelFits(c) /\ Follows(c) /\ Survives(c)
  BY DEF ChannelsInv
<1>1. PICK u \in Task : u = tasks[i] /\ u.at = "get" /\ TaskFits(u)
  BY TaskFacts DEF Restore
<1>2. /\ u # NoTask /\ u.kind \in Kind /\ u.chan \in Chan /\ u.data \in 0 .. 1
      /\ u.kind \notin {"reset", "start"}
  BY <1>1, TaskParts DEF TaskFits
<1>3. PICK c \in Chan : c = u.chan
  BY <1>2
<1>4. key[c] \in Rec /\ key[c].vars \in BOOLEAN
  BY <1>0 DEF CoreOK, Snapshot, Rec
<1>5. PICK r \in Rec :
        /\ mem' = [mem EXCEPT ![c] = r]
        /\ r.known /\ r.data = u.data /\ (r.vars => key[c].vars)
        /\ \/ r.vars = key[c].vars /\ UNCHANGED <<mishaps, saved>>
           \/ Mishap /\ saved' = saved \ {c}
  <2>1. CASE mem' = [mem EXCEPT ![c] = Rebuilt(u, key[c].vars)] /\ UNCHANGED <<mishaps, saved>>
    <3>0. PICK v \in BOOLEAN : v = key[c].vars
      BY <1>4
    <3>1. PICK r \in Rec : r = Rebuilt(u, v) /\ r.known /\ r.data = u.data /\ r.vars = v
      BY <1>2, RebuiltIs
    <3> QED
      BY <2>1, <3>0, <3>1
  <2>2. CASE Mishap /\ mem' = [mem EXCEPT ![c] = Rebuilt(u, FALSE)] /\ saved' = saved \ {c}
    <3>1. PICK r \in Rec : r = Rebuilt(u, FALSE) /\ r.known /\ r.data = u.data /\ r.vars = FALSE
      BY <1>2, RebuiltIs
    <3> QED
      BY <2>2, <3>1
  <2> QED
    BY <1>1, <1>3, <2>1, <2>2 DEF Restore
<1>6. /\ mem' \in Snapshot /\ mem'[c] = r
      /\ \A n \in Chan \ {c} : mem'[n] = mem[n]
  BY <1>0, <1>5 DEF CoreOK, Snapshot
<1>7. Only(c, r) \in Snapshot /\ Only(c, r)[c] = r
  BY OnlyDoes
<1>8. PICK t \in Task : /\ t = Waits(u, "key", Only(c, r)) /\ t # NoTask /\ t.kind = u.kind
                        /\ t.at = "key" /\ t.chan = c /\ t.val[c] = r
  BY <1>2, <1>3, <1>7, WaitsIsTask
<1>9. /\ tasks' = [tasks EXCEPT ![i] = t]
      /\ raced' = IF mem[c].known THEN raced \cup {c} ELSE raced
      /\ UNCHANGED <<ast, gone, key, all, feed, amilink, tick, said>>
  BY <1>0, <1>1, <1>3, <1>6, <1>8 DEF Restore, CoreOK
<1>10. /\ tasks' \in [Id -> Task \cup {NoTask}]
       /\ tasks'[i] = t /\ \A j \in Id \ {i} : tasks'[j] = tasks[j]
  BY <1>0, <1>9 DEF CoreOK
<1>11. mishaps' \in 0 .. MaxMishaps /\ saved' \subseteq saved
  <2>1. mishaps' = mishaps \/ Mishap
    BY <1>5
  <2> QED
    BY <1>0, <1>5, <2>1, MishapCounts
<1>12. CoreOK'
  BY <1>0, <1>6, <1>9, <1>10, <1>11 DEF CoreOK
<1>13. \A n \in Chan : RealVars(n)' = RealVars(n)
  BY <1>9 DEF RealVars
<1>14. r.vars => RealVars(c)
  BY <1>0, <1>5 DEF ChannelFits
<1>15. TaskFits(t)'
  BY <1>2, <1>8, <1>13, <1>14 DEF TaskFits
<1>16. TasksFit'
  BY <1>0, <1>9, <1>13, <1>15, FitStays DEF CoreOK
<1>17. FeedFits'
  BY <1>0, <1>9 DEF FeedFits
<1>18. ASSUME NEW n \in Chan PROVE ChannelFits(n)'
  BY <1>0, <1>5, <1>6, <1>9, <1>11, <1>13, <1>14 DEF ChannelFits
<1>19. ASSUME NEW n \in Chan \ {c} PROVE Follows(n)' /\ Survives(n)'
  <2>1. /\ Hanging(n) => Hanging(n)'
        /\ \A j \in Id : Has(j, "get", n)' => Has(j, "get", n) /\ tasks'[j].data = tasks[j].data
        /\ Getting(n) => Getting(n)'
    BY <1>1, <1>2, <1>3, <1>8, <1>10 DEF Hanging, Has, Getting
  <2>2. ToShow(n)' = ToShow(n)
    BY <1>9 DEF ToShow
  <2>3. ToList => ToList'
    BY <1>1, <1>2, <1>10 DEF ToList
  <2>4. \A j \in Id : Writes(j, n)' => Writes(j, n) /\ tasks'[j].val = tasks[j].val
    BY <1>8, <1>10 DEF Writes, Has
  <2>5. /\ amilink' = amilink /\ mem'[n] = mem[n] /\ ast'[n] = ast[n] /\ key' = key
        /\ gone' = gone /\ (n \in saved' => n \in saved) /\ (n \in raced => n \in raced')
    BY <1>6, <1>9, <1>11
  <2>6. Follows(n)'
    BY <2>1, <2>2, <2>3, <2>5, ChannelStays
  <2>7. Survives(n)'
    BY <2>4, <2>5, SavedStays
  <2> QED
    BY <2>6, <2>7
<1>20. Follows(c)'
  <2>1. SUFFICES ASSUME amilink = "up", c \notin raced, ~mem[c].known, ~Hanging(c)'
        PROVE  Follows(c)'
    BY <1>9 DEF Follows
  <2>2. ~Hanging(c)
    BY <1>1, <1>10, <2>1 DEF Hanging, Has
  <2>3. \A j \in Id : Has(j, "get", c) => ast[c].known /\ tasks[j].data = ast[c].data
    BY <1>0, <2>1, <2>2 DEF Follows
  <2>4. ast[c].known /\ u.data = ast[c].data
    BY <1>1, <1>2, <1>3, <2>3 DEF Has
  <2>5. \A j \in Id : Has(j, "get", c)' => Has(j, "get", c) /\ tasks'[j] = tasks[j]
    BY <1>8, <1>10 DEF Has
  <2> QED
    BY <1>5, <1>6, <1>9, <2>3, <2>4, <2>5 DEF Follows
<1>21. Survives(c)'
  <2>1. SUFFICES ASSUME amilink = "up", c \notin raced, ~mem[c].known, c \in saved', c \notin gone
        PROVE  Survives(c)'
    BY <1>9 DEF Survives
  <2>2. key[c].vars /\ \A j \in Id : Writes(j, c) => tasks[j].val[c].vars
    BY <1>0, <1>11, <2>1 DEF Survives
  <2>3. r.vars
    BY <1>5, <2>1, <2>2
  <2>4. \A j \in Id : Writes(j, c)' => tasks'[j].val[c].vars
    <3>1. ASSUME NEW j \in Id, Writes(j, c)' PROVE tasks'[j].val[c].vars
      <4>1. CASE j = i
        BY <1>8, <1>10, <2>3, <4>1
      <4>2. CASE j # i
        BY <1>10, <2>2, <3>1, <4>2 DEF Writes, Has
      <4> QED
        BY <4>1, <4>2
    <3> QED
      BY <3>1
  <2> QED
    BY <1>5, <1>6, <2>3, <2>4 DEF Survives
<1> QED
  BY <1>12, <1>16, <1>17, <1>18, <1>19, <1>20, <1>21 DEF ChannelsInv

\* A list with an end.
LEMMA EndedList ==
  ASSUME NEW K \in Nat, NEW f \in [1 .. K -> Event], NEW g \in Event
  PROVE  /\ f \o <<g>> \in Seq(Event) /\ Len(f \o <<g>>) = K + 1
         /\ \A n \in 1 .. K : (f \o <<g>>)[n] = f[n]
         /\ (f \o <<g>>)[K + 1] = g
<1>1. f \in Seq(Event) /\ Len(f) = K
  OBVIOUS
<1>2. <<g>> \in Seq(Event) /\ Len(<<g>>) = 1 /\ <<g>>[1] = g
  OBVIOUS
<1> QED
  BY <1>1, <1>2

\* The answer to CoreShowChannels: every channel, and the end.
IsAnswer(answer, here, data) ==
  /\ answer \in Seq(Event)
  /\ \A n \in 1 .. Len(answer) :
       /\ answer[n].kind \in {"show", "complete"}
       /\ answer[n].kind = "show" => answer[n].chan \in here /\ answer[n].data = data[answer[n].chan]
  /\ \A d \in here : \E n \in 1 .. Len(answer) : answer[n].kind = "show" /\ answer[n].chan = d

\* What Asterisk answers to CoreShowChannels, in whatever order.
LEMMA AnswerIs ==
  ASSUME NEW here \in SUBSET Chan, NEW order \in [1 .. Cardinality(here) -> here],
         NEW data \in [Chan -> 0 .. 1], NEW c \in Chan,
         \A d \in here : \E n \in DOMAIN order : order[n] = d
  PROVE  IsAnswer([n \in DOMAIN order |-> Ev("show", order[n], data[order[n]])]
                    \o <<Ev("complete", c, 0)>>, here, data)
<1>1. PICK K \in Nat : K = Cardinality(here)
  BY ChannelsAssumption, FS_Subset, FS_CardinalityType
<1>2. DOMAIN order = 1 .. K /\ \A n \in 1 .. K : order[n] \in here
  BY <1>1
<1>3. \A d \in Chan, x \in 0 .. 1 :
        /\ Ev("show", d, x) \in Event /\ Ev("show", d, x).kind = "show"
        /\ Ev("show", d, x).chan = d /\ Ev("show", d, x).data = x
  BY DEF Ev, Event, Kind
<1>4. PICK done \in Event : done = Ev("complete", c, 0) /\ done.kind = "complete"
  <2>1. Ev("complete", c, 0) \in Event /\ Ev("complete", c, 0).kind = "complete"
    BY DEF Ev, Event, Kind
  <2> QED
    BY <2>1
<1>5. PICK shows \in [1 .. K -> Event] :
        /\ shows = [n \in DOMAIN order |-> Ev("show", order[n], data[order[n]])]
        /\ \A n \in 1 .. K : shows[n] = Ev("show", order[n], data[order[n]])
  <2>1. [n \in 1 .. K |-> Ev("show", order[n], data[order[n]])] \in [1 .. K -> Event]
    BY <1>2, <1>3
  <2> QED
    BY <1>2, <2>1
<1>6. PICK answer \in Seq(Event) :
        /\ answer = shows \o <<done>> /\ Len(answer) = K + 1
        /\ \A n \in 1 .. K : answer[n] = shows[n]
        /\ answer[K + 1] = done
  BY EndedList
<1>7. ASSUME NEW n \in 1 .. Len(answer)
      PROVE  /\ answer[n].kind \in {"show", "complete"}
             /\ answer[n].kind = "show" => answer[n].chan \in here /\ answer[n].data = data[answer[n].chan]
  <2>1. CASE n \in 1 .. K
    <3>1. order[n] \in here /\ answer[n] = Ev("show", order[n], data[order[n]])
      BY <1>2, <1>5, <1>6, <2>1
    <3>2. order[n] \in Chan /\ data[order[n]] \in 0 .. 1
      BY <3>1
    <3>3. /\ answer[n].kind = "show" /\ answer[n].chan = order[n]
          /\ answer[n].data = data[order[n]]
      BY <3>1, <3>2, <1>3
    <3> QED
      BY <3>1, <3>3
  <2>2. CASE n \notin 1 .. K
    <3>1. n = K + 1
      <4>1. n \in 1 .. K + 1
        BY <1>6
      <4> QED
        BY <4>1, <2>2
    <3> QED
      BY <3>1, <1>4, <1>6
  <2> QED
    BY <2>1, <2>2
<1>8. ASSUME NEW d \in here
      PROVE  \E n \in 1 .. Len(answer) : answer[n].kind = "show" /\ answer[n].chan = d
  <2>1. PICK n \in 1 .. K : order[n] = d
    BY <1>2
  <2>2. n \in 1 .. Len(answer)
    BY <1>6
  <2>3. answer[n] = Ev("show", d, data[d])
    BY <1>5, <1>6, <2>1
  <2>4. d \in Chan /\ data[d] \in 0 .. 1
    OBVIOUS
  <2> QED
    BY <1>3, <2>2, <2>3, <2>4
<1>9. IsAnswer(answer, here, data)
  BY <1>7, <1>8 DEF IsAnswer
<1> QED
  BY <1>4, <1>5, <1>6, <1>9

\* What is appended to a list is heard after it.
LEMMA AppendIs ==
  ASSUME NEW s \in Seq(Event), NEW t \in Seq(Event)
  PROVE  /\ s \o t \in Seq(Event)
         /\ \A n \in 1 .. Len(s) : n \in 1 .. Len(s \o t) /\ (s \o t)[n] = s[n]
         /\ \A n \in 1 .. Len(t) : \E k \in 1 .. Len(s \o t) : (s \o t)[k] = t[n]
         /\ \A k \in 1 .. Len(s \o t) : \/ k \in 1 .. Len(s) /\ (s \o t)[k] = s[k]
                                        \/ \E n \in 1 .. Len(t) : (s \o t)[k] = t[n]
<1>1. s \o t \in Seq(Event) /\ Len(s \o t) = Len(s) + Len(t) /\ Len(s) \in Nat /\ Len(t) \in Nat
  OBVIOUS
<1>2. \A n \in 1 .. Len(s) : n \in 1 .. Len(s \o t) /\ (s \o t)[n] = s[n]
  OBVIOUS
<1>3. ASSUME NEW n \in 1 .. Len(t) PROVE \E k \in 1 .. Len(s \o t) : (s \o t)[k] = t[n]
  <2>1. Len(s) + n \in 1 .. Len(s \o t) /\ (s \o t)[Len(s) + n] = t[n]
    OBVIOUS
  <2> QED
    BY <2>1
<1>4. ASSUME NEW k \in 1 .. Len(s \o t)
      PROVE  \/ k \in 1 .. Len(s) /\ (s \o t)[k] = s[k]
             \/ \E n \in 1 .. Len(t) : (s \o t)[k] = t[n]
  <2>1. CASE k \in 1 .. Len(s)
    BY <2>1
  <2>2. CASE k \notin 1 .. Len(s)
    <3>1. k - Len(s) \in 1 .. Len(t) /\ (s \o t)[k] = t[k - Len(s)]
      BY <2>2
    <3> QED
      BY <3>1
  <2> QED
    BY <2>1, <2>2
<1> QED
  BY <1>1, <1>2, <1>3, <1>4

\* List: Asterisk tells of every channel it has.
LEMMA ListKeeps ==
  ASSUME ChannelsInv, NEW i \in Id, List(i)
  PROVE  ChannelsInv'
<1>0. /\ CoreOK /\ TasksFit /\ FeedFits
      /\ \A c \in Chan : ChannelFits(c) /\ Follows(c) /\ Survives(c)
  BY DEF ChannelsInv
<1>1. PICK u \in Task : u = tasks[i] /\ u.at = "list"
  BY TaskFacts DEF List
<1>2. /\ u # NoTask /\ u.kind \in Kind /\ u.chan \in Chan /\ u.data \in 0 .. 1
  BY <1>1, TaskParts
<1>3. PICK t \in Task \cup {NoTask} :
        /\ t = IF u.kind = "start" THEN Waits(u, "all", mem) ELSE NoTask
        /\ t # NoTask => t.at = "all" /\ t.kind = "start"
  <2>1. CASE u.kind = "start"
    BY <1>0, <1>2, <2>1, WaitsIsTask DEF CoreOK
  <2>2. CASE u.kind # "start"
    BY <2>2
  <2> QED
    BY <2>1, <2>2
<1>4. PICK here \in SUBSET Chan : here = {c \in Chan : ast[c].known}
  OBVIOUS
<1>5. PICK data \in [Chan -> 0 .. 1] : \A c \in Chan : data[c] = ast[c].data
  <2>1. [c \in Chan |-> ast[c].data] \in [Chan -> 0 .. 1]
    BY <1>0 DEF CoreOK, Snapshot, Rec
  <2> QED
    BY <2>1
<1>6. PICK order \in [1 .. Cardinality(here) -> here] :
        /\ \A c \in here : \E n \in DOMAIN order : order[n] = c
        /\ Tell([n \in DOMAIN order |-> Ev("show", order[n], ast[order[n]].data)]
                   \o <<Ev("complete", u.chan, 0)>>)
  BY <1>1, <1>4 DEF List
<1>7. [n \in DOMAIN order |-> Ev("show", order[n], ast[order[n]].data)]
        = [n \in DOMAIN order |-> Ev("show", order[n], data[order[n]])]
  BY <1>5
<1>8. PICK answer \in Seq(Event) :
        /\ Tell(answer)
        /\ \A n \in 1 .. Len(answer) :
              /\ answer[n].kind \in {"show", "complete"}
              /\ answer[n].kind = "show" => answer[n].chan \in here /\ answer[n].data = data[answer[n].chan]
        /\ \A d \in here : \E n \in 1 .. Len(answer) : answer[n].kind = "show" /\ answer[n].chan = d
  <2>1. PICK answer : answer = [n \in DOMAIN order |-> Ev("show", order[n], data[order[n]])]
                                 \o <<Ev("complete", u.chan, 0)>>
    OBVIOUS
  <2>2. Tell(answer)
    BY <1>6, <1>7, <2>1
  <2>3. IsAnswer(answer, here, data)
    BY <1>2, <1>6, <2>1, AnswerIs
  <2> QED
    BY <2>2, <2>3 DEF IsAnswer
<1>9. /\ tasks' = [tasks EXCEPT ![i] = t]
      /\ UNCHANGED <<ast, gone, mem, key, all, amilink, tick, said, mishaps, raced, saved>>
  BY <1>0, <1>1, <1>3 DEF List, CoreOK
<1>10. /\ tasks' \in [Id -> Task \cup {NoTask}]
       /\ tasks'[i] = t /\ \A j \in Id \ {i} : tasks'[j] = tasks[j]
  BY <1>0, <1>9 DEF CoreOK
<1>11. feed \in Seq(Event)
  BY <1>0 DEF CoreOK
<1>12. feed' = feed \/ (amilink # "down" /\ feed' = feed \o answer)
  BY <1>8 DEF Tell
<1>13. feed' \in Seq(Event)
  BY <1>11, <1>12, AppendIs
<1>14. CoreOK'
  BY <1>0, <1>9, <1>10, <1>13 DEF CoreOK
<1>15. TasksFit'
  <2>1. TaskFits(t)'
    BY <1>3 DEF TaskFits
  <2>2. \A c \in Chan : RealVars(c)' = RealVars(c)
    BY <1>9 DEF RealVars
  <2> QED
    BY <1>0, <1>9, <2>1, <2>2, FitStays DEF CoreOK
<1>16. FeedFits'
  <2>1. CASE feed' = feed
    BY <1>0, <1>9, <2>1 DEF FeedFits
  <2>2. CASE feed' = feed \o answer
    <3>1. ASSUME NEW k \in 1 .. Len(feed')
          PROVE  /\ feed'[k].kind \in {"show", "complete"}
                 /\ feed'[k].kind = "show" => ast[feed'[k].chan].known /\ feed'[k].data = ast[feed'[k].chan].data
      <4>1. CASE k \in 1 .. Len(feed) /\ feed'[k] = feed[k]
        BY <1>0, <4>1 DEF FeedFits
      <4>2. CASE \E n \in 1 .. Len(answer) : feed'[k] = answer[n]
        BY <1>4, <1>5, <1>8, <4>2
      <4>3. \/ k \in 1 .. Len(feed) /\ feed'[k] = feed[k]
            \/ \E n \in 1 .. Len(answer) : feed'[k] = answer[n]
        BY <1>11, <2>2, AppendIs
      <4> QED
        BY <4>1, <4>2, <4>3
    <3> QED
      BY <1>9, <3>1 DEF FeedFits
  <2> QED
    BY <1>12, <2>1, <2>2
<1>17. ASSUME NEW n \in Chan PROVE ChannelFits(n)'
  BY <1>0, <1>9 DEF ChannelFits, RealVars
<1>18. ASSUME NEW n \in Chan PROVE Follows(n)'
  <2>1. SUFFICES ASSUME amilink = "up" PROVE Follows(n)'
    BY <1>9 DEF Follows
  <2>2. feed' = feed \o answer
    BY <1>8, <2>1 DEF Tell
  <2>3. /\ Hanging(n) => Hanging(n)'
        /\ \A j \in Id : Has(j, "get", n)' => Has(j, "get", n) /\ tasks'[j].data = tasks[j].data
        /\ Getting(n) => Getting(n)'
    BY <1>1, <1>2, <1>3, <1>10 DEF Hanging, Has, Getting
  <2>4. ToShow(n) => ToShow(n)'
    <3>1. \A k \in 1 .. Len(feed) : k \in 1 .. Len(feed') /\ feed'[k] = feed[k]
      BY <1>11, <2>2, AppendIs
    <3> QED
      BY <3>1 DEF ToShow
  <2>5. ToShow(n)' \/ ~ast[n].known
    <3>1. \A m \in 1 .. Len(answer) : \E k \in 1 .. Len(feed') : feed'[k] = answer[m]
      BY <1>11, <2>2, AppendIs
    <3> QED
      BY <1>4, <1>8, <3>1 DEF ToShow
  <2> QED
    BY <1>9, <2>3, <2>4, <2>5, ChannelStays
<1>19. ASSUME NEW n \in Chan PROVE Survives(n)'
  <2>1. \A j \in Id : Writes(j, n)' => Writes(j, n) /\ tasks'[j].val = tasks[j].val
    BY <1>3, <1>10 DEF Writes, Has
  <2> QED
    BY <1>9, <2>1, SavedStays
<1> QED
  BY <1>14, <1>15, <1>16, <1>17, <1>18, <1>19 DEF ChannelsInv

\* The first part of a list and the rest of it.
LEMMA RestIs ==
  ASSUME NEW s \in Seq(Event), s # <<>>
  PROVE  /\ Head(s) \in Event /\ Tail(s) \in Seq(Event) /\ 1 \in 1 .. Len(s) /\ Head(s) = s[1]
         /\ \A n \in 1 .. Len(Tail(s)) : \E k \in 1 .. Len(s) : Tail(s)[n] = s[k]
         /\ \A k \in 1 .. Len(s) : \/ s[k] = Head(s)
                                   \/ \E n \in 1 .. Len(Tail(s)) : Tail(s)[n] = s[k]
<1>1. /\ Head(s) \in Event /\ Tail(s) \in Seq(Event) /\ 1 \in 1 .. Len(s) /\ Head(s) = s[1]
      /\ Len(s) \in Nat /\ Len(Tail(s)) = Len(s) - 1
  OBVIOUS
<1>2. \A n \in 1 .. Len(Tail(s)) : n + 1 \in 1 .. Len(s) /\ Tail(s)[n] = s[n + 1]
  BY <1>1
<1>3. \A n \in 1 .. Len(Tail(s)) : \E k \in 1 .. Len(s) : Tail(s)[n] = s[k]
  BY <1>2
<1>4. ASSUME NEW k \in 1 .. Len(s)
      PROVE  s[k] = Head(s) \/ \E n \in 1 .. Len(Tail(s)) : Tail(s)[n] = s[k]
  <2>1. CASE k = 1
    BY <2>1, <1>1
  <2>2. CASE k # 1
    <3>1. k - 1 \in 1 .. Len(Tail(s)) /\ Tail(s)[k - 1] = s[k]
      BY <1>1, <2>2
    <3> QED
      BY <3>1
  <2> QED
    BY <2>1, <2>2
<1> QED
  BY <1>1, <1>3, <1>4

\* Start: the next event of the list, which is about a channel, or the end.
LEMMA TaskStartKeeps ==
  ASSUME ChannelsInv, NEW i \in Id, Start(i)
  PROVE  ChannelsInv'
<1>0. /\ CoreOK /\ TasksFit /\ FeedFits
      /\ \A c \in Chan : ChannelFits(c) /\ Follows(c) /\ Survives(c)
  BY DEF ChannelsInv
<1>1. feed \in Seq(Event) /\ feed # <<>>
  BY <1>0 DEF CoreOK, Start
<1>2. PICK e \in Event : /\ e = Head(feed) /\ e.kind \in {"show", "complete"}
                         /\ e.kind = "show" => ast[e.chan].known /\ e.data = ast[e.chan].data
  BY <1>0, <1>1, RestIs DEF FeedFits
<1>3. e.kind \in Kind /\ e.chan \in Chan /\ e.data \in 0 .. 1
  BY DEF Event
<1>4. /\ feed' = Tail(feed) /\ Free(i) /\ Handler(i, e)
      /\ UNCHANGED <<ast, gone, key, all, amilink, tick, said, mishaps>>
  BY <1>2 DEF Start
<1>5. HandleShow(i, e) \/ HandleComplete(i, e)
  BY <1>2, <1>4 DEF Handler, HandleNewchannel, HandleNewstate, HandleBridge, HandleDialEnd,
    HandleDialBegin, HandleNewexten, HandleVarset, HandleHangup
<1>6. tasks[i] = NoTask /\ UNCHANGED <<mem, raced, saved>>
  BY <1>4, <1>5 DEF Free, HandleShow, HandleComplete
<1>7. mem \in Snapshot /\ Nobody \in Snapshot
  BY <1>0, <1>3, OnlyDoes DEF CoreOK, Nobody, Snapshot, Absent, Rec
<1>8. PICK t \in Task \cup {NoTask} :
        /\ tasks' = [tasks EXCEPT ![i] = t]
        /\ \/ t = NoTask /\ e.kind = "show" /\ mem[e.chan].known
           \/ t # NoTask /\ t.at = "all" /\ t.kind = "complete" /\ e.kind = "complete"
           \/ t # NoTask /\ t.at = "get" /\ t.kind = "show" /\ e.kind = "show"
              /\ t.chan = e.chan /\ t.data = e.data
  <2>1. CASE HandleShow(i, e) /\ mem[e.chan].known
    <3>1. tasks' = [tasks EXCEPT ![i] = NoTask]
      BY <1>0, <1>6, <2>1 DEF HandleShow, CoreOK
    <3> QED
      BY <2>1, <3>1 DEF HandleShow
  <2>2. CASE HandleShow(i, e) /\ ~mem[e.chan].known
    <3>1. PICK t \in Task : /\ t = Waits(e, "get", Nobody) /\ t # NoTask /\ t.at = "get"
                            /\ t.kind = e.kind /\ t.chan = e.chan /\ t.data = e.data
      BY <1>3, <1>7, WaitsIsTask
    <3> QED
      BY <2>2, <3>1 DEF HandleShow
  <2>3. CASE HandleComplete(i, e)
    <3>1. PICK t \in Task : t = Waits(e, "all", mem) /\ t # NoTask /\ t.at = "all" /\ t.kind = e.kind
      BY <1>3, <1>7, WaitsIsTask
    <3> QED
      BY <2>3, <3>1 DEF HandleComplete
  <2> QED
    BY <1>5, <2>1, <2>2, <2>3
<1>9. /\ tasks' \in [Id -> Task \cup {NoTask}]
      /\ tasks'[i] = t /\ \A j \in Id \ {i} : tasks'[j] = tasks[j]
  BY <1>0, <1>8 DEF CoreOK
<1>10. feed' \in Seq(Event)
  BY <1>1, <1>4, RestIs
<1>11. CoreOK'
  BY <1>0, <1>4, <1>6, <1>9, <1>10 DEF CoreOK
<1>12. TasksFit'
  <2>1. TaskFits(t)'
    BY <1>8 DEF TaskFits
  <2>2. \A c \in Chan : RealVars(c)' = RealVars(c)
    BY <1>4 DEF RealVars
  <2> QED
    BY <1>0, <1>4, <1>8, <2>1, <2>2, FitStays DEF CoreOK
<1>13. FeedFits'
  <2>1. \A n \in 1 .. Len(feed') : \E k \in 1 .. Len(feed) : feed'[n] = feed[k]
    BY <1>1, <1>4, RestIs
  <2> QED
    BY <1>0, <1>4, <2>1 DEF FeedFits
<1>14. ASSUME NEW n \in Chan PROVE ChannelFits(n)'
  BY <1>0, <1>4, <1>6 DEF ChannelFits, RealVars
<1>15. ASSUME NEW n \in Chan PROVE Follows(n)'
  <2>1. SUFFICES ASSUME amilink = "up", n \notin raced, ~Hanging(n)' PROVE Follows(n)'
    BY <1>4, <1>6 DEF Follows
  <2>2. ~Hanging(n)
    BY <1>6, <1>9, <2>1 DEF Hanging, Has
  <2>3. /\ mem[n].known => ast[n].known /\ mem[n].data = ast[n].data
        /\ \A j \in Id : Has(j, "get", n) => ast[n].known /\ tasks[j].data = ast[n].data
        /\ ast[n].known /\ ~mem[n].known => ToList \/ ToShow(n) \/ Getting(n)
    BY <1>0, <2>1, <2>2 DEF Follows
  <2>4. \A j \in Id : Has(j, "get", n)' => ast[n].known /\ tasks'[j].data = ast[n].data
    <3>1. ASSUME NEW j \in Id, Has(j, "get", n)' PROVE ast[n].known /\ tasks'[j].data = ast[n].data
      <4>1. CASE j = i
        BY <1>2, <1>8, <1>9, <3>1, <4>1 DEF Has
      <4>2. CASE j # i
        BY <1>9, <2>3, <3>1, <4>2 DEF Has
      <4> QED
        BY <4>1, <4>2
    <3> QED
      BY <3>1
  <2>5. /\ Getting(n) => Getting(n)'
        /\ ToList => ToList'
    BY <1>6, <1>9 DEF Getting, ToList
  <2>6. ToShow(n) => ToShow(n)' \/ Getting(n)' \/ mem[n].known
    <3>1. ASSUME ToShow(n), ~ToShow(n)' PROVE Getting(n)' \/ mem[n].known
      <4>1. PICK k \in 1 .. Len(feed) : feed[k].kind = "show" /\ feed[k].chan = n
        BY <3>1 DEF ToShow
      <4>2. feed[k] = e
        BY <1>1, <1>2, <1>4, <3>1, <4>1, RestIs DEF ToShow
      <4> QED
        BY <1>8, <1>9, <4>1, <4>2 DEF Getting
    <3> QED
      BY <3>1
  <2> QED
    BY <1>4, <1>6, <2>3, <2>4, <2>5, <2>6 DEF Follows
<1>16. ASSUME NEW n \in Chan PROVE Survives(n)'
  <2>1. \A j \in Id : Writes(j, n)' => Writes(j, n) /\ tasks'[j].val = tasks[j].val
    BY <1>8, <1>9 DEF Writes, Has
  <2> QED
    BY <1>4, <1>6, <2>1, SavedStays
<1> QED
  BY <1>11, <1>12, <1>13, <1>14, <1>15, <1>16 DEF ChannelsInv

\* What the handlers of a channel's live events make of the memory and of their task:
\* the channel stays unknown, or it becomes r and its key will be written.
LEMMA HandlerDoes ==
  ASSUME ChannelsInv, NEW i \in Id, NEW e \in Event, Handler(i, e), tasks[i] = NoTask,
         e.kind \in {"new", "state", "enter", "leave", "dialend", "dial", "exten", "var"}
  PROVE  /\ saved' = saved /\ raced' = IF Getting(e.chan) THEN raced \cup {e.chan} ELSE raced
         /\ \/ /\ mem' = mem /\ ~mem[e.chan].known /\ e.kind # "new"
               /\ \E t \in Task \cup {NoTask} :
                    /\ tasks' = [tasks EXCEPT ![i] = t]
                    /\ t # NoTask =>
                         /\ t.kind = e.kind
                         /\ \/ t.at = "all"
                            \/ /\ t.at = "other" /\ t.kind = "dial" /\ mem[Other(t.chan)].known
                               /\ t.val[Other(t.chan)] = mem[Other(t.chan)]
            \/ \E r \in Rec :
                 /\ mem' = [mem EXCEPT ![e.chan] = r] /\ r.known
                 /\ \/ e.kind = "new" /\ r.data = e.data /\ ~r.vars
                    \/ e.kind = "var" /\ mem[e.chan].known /\ r.data = mem[e.chan].data /\ r.vars
                    \/ e.kind \in {"dial", "dialend"} /\ mem[e.chan].known
                       /\ r = mem[e.chan]
                    \/ e.kind \in {"state", "enter", "leave", "exten"} /\ mem[e.chan].known
                       /\ r.data = e.data /\ r.vars = mem[e.chan].vars
                 /\ \E t \in Task :
                      /\ tasks' = [tasks EXCEPT ![i] = t]
                      /\ t # NoTask /\ t.kind = e.kind /\ t.at = "key" /\ t.chan = e.chan
                      /\ t.val[e.chan] = r
<1>0. /\ e.kind \in Kind /\ e.chan \in Chan /\ e.data \in 0 .. 1
  BY DEF Event
<1>1. /\ mem \in Snapshot /\ mem[e.chan] \in Rec
      /\ tasks \in [Id -> Task \cup {NoTask}]
  BY <1>0 DEF ChannelsInv, CoreOK, Snapshot
<1>2. /\ saved' = saved /\ raced' = IF Getting(e.chan) THEN raced \cup {e.chan} ELSE raced
      /\ \/ HandleNewchannel(i, e) \/ HandleNewstate(i, e) \/ HandleBridge(i, e)
         \/ HandleDialEnd(i, e) \/ HandleDialBegin(i, e) \/ HandleNewexten(i, e)
         \/ HandleVarset(i, e)
  BY DEF Handler, HandleHangup, HandleShow, HandleComplete
<1>3. ASSUME NEW r \in Rec, Put(i, e, r)
      PROVE  /\ mem' = [mem EXCEPT ![e.chan] = r]
             /\ \E t \in Task :
                      /\ tasks' = [tasks EXCEPT ![i] = t]
                      /\ t # NoTask /\ t.kind = e.kind /\ t.at = "key" /\ t.chan = e.chan
                      /\ t.val[e.chan] = r
  <2>1. Only(e.chan, r) \in Snapshot /\ Only(e.chan, r)[e.chan] = r
    BY <1>0, OnlyDoes
  <2>2. PICK t \in Task : /\ t = Waits(e, "key", Only(e.chan, r)) /\ t # NoTask /\ t.kind = e.kind
                          /\ t.at = "key" /\ t.chan = e.chan /\ t.val[e.chan] = r
    BY <1>0, <2>1, WaitsIsTask
  <2> QED
    BY <1>3, <2>2 DEF Put
<1>4. PICK r1 \in Rec : r1 = [known |-> TRUE, data |-> e.data, vars |-> FALSE]
                        /\ r1.known /\ r1.data = e.data /\ ~r1.vars
  <2>1. [known |-> TRUE, data |-> e.data, vars |-> FALSE] \in Rec
    BY <1>0 DEF Rec
  <2> QED
    BY <2>1
<1>5. ASSUME mem[e.chan].known
      PROVE  WithData(e) \in Rec /\ WithData(e).known /\ WithData(e).data = e.data
             /\ WithData(e).vars = mem[e.chan].vars
  BY <1>0, <1>1, <1>5 DEF WithData, Rec
<1>6. ASSUME mem[e.chan].known
      PROVE  WithVars(e) \in Rec /\ WithVars(e).known /\ WithVars(e).data = mem[e.chan].data
             /\ WithVars(e).vars
  BY <1>0, <1>1, <1>6 DEF WithVars, Rec
<1>7. PICK t2 \in Task : t2 = Waits(e, "all", mem) /\ t2 # NoTask /\ t2.kind = e.kind /\ t2.at = "all"
  BY <1>0, <1>1, WaitsIsTask
<1>8. ASSUME e.kind = "dial"
      PROVE  /\ WriteOther(e) \in Task /\ WriteOther(e) # NoTask
             /\ WriteOther(e).kind = e.kind /\ WriteOther(e).chan = e.chan
             /\ \/ WriteOther(e).at = "all"
                \/ /\ WriteOther(e).at = "other" /\ mem[Other(e.chan)].known
                   /\ WriteOther(e).val[Other(e.chan)] = mem[Other(e.chan)]
  <2>1. PICK o \in Chan : o = Other(e.chan)
    BY <1>0, OtherIsChan
  <2>2. mem[o] \in Rec
    BY <1>1 DEF Snapshot
  <2>3. Only(o, mem[o]) \in Snapshot /\ Only(o, mem[o])[o] = mem[o]
    BY <2>2, OnlyDoes
  <2>4. CASE mem[o].known
    <3>1. WriteOther(e) = Waits(e, "other", Only(o, mem[o]))
      BY <2>1, <2>4 DEF WriteOther
    <3> QED
      BY <1>0, <2>1, <2>3, <2>4, <3>1, WaitsIsTask
  <2>5. CASE ~mem[o].known
    <3>1. WriteOther(e) = Waits(e, "all", mem)
      BY <2>1, <2>5 DEF WriteOther
    <3> QED
      BY <1>0, <1>1, <3>1, WaitsIsTask
  <2> QED
    BY <2>4, <2>5
<1>9. CASE e.kind = "new"
  <2>1. HandleNewchannel(i, e)
    BY <1>2, <1>9 DEF HandleNewchannel, HandleNewstate, HandleBridge, HandleDialEnd,
      HandleDialBegin, HandleNewexten, HandleVarset
  <2>2. mem' = [mem EXCEPT ![e.chan] = r1] /\ mem'[e.chan] = r1
    BY <1>0, <1>1, <1>4, <2>1 DEF HandleNewchannel, Snapshot
  <2>3. Only(e.chan, r1) \in Snapshot /\ Only(e.chan, r1)[e.chan] = r1
    BY <1>0, OnlyDoes
  <2>4. PICK t \in Task : /\ t = Waits(e, "key", Only(e.chan, r1)) /\ t # NoTask /\ t.kind = e.kind
                          /\ t.at = "key" /\ t.chan = e.chan /\ t.val[e.chan] = r1
    BY <1>0, <2>3, WaitsIsTask
  <2>5. tasks' = [tasks EXCEPT ![i] = t]
    BY <2>1, <2>2, <2>4 DEF HandleNewchannel
  <2> QED
    BY <1>2, <1>4, <1>9, <2>2, <2>4, <2>5
<1>10. CASE e.kind = "var" /\ mem[e.chan].known
  <2>1. Put(i, e, WithVars(e))
    BY <1>2, <1>10 DEF HandleNewchannel, HandleNewstate, HandleBridge, HandleDialEnd,
      HandleDialBegin, HandleNewexten, HandleVarset, IfKnown
  <2>2. PICK r \in Rec : r = WithVars(e) /\ r.known /\ r.data = mem[e.chan].data /\ r.vars
    BY <1>6, <1>10
  <2> QED
    BY <1>2, <1>3, <1>10, <2>1, <2>2
<1>13. CASE e.kind \in {"dial", "dialend"} /\ mem[e.chan].known
  <2>1. Put(i, e, mem[e.chan])
    BY <1>2, <1>13 DEF HandleNewchannel, HandleNewstate, HandleBridge, HandleDialEnd,
      HandleDialBegin, HandleNewexten, HandleVarset, IfKnown
  <2>2. PICK r \in Rec : r = mem[e.chan] /\ r.known
    BY <1>1, <1>13
  <2> QED
    BY <1>2, <1>3, <1>13, <2>1, <2>2
<1>11. CASE e.kind \in {"state", "enter", "leave", "exten"} /\ mem[e.chan].known
  <2>1. Put(i, e, WithData(e))
    BY <1>2, <1>11 DEF HandleNewchannel, HandleNewstate, HandleBridge, HandleDialEnd,
      HandleDialBegin, HandleNewexten, HandleVarset, IfKnown
  <2>2. PICK r \in Rec : r = WithData(e) /\ r.known /\ r.data = e.data /\ r.vars = mem[e.chan].vars
    BY <1>5, <1>11
  <2> QED
    BY <1>2, <1>3, <1>11, <2>1, <2>2
<1>12. CASE e.kind # "new" /\ ~mem[e.chan].known
  <2>1. /\ mem' = mem
        /\ \/ tasks' = [tasks EXCEPT ![i] = NoTask]
           \/ tasks' = [tasks EXCEPT ![i] = Waits(e, "all", mem)]
           \/ e.kind = "dial" /\ tasks' = [tasks EXCEPT ![i] = WriteOther(e)]
    BY <1>2, <1>12 DEF HandleNewchannel, HandleNewstate, HandleBridge, HandleDialEnd,
      HandleDialBegin, HandleNewexten, HandleVarset, IfKnown
  <2>2. \E t \in Task \cup {NoTask} :
                    /\ tasks' = [tasks EXCEPT ![i] = t]
                    /\ t # NoTask =>
                         /\ t.kind = e.kind
                         /\ \/ t.at = "all"
                            \/ /\ t.at = "other" /\ t.kind = "dial" /\ mem[Other(t.chan)].known
                               /\ t.val[Other(t.chan)] = mem[Other(t.chan)]
    <3>1. CASE tasks' = [tasks EXCEPT ![i] = NoTask]
      BY <3>1
    <3>2. CASE tasks' = [tasks EXCEPT ![i] = Waits(e, "all", mem)]
      BY <3>2, <1>7
    <3>3. CASE e.kind = "dial" /\ tasks' = [tasks EXCEPT ![i] = WriteOther(e)]
      <4>1. PICK t \in Task : t = WriteOther(e)
        BY <1>8, <3>3
      <4> QED
        BY <1>8, <3>3, <4>1
    <3> QED
      BY <2>1, <3>1, <3>2, <3>3
  <2> QED
    BY <1>2, <1>12, <2>1, <2>2
<1> QED
  BY <1>9, <1>10, <1>11, <1>12, <1>13

\* What an event of Asterisk about channel c, which becomes r, has in it.
LiveEvent(k, c, r) ==
  \/ k = "new" /\ ~ast[c].known /\ c \notin gone /\ r.known /\ ~r.vars
  \/ /\ k \in {"state", "enter", "leave", "exten"}
     /\ ast[c].known /\ r.known /\ r.vars = ast[c].vars
  \/ k \in {"dialend", "dial"} /\ ast[c].known /\ r = ast[c]
  \/ k = "var" /\ ast[c].known /\ r.known /\ r.vars /\ r.data = ast[c].data

\* What all events leave alone, and what they make of Asterisk's channels.
LEMMA AsteriskDoes ==
  ASSUME ChannelsInv, NEW k \in Kind, NEW c \in Chan, NEW r \in Rec, ChannelEvent(k, c, r),
         LiveEvent(k, c, r) \/ (k = "hangup" /\ ast[c].known /\ r = Absent)
  PROVE  /\ ast' \in Snapshot /\ ast'[c] = r /\ \A n \in Chan \ {c} : ast'[n] = ast[n]
         /\ gone' \subseteq Chan /\ gone \subseteq gone' /\ gone' \subseteq gone \cup {c}
         /\ c \in gone' => ~r.known
         /\ \A n \in Chan : RealVars(n) => RealVars(n)'
         /\ said' \in 0 .. MaxEvents /\ feed' = <<>> /\ feed = <<>>
         /\ \A n \in Chan : ~ToShow(n)
         /\ FeedFits'
         /\ \A n \in Chan :
              /\ ~ast'[n].known => ast'[n] = Absent
              /\ n \in gone' => ~ast'[n].known
              /\ n \in saved => ast'[n].known \/ n \in gone'
         /\ UNCHANGED <<key, all, feed, amilink, tick, mishaps, saved>>
<1>0. CoreOK /\ \A n \in Chan : ChannelFits(n)
  BY DEF ChannelsInv
<1>1. /\ ast' = [ast EXCEPT ![c] = r] /\ gone' = IF r.known THEN gone ELSE gone \cup {c}
      /\ said < MaxEvents /\ said' = said + 1 /\ feed = <<>>
      /\ UNCHANGED <<key, all, feed, amilink, tick, mishaps>>
  BY DEF ChannelEvent
<1>2. saved' = saved
  BY DEF ChannelEvent
<1>3. /\ ast' \in Snapshot /\ ast'[c] = r /\ \A n \in Chan \ {c} : ast'[n] = ast[n]
  BY <1>0, <1>1 DEF CoreOK, Snapshot
<1>4. gone' \subseteq Chan /\ gone \subseteq gone' /\ gone' \subseteq gone \cup {c}
  BY <1>0, <1>1 DEF CoreOK
<1>5. r = Absent => ~r.known /\ ~r.vars
  BY DEF Absent
<1>6. c \in gone' => ~r.known
  BY <1>0, <1>1, <1>5 DEF LiveEvent, ChannelFits
<1>7. \A n \in Chan : RealVars(n) => RealVars(n)'
  <2>1. RealVars(c) => RealVars(c)'
    <3>1. CASE LiveEvent(k, c, r)
      <4>1. ~ast[c].known => ast[c] = Absent /\ ~Absent.vars
        BY <1>0 DEF ChannelFits, Absent
      <4> QED
        BY <1>3, <1>4, <3>1, <4>1 DEF RealVars, LiveEvent
    <3>2. CASE r = Absent
      BY <1>1, <1>5, <3>2 DEF RealVars
    <3> QED
      BY <3>1, <3>2
  <2> QED
    BY <1>3, <1>4, <2>1 DEF RealVars
<1>8. said' \in 0 .. MaxEvents
  BY <1>0, <1>1, ChannelsAssumption DEF CoreOK
<1>9. Len(feed) = 0 /\ Len(feed') = 0
  BY <1>1
<1>10. FeedFits' /\ \A n \in Chan : ~ToShow(n)
  BY <1>9 DEF FeedFits, ToShow
<1>11. ASSUME NEW n \in Chan
       PROVE  /\ ~ast'[n].known => ast'[n] = Absent
              /\ n \in gone' => ~ast'[n].known
              /\ n \in saved => ast'[n].known \/ n \in gone'
  <2>1. CASE n = c
    <3>1. r.known \/ (r = Absent /\ c \in gone')
      BY <1>1, <1>5 DEF LiveEvent
    <3> QED
      BY <1>3, <1>6, <2>1, <3>1
  <2>2. CASE n # c
    BY <1>0, <1>3, <1>4, <2>2 DEF ChannelFits
  <2> QED
    BY <2>1, <2>2
<1> QED
  BY <1>1, <1>2, <1>3, <1>4, <1>6, <1>7, <1>8, <1>10, <1>11

\* An event that nobody hears.
LEMMA UnheardKeeps ==
  ASSUME ChannelsInv, NEW k \in Kind, NEW c \in Chan, NEW r \in Rec, ChannelEvent(k, c, r),
         LiveEvent(k, c, r) \/ (k = "hangup" /\ ast[c].known /\ r = Absent),
         amilink = "down"
  PROVE  ChannelsInv'
<1>0. /\ CoreOK /\ TasksFit /\ FeedFits
      /\ \A n \in Chan : ChannelFits(n)
  BY DEF ChannelsInv
<1>1. UNCHANGED <<mem, tasks, raced>>
  BY DEF ChannelEvent
<1>2. /\ ast' \in Snapshot /\ gone' \subseteq Chan /\ gone \subseteq gone'
      /\ \A n \in Chan : RealVars(n) => RealVars(n)'
      /\ said' \in 0 .. MaxEvents /\ FeedFits'
      /\ \A n \in Chan :
              /\ ~ast'[n].known => ast'[n] = Absent
              /\ n \in gone' => ~ast'[n].known
              /\ n \in saved => ast'[n].known \/ n \in gone'
      /\ UNCHANGED <<key, all, feed, amilink, tick, mishaps, saved>>
  BY AsteriskDoes
<1>3. CoreOK'
  BY <1>0, <1>1, <1>2 DEF CoreOK
<1>4. TasksFit'
  <2>1. \A i \in Id : tasks[i] # NoTask => tasks[i].chan \in Chan /\ Other(tasks[i].chan) \in Chan
    BY TaskFacts
  <2> QED
    BY <1>0, <1>1, <1>2, <2>1 DEF TasksFit, TaskFits
<1>5. ASSUME NEW n \in Chan PROVE ChannelFits(n)' /\ Follows(n)' /\ Survives(n)'
  BY <1>0, <1>1, <1>2 DEF ChannelFits, Follows, Survives
<1> QED
  BY <1>2, <1>3, <1>4, <1>5 DEF ChannelsInv

\* A call ends, and the listener hears it.
LEMMA HeardHangupKeeps ==
  ASSUME ChannelsInv, NEW c \in Chan, ChannelEvent("hangup", c, Absent),
         ast[c].known, amilink # "down"
  PROVE  ChannelsInv'
<1>0. /\ CoreOK /\ TasksFit /\ FeedFits
      /\ \A n \in Chan : ChannelFits(n) /\ Follows(n) /\ Survives(n)
  BY DEF ChannelsInv
<1>1. Absent \in Rec /\ Absent.data = 0 /\ Nobody \in Snapshot /\ "hangup" \in Kind /\ ~Absent.known
  BY DEF Absent, Rec, Nobody, Snapshot, Kind
<1>2. /\ ast' \in Snapshot /\ \A n \in Chan \ {c} : ast'[n] = ast[n]
      /\ gone' \subseteq Chan /\ gone \subseteq gone' /\ gone' \subseteq gone \cup {c}
      /\ \A n \in Chan : RealVars(n) => RealVars(n)'
      /\ said' \in 0 .. MaxEvents /\ FeedFits'
      /\ \A n \in Chan :
              /\ ~ast'[n].known => ast'[n] = Absent
              /\ n \in gone' => ~ast'[n].known
              /\ n \in saved => ast'[n].known \/ n \in gone'
      /\ UNCHANGED <<key, all, feed, amilink, tick, mishaps, saved>>
  BY <1>1, AsteriskDoes
<1>3. c \in gone'
  BY <1>1 DEF ChannelEvent
<1>4. PICK e \in Event : e = Ev("hangup", c, Absent.data) /\ e.kind = "hangup" /\ e.chan = c /\ e.data = 0
  <2>1. Ev("hangup", c, 0) \in Event /\ Ev("hangup", c, 0).kind = "hangup"
        /\ Ev("hangup", c, 0).chan = c /\ Ev("hangup", c, 0).data = 0
    BY DEF Ev, Event, Kind
  <2> QED
    BY <1>1, <2>1
<1>5. PICK i \in Id : Free(i) /\ Handler(i, e)
  BY <1>4 DEF ChannelEvent
<1>6. HandleHangup(i, e)
  BY <1>4, <1>5 DEF Handler, HandleNewchannel, HandleNewstate, HandleBridge, HandleDialEnd,
    HandleDialBegin, HandleNewexten, HandleVarset, HandleShow, HandleComplete
<1>7. PICK t \in Task : t = Waits(e, "publish", Nobody) /\ t # NoTask /\ t.kind = "hangup"
                        /\ t.at = "publish" /\ t.chan = c
  BY <1>1, <1>4, WaitsIsTask
<1>8. tasks[i] = NoTask /\ UNCHANGED <<mem, raced>> /\ tasks' = [tasks EXCEPT ![i] = t]
  BY <1>5, <1>6, <1>7 DEF Free, HandleHangup
<1>9. /\ tasks' \in [Id -> Task \cup {NoTask}]
      /\ tasks'[i] = t /\ \A j \in Id \ {i} : tasks'[j] = tasks[j]
  BY <1>0, <1>8 DEF CoreOK
<1>10. CoreOK'
  BY <1>0, <1>2, <1>8, <1>9 DEF CoreOK
<1>11. TasksFit'
  <2>1. TaskFits(t)'
    BY <1>3, <1>7 DEF TaskFits
  <2> QED
    BY <1>0, <1>2, <1>8, <2>1, FitStays DEF CoreOK
<1>12. ASSUME NEW n \in Chan PROVE ChannelFits(n)'
  BY <1>0, <1>2, <1>8 DEF ChannelFits
<1>13. ASSUME NEW n \in Chan \ {c} PROVE Follows(n)'
  <2>1. /\ Hanging(n) => Hanging(n)'
        /\ \A j \in Id : Has(j, "get", n)' => Has(j, "get", n) /\ tasks'[j].data = tasks[j].data
        /\ Getting(n) => Getting(n)'
    BY <1>7, <1>8, <1>9 DEF Hanging, Has, Getting
  <2>2. ToShow(n)' = ToShow(n)
    BY <1>2 DEF ToShow
  <2>3. ToList => ToList'
    BY <1>8, <1>9 DEF ToList
  <2>4. /\ amilink' = amilink /\ mem'[n] = mem[n] /\ ast'[n] = ast[n]
        /\ raced' = raced /\ gone \subseteq gone'
    BY <1>2, <1>8
  <2> QED
    BY <2>1, <2>2, <2>3, <2>4, ChannelStays
<1>14. Follows(c)' /\ Survives(c)'
  <2>1. Hanging(c)'
    BY <1>7, <1>9 DEF Hanging, Has
  <2> QED
    BY <1>3, <2>1 DEF Follows, Survives
<1>15. ASSUME NEW n \in Chan PROVE Survives(n)'
  <2>1. \A j \in Id : Writes(j, n)' => Writes(j, n) /\ tasks'[j].val = tasks[j].val
    BY <1>7, <1>9 DEF Writes, Has
  <2> QED
    BY <1>2, <1>8, <2>1, SavedStays
<1> QED
  BY <1>2, <1>10, <1>11, <1>12, <1>13, <1>14, <1>15 DEF ChannelsInv

\* A channel appears or changes, and the listener hears it.
LEMMA HeardKeeps ==
  ASSUME ChannelsInv, NEW k \in Kind, NEW c \in Chan, NEW r \in Rec, ChannelEvent(k, c, r),
         LiveEvent(k, c, r), amilink # "down"
  PROVE  ChannelsInv'
<1>0. /\ CoreOK /\ TasksFit /\ FeedFits
      /\ \A n \in Chan : ChannelFits(n) /\ Follows(n) /\ Survives(n)
  BY DEF ChannelsInv
<1>1. r.known /\ c \notin gone /\ k \in {"new", "state", "enter", "leave", "dialend", "dial", "exten", "var"}
  BY <1>0 DEF LiveEvent, ChannelFits
<1>2. /\ ast' \in Snapshot /\ ast'[c] = r /\ \A n \in Chan \ {c} : ast'[n] = ast[n]
      /\ \A n \in Chan : RealVars(n) => RealVars(n)'
      /\ said' \in 0 .. MaxEvents /\ FeedFits'
      /\ \A n \in Chan : ~ToShow(n)
      /\ \A n \in Chan :
              /\ ~ast'[n].known => ast'[n] = Absent
              /\ n \in gone' => ~ast'[n].known
              /\ n \in saved => ast'[n].known \/ n \in gone'
      /\ UNCHANGED <<key, all, feed, amilink, tick, mishaps, saved>>
  BY AsteriskDoes
<1>3. gone' = gone
  BY <1>1 DEF ChannelEvent
<1>4. PICK e \in Event : e = Ev(k, c, r.data) /\ e.kind = k /\ e.chan = c /\ e.data = r.data
  <2>1. r.data \in 0 .. 1
    BY RecParts
  <2>2. Ev(k, c, r.data) \in Event /\ Ev(k, c, r.data).kind = k
        /\ Ev(k, c, r.data).chan = c /\ Ev(k, c, r.data).data = r.data
    BY <2>1 DEF Ev, Event
  <2> QED
    BY <2>2
<1>5. PICK i \in Id : Free(i) /\ Handler(i, e)
  BY <1>4 DEF ChannelEvent
<1>6. tasks[i] = NoTask
  BY <1>5 DEF Free
<1>7. /\ raced' = IF Getting(c) THEN raced \cup {c} ELSE raced
      /\ \/ /\ mem' = mem /\ ~mem[c].known /\ k # "new"
            /\ \E t \in Task \cup {NoTask} :
                 /\ tasks' = [tasks EXCEPT ![i] = t]
                 /\ t # NoTask =>
                      /\ t.kind = k
                      /\ \/ t.at = "all"
                         \/ /\ t.at = "other" /\ t.kind = "dial" /\ mem[Other(t.chan)].known
                            /\ t.val[Other(t.chan)] = mem[Other(t.chan)]
         \/ \E q \in Rec :
              /\ mem' = [mem EXCEPT ![c] = q] /\ q.known
              /\ \/ k = "new" /\ q.data = r.data /\ ~q.vars
                 \/ k = "var" /\ mem[c].known /\ q.data = mem[c].data /\ q.vars
                 \/ k \in {"dial", "dialend"} /\ mem[c].known /\ q = mem[c]
                 \/ k \in {"state", "enter", "leave", "exten"} /\ mem[c].known
                    /\ q.data = r.data /\ q.vars = mem[c].vars
              /\ \E t \in Task :
                   /\ tasks' = [tasks EXCEPT ![i] = t]
                   /\ t # NoTask /\ t.kind = k /\ t.at = "key" /\ t.chan = c
                   /\ t.val[c] = q
  BY <1>1, <1>4, <1>5, <1>6, HandlerDoes
<1>8. raced' \subseteq Chan /\ raced \subseteq raced' /\ (c \notin raced' => ~Getting(c))
  BY <1>0, <1>7 DEF CoreOK
<1>9. CASE /\ mem' = mem /\ ~mem[c].known /\ k # "new"
           /\ \E t \in Task \cup {NoTask} :
                 /\ tasks' = [tasks EXCEPT ![i] = t]
                 /\ t # NoTask =>
                      /\ t.kind = k
                      /\ \/ t.at = "all"
                         \/ /\ t.at = "other" /\ t.kind = "dial" /\ mem[Other(t.chan)].known
                            /\ t.val[Other(t.chan)] = mem[Other(t.chan)]
  <2>1. PICK t \in Task \cup {NoTask} :
                 /\ tasks' = [tasks EXCEPT ![i] = t]
                 /\ t # NoTask =>
                      /\ t.kind = k
                      /\ \/ t.at = "all"
                         \/ /\ t.at = "other" /\ t.kind = "dial" /\ mem[Other(t.chan)].known
                            /\ t.val[Other(t.chan)] = mem[Other(t.chan)]
    BY <1>9
  <2>2. /\ tasks' \in [Id -> Task \cup {NoTask}]
        /\ tasks'[i] = t /\ \A j \in Id \ {i} : tasks'[j] = tasks[j]
    BY <1>0, <2>1 DEF CoreOK
  <2>3. CoreOK'
    BY <1>0, <1>2, <1>3, <1>8, <1>9, <2>2 DEF CoreOK
  <2>4. TasksFit'
    <3>1. t # NoTask => Other(t.chan) \in Chan
      BY TaskParts, OtherIsChan
    <3>2. TaskFits(t)'
      BY <1>0, <1>1, <1>2, <2>1, <3>1 DEF TaskFits, ChannelFits
    <3> QED
      BY <1>0, <1>2, <1>3, <2>1, <3>2, FitStays DEF CoreOK
  <2>5. ASSUME NEW n \in Chan PROVE ChannelFits(n)'
    BY <1>0, <1>2, <1>9 DEF ChannelFits
  <2>6. ASSUME NEW n \in Chan
        PROVE  /\ Hanging(n)' <=> Hanging(n)
               /\ \A j \in Id : Has(j, "get", n)' => Has(j, "get", n) /\ tasks'[j].data = tasks[j].data
               /\ Getting(n) => Getting(n)'
    BY <1>6, <2>1, <2>2 DEF Hanging, Has, Getting
  <2>7. ToList => ToList'
    BY <1>6, <2>2 DEF ToList
  <2>8. ASSUME NEW n \in Chan \ {c} PROVE Follows(n)'
    <3>1. /\ amilink' = amilink /\ mem'[n] = mem[n] /\ ast'[n] = ast[n] /\ ~ToShow(n)
          /\ raced \subseteq raced' /\ gone' = gone
      BY <1>2, <1>3, <1>8, <1>9
    <3> QED
      BY <2>6, <2>7, <3>1, ChannelStays
  <2>9. Follows(c)'
    <3>1. SUFFICES ASSUME amilink = "up", c \notin raced', ~Hanging(c)' PROVE Follows(c)'
      BY <1>2 DEF Follows
    <3>2. ~Getting(c) /\ c \notin raced /\ ~Hanging(c) /\ \A j \in Id : ~Has(j, "get", c)'
      BY <1>8, <2>6, <3>1 DEF Getting, Has
    <3>3. ToList
      BY <1>0, <1>1, <1>2, <1>9, <3>1, <3>2 DEF Follows, LiveEvent
    <3> QED
      BY <1>9, <2>7, <3>2, <3>3 DEF Follows
  <2>10. ASSUME NEW n \in Chan PROVE Survives(n)'
    <3>1. \A j \in Id : Writes(j, n)' =>
            \/ Writes(j, n) /\ tasks'[j].val = tasks[j].val
            \/ (tasks'[j].val[n] = mem[n] /\ mem[n].known)
      BY <2>1, <2>2 DEF Writes, Has
    <3> QED
      BY <1>2, <1>3, <1>8, <1>9, <3>1, SavedStays
  <2> QED
    BY <1>2, <2>3, <2>4, <2>5, <2>8, <2>9, <2>10 DEF ChannelsInv
<1>10. ASSUME NEW q \in Rec,
              /\ mem' = [mem EXCEPT ![c] = q] /\ q.known
              /\ \/ k = "new" /\ q.data = r.data /\ ~q.vars
                 \/ k = "var" /\ mem[c].known /\ q.data = mem[c].data /\ q.vars
                 \/ k \in {"dial", "dialend"} /\ mem[c].known /\ q = mem[c]
                 \/ k \in {"state", "enter", "leave", "exten"} /\ mem[c].known
                    /\ q.data = r.data /\ q.vars = mem[c].vars
              /\ \E t \in Task :
                   /\ tasks' = [tasks EXCEPT ![i] = t]
                   /\ t # NoTask /\ t.kind = k /\ t.at = "key" /\ t.chan = c
                   /\ t.val[c] = q
       PROVE  ChannelsInv'
  <2>1. PICK t \in Task :
                   /\ tasks' = [tasks EXCEPT ![i] = t]
                   /\ t # NoTask /\ t.kind = k /\ t.at = "key" /\ t.chan = c
                   /\ t.val[c] = q
    BY <1>10
  <2>2. /\ tasks' \in [Id -> Task \cup {NoTask}]
        /\ tasks'[i] = t /\ \A j \in Id \ {i} : tasks'[j] = tasks[j]
    BY <1>0, <2>1 DEF CoreOK
  <2>3. /\ mem' \in Snapshot /\ mem'[c] = q
        /\ \A n \in Chan \ {c} : mem'[n] = mem[n]
    BY <1>0, <1>10 DEF CoreOK, Snapshot
  <2>4. CoreOK'
    BY <1>0, <1>2, <1>3, <1>8, <2>2, <2>3 DEF CoreOK
  <2>5. q.vars => RealVars(c)'
    BY <1>0, <1>2, <1>10 DEF LiveEvent, ChannelFits, RealVars
  <2>6. TasksFit'
    <3>1. TaskFits(t)'
      BY <1>1, <2>1, <2>5 DEF TaskFits
    <3> QED
      BY <1>0, <1>2, <1>3, <2>1, <3>1, FitStays DEF CoreOK
  <2>7. ASSUME NEW n \in Chan PROVE ChannelFits(n)'
    BY <1>0, <1>2, <1>10, <2>3, <2>5 DEF ChannelFits
  <2>8. ASSUME NEW n \in Chan
        PROVE  /\ Hanging(n)' <=> Hanging(n)
               /\ \A j \in Id : Has(j, "get", n)' => Has(j, "get", n) /\ tasks'[j].data = tasks[j].data
               /\ Getting(n) => Getting(n)'
    BY <1>6, <2>1, <2>2 DEF Hanging, Has, Getting
  <2>9. ToList => ToList'
    BY <1>6, <2>2 DEF ToList
  <2>10. ASSUME NEW n \in Chan \ {c} PROVE Follows(n)' /\ Survives(n)'
    <3>1. /\ amilink' = amilink /\ mem'[n] = mem[n] /\ ast'[n] = ast[n] /\ ~ToShow(n)
          /\ raced \subseteq raced' /\ gone' = gone /\ key' = key /\ saved' = saved
      BY <1>2, <1>3, <1>8, <2>3
    <3>2. \A j \in Id : Writes(j, n)' => Writes(j, n) /\ tasks'[j].val = tasks[j].val
      BY <2>1, <2>2 DEF Writes, Has
    <3>3. Follows(n)'
      BY <2>8, <2>9, <3>1, ChannelStays
    <3>4. Survives(n)'
      BY <3>1, <3>2, SavedStays
    <3> QED
      BY <3>3, <3>4
  <2>11. Follows(c)'
    <3>1. SUFFICES ASSUME amilink = "up", c \notin raced', ~Hanging(c)' PROVE Follows(c)'
      BY <1>2 DEF Follows
    <3>2. ~Getting(c) /\ c \notin raced /\ ~Hanging(c) /\ \A j \in Id : ~Has(j, "get", c)'
      BY <1>8, <2>8, <3>1 DEF Getting, Has
    <3>3. q.data = r.data
      BY <1>0, <1>10, <3>1, <3>2 DEF Follows, LiveEvent
    <3> QED
      BY <1>1, <1>2, <1>10, <2>3, <3>2, <3>3 DEF Follows
  <2>12. Survives(c)'
    <3>1. SUFFICES ASSUME amilink = "up", c \in saved, c \notin raced PROVE Survives(c)'
      BY <1>2, <1>8 DEF Survives
    <3>2. k # "new"
      BY <1>0, <1>1, <3>1 DEF ChannelFits, LiveEvent
    <3>3. q.vars /\ \A j \in Id : Writes(j, c) => tasks[j].val[c].vars
      BY <1>0, <1>1, <1>10, <3>1, <3>2 DEF Survives
    <3>4. \A j \in Id : Writes(j, c)' => tasks'[j].val[c].vars
      <4>1. ASSUME NEW j \in Id, Writes(j, c)' PROVE tasks'[j].val[c].vars
        <5>1. CASE j = i
          BY <2>1, <2>2, <3>3, <5>1
        <5>2. CASE j # i
          BY <2>2, <3>3, <4>1, <5>2 DEF Writes, Has
        <5> QED
          BY <5>1, <5>2
      <4> QED
        BY <4>1
    <3> QED
      BY <1>10, <2>3, <3>3, <3>4 DEF Survives
  <2> QED
    BY <1>2, <2>4, <2>6, <2>7, <2>10, <2>11, <2>12 DEF ChannelsInv
<1> QED
  BY <1>7, <1>9, <1>10

\* What the invariant says of one channel in Asterisk.
LEMMA AstParts ==
  ASSUME ChannelsInv, NEW c \in Chan
  PROVE  /\ ast[c] \in Rec /\ mem[c] \in Rec /\ key[c] \in Rec
         /\ ~ast[c].known => c \notin saved \/ c \in gone
         /\ c \in gone => ~ast[c].known
  BY DEF ChannelsInv, CoreOK, ChannelFits, Snapshot

\* Something happens in Asterisk to a channel that stays.
LEMMA LiveEventKeeps ==
  ASSUME ChannelsInv, NEW k \in Kind, NEW c \in Chan, NEW r \in Rec, ChannelEvent(k, c, r),
         LiveEvent(k, c, r)
  PROVE  ChannelsInv'
<1>1. CASE amilink = "down"
  BY <1>1, UnheardKeeps
<1>2. CASE amilink # "down"
  BY <1>2, HeardKeeps
<1> QED
  BY <1>1, <1>2

\* A call begins.
LEMMA AppearsKeeps == ASSUME ChannelsInv, NEW c \in Chan, Appears(c) PROVE ChannelsInv'
<1>1. PICK r \in Rec : r = [Absent EXCEPT !.known = TRUE] /\ r.known /\ ~r.vars
  <2>1. PICK a \in Rec : a = Absent /\ ~a.vars
    <3>1. Absent \in Rec /\ ~Absent.vars
      BY DEF Absent, Rec
    <3> QED
      BY <3>1
  <2>2. [a EXCEPT !.known = TRUE] \in Rec /\ [a EXCEPT !.known = TRUE].known
        /\ [a EXCEPT !.known = TRUE].vars = a.vars
    BY DEF Rec
  <2> QED
    BY <2>1, <2>2
<1>2. ~ast[c].known /\ c \notin gone /\ ChannelEvent("new", c, r)
  BY <1>1 DEF Appears
<1>3. LiveEvent("new", c, r) /\ "new" \in Kind
  BY <1>1, <1>2 DEF LiveEvent, Kind
<1> QED
  BY <1>2, <1>3, LiveEventKeeps

\* The state of a call changes.
LEMMA ChangesKeeps == ASSUME ChannelsInv, NEW c \in Chan, Changes(c) PROVE ChannelsInv'
<1>1. PICK a \in Rec : a = ast[c]
  BY AstParts
<1>2. PICK r \in Rec : r = [ast[c] EXCEPT !.data = 1 - @] /\ r.known = a.known /\ r.vars = a.vars
  <2>1. [a EXCEPT !.data = 1 - @] \in Rec /\ [a EXCEPT !.data = 1 - @].known = a.known
        /\ [a EXCEPT !.data = 1 - @].vars = a.vars
    BY DEF Rec
  <2> QED
    BY <1>1, <2>1
<1>3. PICK k \in {"state", "enter", "leave", "exten"} : ChannelEvent(k, c, r)
  BY <1>2 DEF Changes
<1>4. LiveEvent(k, c, r) /\ k \in Kind
  BY <1>1, <1>2, <1>3 DEF LiveEvent, Kind, Changes
<1> QED
  BY <1>3, <1>4, LiveEventKeeps

\* A channel dials another, or its dialling ends.
LEMMA DialsKeeps == ASSUME ChannelsInv, NEW c \in Chan, Dials(c) \/ EndsDial(c) PROVE ChannelsInv'
<1>1. PICK a \in Rec : a = ast[c] /\ a.known
  BY AstParts DEF Dials, EndsDial
<1>2. PICK k \in {"dial", "dialend"} : ChannelEvent(k, c, a)
  BY <1>1 DEF Dials, EndsDial
<1>3. LiveEvent(k, c, a) /\ k \in Kind
  BY <1>1, <1>2 DEF LiveEvent, Kind
<1> QED
  BY <1>2, <1>3, LiveEventKeeps

\* A channel variable is set.
LEMMA SetsVariableKeeps ==
  ASSUME ChannelsInv, NEW c \in Chan, SetsVariable(c) PROVE ChannelsInv'
<1>1. PICK a \in Rec : a = ast[c]
  BY AstParts
<1>2. PICK r \in Rec : /\ r = [ast[c] EXCEPT !.vars = TRUE]
                       /\ r.known = a.known /\ r.data = a.data /\ r.vars
  <2>1. [a EXCEPT !.vars = TRUE] \in Rec /\ [a EXCEPT !.vars = TRUE].known = a.known
        /\ [a EXCEPT !.vars = TRUE].data = a.data /\ [a EXCEPT !.vars = TRUE].vars
    BY DEF Rec
  <2> QED
    BY <1>1, <2>1
<1>3. LiveEvent("var", c, r) /\ "var" \in Kind /\ ChannelEvent("var", c, r)
  BY <1>1, <1>2 DEF LiveEvent, Kind, SetsVariable
<1> QED
  BY <1>3, LiveEventKeeps

\* A call ends.
LEMMA HangsUpKeeps == ASSUME ChannelsInv, NEW c \in Chan, HangsUp(c) PROVE ChannelsInv'
<1>1. Absent \in Rec /\ "hangup" \in Kind
  BY DEF Absent, Rec, Kind
<1>2. ast[c].known /\ ChannelEvent("hangup", c, Absent)
  BY DEF HangsUp
<1>3. CASE amilink = "down"
  BY <1>1, <1>2, <1>3, UnheardKeeps
<1>4. CASE amilink # "down"
  BY <1>2, <1>4, HeardHangupKeeps
<1> QED
  BY <1>3, <1>4

\* A step that leaves alone Asterisk, the memory, the tasks and the answer, and loses
\* a key only with what is said of it.
LEMMA StillKeeps ==
  ASSUME ChannelsInv, CoreOK',
         UNCHANGED <<ast, gone, mem, feed, tasks, said, raced>>,
         amilink' = "up" => amilink = "up",
         saved' \subseteq saved,
         \A n \in Chan : key'[n] = key[n] \/ (n \notin saved' /\ ~key'[n].vars)
  PROVE  ChannelsInv'
<1>1. /\ TasksFit /\ FeedFits
      /\ \A n \in Chan : ChannelFits(n) /\ Follows(n) /\ Survives(n)
  BY DEF ChannelsInv
<1>2. TasksFit'
  BY <1>1 DEF TasksFit, TaskFits, RealVars
<1>3. FeedFits'
  BY <1>1 DEF FeedFits
<1>4. ASSUME NEW n \in Chan PROVE ChannelFits(n)'
  BY <1>1 DEF ChannelFits, RealVars
<1>5. ASSUME NEW n \in Chan PROVE Follows(n)'
  <2>1. /\ Hanging(n)' = Hanging(n) /\ Getting(n)' = Getting(n) /\ ToList' = ToList
        /\ ToShow(n)' = ToShow(n) /\ \A i \in Id : Has(i, "get", n)' = Has(i, "get", n)
    BY DEF Hanging, Getting, ToList, ToShow, Has
  <2> QED
    BY <1>1, <2>1 DEF Follows
<1>6. ASSUME NEW n \in Chan PROVE Survives(n)'
  <2>1. \A i \in Id : Writes(i, n)' = Writes(i, n)
    BY DEF Writes, Has
  <2> QED
    BY <1>1, <2>1 DEF Survives
<1> QED
  BY <1>2, <1>3, <1>4, <1>5, <1>6 DEF ChannelsInv

\* A key expires.
LEMMA KeyExpiresKeeps == ASSUME ChannelsInv, NEW c \in Chan, KeyExpires(c) PROVE ChannelsInv'
<1>1. CoreOK
  BY DEF ChannelsInv
<1>2. Absent \in Rec /\ ~Absent.vars
  BY DEF Absent, Rec
<1>3. /\ key' = [key EXCEPT ![c] = Absent] /\ saved' = saved \ {c} /\ Mishap
      /\ UNCHANGED <<ast, gone, mem, all, feed, amilink, tasks, tick, said, raced>>
  BY DEF KeyExpires
<1>4. CoreOK'
  <2>1. key' \in Snapshot /\ mishaps' \in 0 .. MaxMishaps
    BY <1>1, <1>2, <1>3, MishapCounts DEF CoreOK, Snapshot
  <2> QED
    BY <1>1, <1>3, <2>1 DEF CoreOK
<1>5. \A n \in Chan : key'[n] = key[n] \/ (n \notin saved' /\ ~key'[n].vars)
  BY <1>1, <1>2, <1>3 DEF CoreOK, Snapshot
<1> QED
  BY <1>3, <1>4, <1>5, StillKeeps

\* The health check sends its write of the snapshot, and Redis answers.
LEMMA TicksKeep == ASSUME ChannelsInv, Tick \/ TickWritten PROVE ChannelsInv'
<1>1. CoreOK
  BY DEF ChannelsInv
<1>2. UNCHANGED <<ast, gone, mem, key, feed, amilink, tasks, said, raced, saved>>
  BY DEF Tick, TickWritten
<1>3. CoreOK'
  <2>1. CASE Tick
    BY <1>1, <2>1 DEF Tick, CoreOK
  <2>2. CASE TickWritten
    <3>1. /\ tick # NoTick /\ tick' = NoTick /\ (all' = tick.snap \/ all' = all)
          /\ (Mishap \/ UNCHANGED mishaps)
      BY <2>2 DEF TickWritten
    <3>2. tick.snap \in Snapshot
      BY <1>1, <3>1 DEF CoreOK
    <3> QED
      BY <1>1, <1>2, <3>1, <3>2, MishapCounts DEF CoreOK
  <2> QED
    BY <2>1, <2>2
<1> QED
  BY <1>2, <1>3, StillKeeps

\* The connection is lost, or it is back and the event listener is attached.
LEMMA LinkKeeps == ASSUME ChannelsInv, Drop \/ Attach PROVE ChannelsInv'
<1>1. CoreOK
  BY DEF ChannelsInv
<1>2. /\ UNCHANGED <<ast, gone, mem, key, all, feed, tasks, tick, said, raced, saved>>
      /\ amilink' \in {"down", "joining"} /\ (Mishap \/ UNCHANGED mishaps)
  BY DEF Drop, Attach
<1>3. CoreOK'
  BY <1>1, <1>2, MishapCounts DEF CoreOK
<1> QED
  BY <1>2, <1>3, StillKeeps

\* The channels whose variables the reset must keep: their keys have them, and no
\* task writes them.
LEMMA KeptAre ==
  ASSUME ChannelsInv, NEW c \in Kept
  PROVE  /\ c \in Chan /\ ast[c].known /\ key[c].vars
         /\ \A i \in Id : ~Writes(i, c)
<1>1. c \in Chan /\ ast[c].known /\ key[c].vars /\ ~InFlight(c)
  BY DEF Kept
<1>2. ASSUME NEW i \in Id, Writes(i, c) PROVE FALSE
  <2>1. CASE Has(i, "key", c)
    BY <1>1, <2>1 DEF Has, InFlight
  <2>2. CASE tasks[i] # NoTask /\ tasks[i].at = "other"
    <3>1. tasks[i].kind = "dial"
      BY <2>2, TaskFacts DEF TaskFits
    <3> QED
      BY <1>1, <2>2, <3>1 DEF InFlight
  <2> QED
    BY <1>2, <2>1, <2>2 DEF Writes
<1> QED
  BY <1>1, <1>2

\* _on_reconnected clears the memory: a list is asked for, and the keys that the
\* memory will be rebuilt from are as they should be.
LEMMA ResetKeeps == ASSUME ChannelsInv, Announce PROVE ChannelsInv'
<1>0. /\ CoreOK /\ TasksFit /\ FeedFits
      /\ \A n \in Chan : ChannelFits(n)
  BY DEF ChannelsInv
<1>1. PICK i \in Id, c \in Chan : Free(i) /\ HandleReset(i, Ev("reset", c, 0))
  BY DEF Announce
<1>2. PICK e \in Event : e = Ev("reset", c, 0) /\ e.kind = "reset"
  <2>1. Ev("reset", c, 0) \in Event /\ Ev("reset", c, 0).kind = "reset"
    BY DEF Ev, Event, Kind
  <2> QED
    BY <2>1
<1>3. Nobody \in Snapshot /\ \A n \in Chan : Nobody[n] = Absent /\ ~Absent.known /\ ~Absent.vars
  BY DEF Nobody, Absent, Snapshot, Rec
<1>4. PICK t \in Task : t = Waits(e, "all", Nobody) /\ t # NoTask /\ t.kind = "reset" /\ t.at = "all"
  <2>1. e.kind \in Kind /\ e.chan \in Chan /\ e.data \in 0 .. 1
    BY DEF Event
  <2> QED
    BY <1>2, <1>3, <2>1, WaitsIsTask
<1>5. /\ mem' = Nobody /\ tasks' = [tasks EXCEPT ![i] = t] /\ saved' = Kept
      /\ raced' = raced \cup {n \in Chan : Getting(n)} /\ tasks[i] = NoTask
  BY <1>1, <1>2, <1>4 DEF HandleReset, Free
<1>6. UNCHANGED <<ast, gone, key, all, feed, tick, said, mishaps>> /\ amilink' = "up"
  BY DEF Announce
<1>7. /\ tasks' \in [Id -> Task \cup {NoTask}]
      /\ tasks'[i] = t /\ \A j \in Id \ {i} : tasks'[j] = tasks[j]
  BY <1>0, <1>5 DEF CoreOK
<1>8. CoreOK'
  <2>1. Kept \subseteq Chan
    BY DEF Kept
  <2> QED
    BY <1>0, <1>3, <1>5, <1>6, <1>7, <2>1 DEF CoreOK
<1>9. TasksFit'
  <2>1. TaskFits(t)'
    BY <1>4 DEF TaskFits
  <2>2. \A n \in Chan : RealVars(n) => RealVars(n)'
    BY <1>6 DEF RealVars
  <2> QED
    BY <1>0, <1>5, <1>6, <2>1, <2>2, FitStays DEF CoreOK
<1>10. FeedFits'
  BY <1>0, <1>6 DEF FeedFits
<1>11. ASSUME NEW n \in Chan PROVE ChannelFits(n)'
  <2>1. n \in saved' => ast[n].known
    BY <1>5, KeptAre
  <2> QED
    BY <1>0, <1>3, <1>5, <1>6, <2>1 DEF ChannelFits, RealVars
<1>12. ASSUME NEW n \in Chan PROVE Follows(n)'
  <2>1. ToList'
    BY <1>4, <1>7 DEF ToList
  <2>2. \A j \in Id : Has(j, "get", n)' => n \in raced'
    BY <1>4, <1>5, <1>7 DEF Has, Getting
  <2> QED
    BY <1>3, <1>5, <2>1, <2>2 DEF Follows
<1>13. ASSUME NEW n \in Chan PROVE Survives(n)'
  <2>1. n \in saved' => key[n].vars /\ \A j \in Id : ~Writes(j, n)
    BY <1>5, KeptAre
  <2>2. \A j \in Id : Writes(j, n)' => Writes(j, n)
    BY <1>4, <1>7 DEF Writes, Has
  <2> QED
    BY <1>3, <1>5, <1>6, <2>1, <2>2 DEF Survives
<1> QED
  BY <1>8, <1>9, <1>10, <1>11, <1>12, <1>13 DEF ChannelsInv

\* The listener is started again with an empty memory, and asks for the list.
LEMMA RestartKeeps == ASSUME ChannelsInv, Crash PROVE ChannelsInv'
<1>0. /\ CoreOK /\ TasksFit /\ FeedFits
      /\ \A n \in Chan : ChannelFits(n)
  BY DEF ChannelsInv
<1>1. PICK c \in Chan : tasks' = [[i \in Id |-> NoTask] EXCEPT ![1] = Waits(Ev("start", c, 0),
                                                          "list", Nobody)]
  BY DEF Crash
<1>2. PICK e \in Event : e = Ev("start", c, 0) /\ e.kind = "start"
  <2>1. Ev("start", c, 0) \in Event /\ Ev("start", c, 0).kind = "start"
    BY DEF Ev, Event, Kind
  <2> QED
    BY <2>1
<1>3. Nobody \in Snapshot /\ \A n \in Chan : Nobody[n] = Absent /\ ~Absent.known /\ ~Absent.vars
  BY DEF Nobody, Absent, Snapshot, Rec
<1>4. PICK t \in Task : t = Waits(e, "list", Nobody) /\ t # NoTask /\ t.kind = "start" /\ t.at = "list"
  <2>1. e.kind \in Kind /\ e.chan \in Chan /\ e.data \in 0 .. 1
    BY DEF Event
  <2> QED
    BY <1>2, <1>3, <2>1, WaitsIsTask
<1>5. 1 \in Id
  BY ChannelsAssumption DEF Id
<1>6. /\ mem' = Nobody /\ feed' = <<>> /\ amilink' = "up" /\ tick' = NoTick
      /\ saved' = Kept /\ raced' = {} /\ Mishap
      /\ UNCHANGED <<ast, gone, key, all, said>>
  BY DEF Crash
<1>7. /\ tasks' = [[i \in Id |-> NoTask] EXCEPT ![1] = t]
  BY <1>1, <1>2, <1>4
<1>8. /\ tasks' \in [Id -> Task \cup {NoTask}]
      /\ tasks'[1] = t /\ \A j \in Id \ {1} : tasks'[j] = NoTask
  BY <1>5, <1>7
<1>9. CoreOK'
  <2>1. Kept \subseteq Chan /\ mishaps' \in 0 .. MaxMishaps
    BY <1>0, <1>6, MishapCounts DEF Kept
  <2>2. feed' \in Seq(Event) /\ tick' \in [on : {TRUE}, snap : Snapshot] \cup {NoTick}
    BY <1>6
  <2> QED
    BY <1>0, <1>3, <1>6, <1>8, <2>1, <2>2 DEF CoreOK
<1>10. TasksFit'
  <2>1. TaskFits(t)'
    BY <1>4 DEF TaskFits
  <2>2. TaskFits(NoTask)'
    BY DEF TaskFits
  <2>3. ASSUME NEW j \in Id PROVE TaskFits(tasks[j])'
    <3>1. CASE j = 1
      BY <1>4, <1>8, <3>1 DEF TaskFits
    <3>2. CASE j # 1
      BY <1>8, <3>2 DEF TaskFits
    <3> QED
      BY <3>1, <3>2
  <2> QED
    BY <2>3 DEF TasksFit
<1>11. FeedFits'
  <2>1. Len(feed') = 0
    BY <1>6
  <2> QED
    BY <2>1 DEF FeedFits
<1>12. ASSUME NEW n \in Chan PROVE ChannelFits(n)'
  <2>1. n \in saved' => ast[n].known
    BY <1>6, KeptAre
  <2> QED
    BY <1>0, <1>3, <1>6, <2>1 DEF ChannelFits, RealVars
<1>13. ASSUME NEW n \in Chan PROVE Follows(n)'
  <2>1. ToList'
    BY <1>4, <1>5, <1>8 DEF ToList
  <2>2. \A j \in Id : ~Has(j, "get", n)'
    BY <1>4, <1>8 DEF Has
  <2> QED
    BY <1>3, <1>6, <2>1, <2>2 DEF Follows
<1>14. ASSUME NEW n \in Chan PROVE Survives(n)'
  <2>1. n \in saved' => key[n].vars
    BY <1>6, KeptAre
  <2>2. \A j \in Id : ~Writes(j, n)'
    BY <1>4, <1>8 DEF Writes, Has
  <2> QED
    BY <1>3, <1>6, <2>1, <2>2 DEF Survives
<1> QED
  BY <1>9, <1>10, <1>11, <1>12, <1>13, <1>14 DEF ChannelsInv

\* A step that is no step.
LEMMA ChannelsStutter == ASSUME ChannelsInv, UNCHANGED chanVars PROVE ChannelsInv'
<1>1. CoreOK
  BY DEF ChannelsInv
<1>2. CoreOK'
  BY <1>1 DEF chanVars, CoreOK
<1> QED
  BY <1>2, StillKeeps DEF chanVars

\* A step of a task.
LEMMA TaskStepKeeps == ASSUME ChannelsInv, NEW i \in Id, TaskStep(i) PROVE ChannelsInv'
  BY TaskStartKeeps, KeyWrittenKeeps, OtherWrittenKeeps, SnapshotWrittenKeeps, ForgetKeeps,
     KeyDeletedKeeps, RestoreKeeps, ListKeeps DEF TaskStep

\* No step of the listener, of Redis or of Asterisk breaks the invariant.
LEMMA ChannelsStep == ChannelsInv /\ [ChannelsNext]_chanVars => ChannelsInv'
<1> SUFFICES ASSUME ChannelsInv, [ChannelsNext]_chanVars PROVE ChannelsInv'
  OBVIOUS
<1>1. CASE \E c \in Chan : \/ Appears(c) \/ Changes(c) \/ Dials(c) \/ EndsDial(c)
                           \/ SetsVariable(c) \/ HangsUp(c) \/ KeyExpires(c)
  BY <1>1, AppearsKeeps, ChangesKeeps, DialsKeeps, SetsVariableKeeps, HangsUpKeeps,
     KeyExpiresKeeps
<1>2. CASE \E i \in Id : TaskStep(i)
  BY <1>2, TaskStepKeeps
<1>3. CASE Tick \/ TickWritten
  BY <1>3, TicksKeep
<1>4. CASE Drop \/ Attach
  BY <1>4, LinkKeeps
<1>5. CASE Announce
  BY <1>5, ResetKeeps
<1>6. CASE Crash
  BY <1>6, RestartKeeps
<1>7. CASE UNCHANGED chanVars
  BY <1>7, ChannelsStutter
<1> QED
  BY <1>1, <1>2, <1>3, <1>4, <1>5, <1>6, <1>7 DEF ChannelsNext

\* A start at which the memory, the keys and the snapshot are what Asterisk has.
LEMMA ChannelsStartWell == ASSUME NEW s, ChannelsFrom(s) PROVE ChannelsInv
<1> USE DEF ChannelsFrom
<1>1. \A i \in Id : tasks[i] = NoTask
  OBVIOUS
<1>2. CoreOK
  BY ChannelsAssumption DEF CoreOK
<1>3. TasksFit
  BY <1>1 DEF TasksFit, TaskFits
<1>4. FeedFits
  <2>1. Len(feed) = 0
    OBVIOUS
  <2> QED
    BY <2>1 DEF FeedFits
<1>5. ASSUME NEW n \in Chan PROVE ChannelFits(n) /\ Follows(n) /\ Survives(n)
  BY <1>1 DEF ChannelFits, Follows, Survives, RealVars, Has
<1> QED
  BY <1>2, <1>3, <1>4, <1>5 DEF ChannelsInv

\* The service starts on a quiet exchange.
LEMMA ChannelsInitWell == ChannelsInit => ChannelsInv
<1> SUFFICES ASSUME ChannelsInit PROVE ChannelsInv
  OBVIOUS
<1>1. PICK s \in Snapshot : ChannelsFrom(s)
  BY DEF ChannelsInit, ChannelsFrom
<1> QED
  BY <1>1, ChannelsStartWell

-----------------------------------------------------------------------------
(* What of the channels only their own events tell. *)

\* A dialling whose other channel has not had its dialed_by yet.
Dialling(i, c) == /\ tasks[i] # NoTask /\ tasks[i].kind = "dial" /\ tasks[i].at = "key"
                  /\ Other(tasks[i].chan) = c
Owes(c) == \E i \in Id : Dialling(i, c)

\* A channel that has been there since the memory was last cleared is known, with its
\* variables and all that was told of it, but for the dialed_by that a task is to add.
Whole(c) ==
  amilink = "up" /\ c \notin raced /\ c \notin wiped /\ ast[c].known
    => /\ mem[c].known /\ mem[c].vars = ast[c].vars
       /\ \A f \in news[c] : f \in heard[c] \/ (f = "dialed_by" /\ Owes(c))

HeardTypes ==
  /\ news \in [Chan -> SUBSET Field]
  /\ heard \in [Chan -> SUBSET Field]
  /\ wiped \subseteq Chan

HeardInv ==
  /\ HeardTypes
  /\ \A c \in Chan : /\ heard[c] \subseteq news[c]
                     /\ Owes(c) => "dialed_by" \in news[c]
                     /\ news[c] # {} => ast[c].known \/ c \in gone
                     /\ Whole(c)

\* A channel is as whole as before if nothing of it has changed for the worse.
LEMMA WholeStays ==
  ASSUME NEW n \in Chan, Whole(n),
         amilink' = "up" => amilink = "up",
         n \in raced => n \in raced', n \in wiped => n \in wiped',
         ast'[n].known => ast[n].known /\ ast'[n].vars = ast[n].vars,
         mem[n].known => mem'[n].known /\ mem'[n].vars = mem[n].vars,
         news'[n] = news[n], heard[n] \subseteq heard'[n],
         Owes(n) => Owes(n)' \/ "dialed_by" \in heard'[n] \/ ~mem[n].known
  PROVE  Whole(n)'
  BY DEF Whole

\* A step of task i after which it is not a dialling, that changes neither Asterisk nor
\* what is told.
LEMMA QuietTask ==
  ASSUME HeardInv, NEW i \in Id, NEW t, tasks \in [Id -> Task \cup {NoTask}],
         tasks' = [tasks EXCEPT ![i] = t], ~(t # NoTask /\ t.kind = "dial" /\ t.at = "key"),
         ~(tasks[i] # NoTask /\ tasks[i].kind = "dial" /\ tasks[i].at = "key"),
         UNCHANGED <<ast, gone, mem, news, heard, amilink, wiped>>, raced \subseteq raced'
  PROVE  HeardInv'
<1>1. tasks'[i] = t /\ \A j \in Id \ {i} : tasks'[j] = tasks[j]
  OBVIOUS
<1>2. \A n \in Chan : Owes(n)' <=> Owes(n)
  BY <1>1 DEF Owes, Dialling
<1>3. \A n \in Chan : Whole(n)'
  BY <1>2, WholeStays DEF HeardInv
<1> QED
  BY <1>2, <1>3 DEF HeardInv, HeardTypes

\* Start, OtherWritten, SnapshotWritten, KeyDeleted, List: no dialling is touched.
LEMMA WritesHear ==
  ASSUME ChannelsInv, HeardInv, NEW i \in Id,
         OtherWritten(i) \/ SnapshotWritten(i) \/ KeyDeleted(i) \/ List(i)
  PROVE  HeardInv'
<1>1. PICK t : tasks' = [tasks EXCEPT ![i] = t] /\ ~(t # NoTask /\ t.kind = "dial" /\ t.at = "key")
  <2>1. \A e, v : Waits(e, "all", v).at = "all" /\ Waits(e, "list", v).at = "list"
    BY DEF Waits
  <2>2. CASE OtherWritten(i)
    BY <2>1, <2>2 DEF OtherWritten
  <2>3. CASE SnapshotWritten(i)
    BY <2>1, <2>3 DEF SnapshotWritten
  <2>4. CASE KeyDeleted(i)
    BY <2>1, <2>4 DEF KeyDeleted, ChannelsInv, CoreOK
  <2>5. CASE List(i)
    BY <2>1, <2>5 DEF List, ChannelsInv, CoreOK
  <2> QED
    BY <2>2, <2>3, <2>4, <2>5
<1>2. /\ tasks[i].at # "key" /\ raced' = raced
      /\ UNCHANGED <<ast, gone, mem, news, heard, amilink, wiped>>
  BY DEF OtherWritten, SnapshotWritten, KeyDeleted, List
<1>3. tasks \in [Id -> Task \cup {NoTask}]
  BY DEF ChannelsInv, CoreOK
<1> QED
  BY <1>1, <1>2, <1>3, QuietTask

LEMMA StartHears ==
  ASSUME ChannelsInv, HeardInv, NEW i \in Id, Start(i)
  PROVE  HeardInv'
<1>1. tasks \in [Id -> Task \cup {NoTask}] /\ feed \in Seq(Event) /\ FeedFits
  BY DEF ChannelsInv, CoreOK
<1>2. PICK e : e = Head(feed) /\ e.kind \in {"show", "complete"} /\ Handler(i, e)
  BY <1>1, RestIs DEF FeedFits, Start
<1>3. HandleShow(i, e) \/ HandleComplete(i, e)
  BY <1>2 DEF Handler, HandleNewchannel, HandleNewstate, HandleBridge, HandleDialEnd,
    HandleDialBegin, HandleNewexten, HandleVarset, HandleHangup
<1>4. tasks[i] = NoTask /\ UNCHANGED <<ast, gone, mem, news, heard, amilink, wiped, raced>>
  BY <1>3 DEF Start, Free, HandleShow, HandleComplete
<1>5. PICK t : tasks' = [tasks EXCEPT ![i] = t] /\ ~(t # NoTask /\ t.kind = "dial" /\ t.at = "key")
  <2>1. \A v : Waits(e, "all", v).at = "all" /\ Waits(e, "get", v).at = "get"
    BY DEF Waits
  <2>2. tasks = [tasks EXCEPT ![i] = NoTask]
    BY <1>1, <1>4
  <2> QED
    BY <1>3, <2>1, <2>2 DEF HandleShow, HandleComplete
<1> QED
  BY <1>1, <1>4, <1>5, QuietTask

\* KeyWritten: handle_dial_begin goes on to the channel that is dialled.
LEMMA KeyWrittenHears ==
  ASSUME ChannelsInv, HeardInv, NEW i \in Id, KeyWritten(i)
  PROVE  HeardInv'
<1>1. PICK u \in Task : u = tasks[i] /\ u.at = "key" /\ u # NoTask /\ u.chan \in Chan
  BY TaskFacts DEF KeyWritten
<1>2. PICK t : tasks' = [tasks EXCEPT ![i] = t] /\ ~(t # NoTask /\ t.kind = "dial" /\ t.at = "key")
  <2>1. AfterKey(u) = NoTask \/ AfterKey(u).at \in {"all", "other"}
    BY DEF AfterKey, WriteOther, Waits
  <2> QED
    BY <1>1, <2>1 DEF KeyWritten
<1>3. /\ tasks \in [Id -> Task \cup {NoTask}]
      /\ UNCHANGED <<ast, gone, mem, news, amilink, wiped, raced>>
      /\ heard' = IF u.kind = "dial" THEN DialedBy(u) ELSE heard
  BY <1>1 DEF ChannelsInv, CoreOK, KeyWritten
<1>4. CASE u.kind # "dial"
  BY <1>1, <1>2, <1>3, <1>4, QuietTask
<1>5. CASE u.kind = "dial"
  <2>1. PICK d \in Chan : d = Other(u.chan)
    BY <1>1, OtherIsChan
  <2>2. heard' = [heard EXCEPT ![d] = IF mem[d].known THEN @ \cup {"dialed_by"} ELSE @]
    BY <1>3, <1>5, <2>1 DEF DialedBy
  <2>3. heard \in [Chan -> SUBSET Field] /\ "dialed_by" \in Field
    BY DEF HeardInv, HeardTypes, Field
  <2>4. /\ heard' \in [Chan -> SUBSET Field]
        /\ heard'[d] = IF mem[d].known THEN heard[d] \cup {"dialed_by"} ELSE heard[d]
        /\ \A n \in Chan \ {d} : heard'[n] = heard[n]
    BY <2>2, <2>3
  <2>5. Dialling(i, d) /\ "dialed_by" \in news[d]
    BY <1>1, <1>5, <2>1 DEF Dialling, Owes, HeardInv
  <2>6. tasks'[i] = t /\ \A j \in Id \ {i} : tasks'[j] = tasks[j]
    BY <1>2, <1>3
  <2>7. \A n \in Chan : Owes(n)' => Owes(n)
    BY <1>2, <2>6 DEF Owes, Dialling
  <2>8. \A n \in Chan \ {d} : Owes(n) => Owes(n)'
    BY <1>1, <2>1, <2>6 DEF Owes, Dialling
  <2>9. ASSUME NEW n \in Chan PROVE Whole(n)'
    <3>1. Whole(n)
      BY DEF HeardInv
    <3>2. heard[n] \subseteq heard'[n]
          /\ (Owes(n) => Owes(n)' \/ "dialed_by" \in heard'[n] \/ ~mem[n].known)
      BY <2>4, <2>8
    <3> QED
      BY <1>3, <3>1, <3>2, WholeStays
  <2>10. ASSUME NEW n \in Chan PROVE heard'[n] \subseteq news'[n]
    BY <1>3, <2>4, <2>5 DEF HeardInv
  <2> QED
    BY <1>3, <2>4, <2>7, <2>9, <2>10 DEF HeardInv, HeardTypes
<1> QED
  BY <1>4, <1>5

\* Forget and Restore: what was told of the channel is forgotten, with the channel or
\* because a list does not tell it.
LEMMA ForgetsHear ==
  ASSUME ChannelsInv, HeardInv, NEW i \in Id, Forget(i) \/ Restore(i)
  PROVE  HeardInv'
<1>1. PICK u \in Task : /\ u = tasks[i] /\ u.at \in {"publish", "get"} /\ u # NoTask
                        /\ u.chan \in Chan /\ (u.at = "publish" => u.chan \in gone)
  BY TaskFacts DEF Forget, Restore, TaskFits
<1>2. PICK c \in Chan : c = u.chan
  BY <1>1
<1>3. /\ tasks \in [Id -> Task \cup {NoTask}] /\ mem \in Snapshot
      /\ \A n \in Chan : ChannelFits(n) /\ Follows(n)
  BY DEF ChannelsInv, CoreOK
<1>4. PICK t : tasks' = [tasks EXCEPT ![i] = t] /\ ~(t # NoTask /\ t.kind = "dial" /\ t.at = "key")
  <2>1. CASE Forget(i)
    <3>1. Waits(u, "del", Nobody).at = "del"
      BY DEF Waits
    <3>2. tasks' = [tasks EXCEPT ![i] = Waits(u, "del", Nobody)]
      BY <1>1, <1>3, <2>1 DEF Forget
    <3> QED
      BY <3>1, <3>2
  <2>2. CASE Restore(i)
    <3>1. u.kind # "dial"
      BY <1>1, <2>2, TaskFacts DEF Restore, TaskFits
    <3>2. Waits(u, "key", Only(c, mem'[c])).kind = u.kind
      BY DEF Waits
    <3>3. tasks' = [tasks EXCEPT ![i] = Waits(u, "key", Only(c, mem'[c]))]
      BY <1>1, <1>2, <1>3, <2>2 DEF Restore
    <3> QED
      BY <3>1, <3>2, <3>3
  <2> QED
    BY <2>1, <2>2
<1>5. /\ UNCHANGED <<ast, gone, news, amilink, wiped>> /\ raced \subseteq raced'
      /\ heard' = [heard EXCEPT ![c] = {}]
      /\ \A n \in Chan \ {c} : mem'[n] = mem[n]
      /\ u.at = "get" => (mem[c].known => c \in raced')
  <2>1. CASE Forget(i)
    BY <1>1, <1>2, <1>3, <2>1 DEF Forget, Snapshot
  <2>2. CASE Restore(i)
    <3>1. \E r : mem' = [mem EXCEPT ![c] = r]
      BY <1>1, <1>2, <2>2 DEF Restore
    <3> QED
      BY <1>1, <1>2, <1>3, <2>2, <3>1 DEF Restore, Snapshot
  <2> QED
    BY <2>1, <2>2
<1>6. /\ heard' \in [Chan -> SUBSET Field] /\ heard'[c] = {}
      /\ \A n \in Chan \ {c} : heard'[n] = heard[n]
  BY <1>5 DEF HeardInv, HeardTypes
<1>7. tasks'[i] = t /\ \A j \in Id \ {i} : tasks'[j] = tasks[j]
  BY <1>3, <1>4
<1>8. \A n \in Chan : Owes(n)' <=> Owes(n)
  BY <1>1, <1>4, <1>7 DEF Owes, Dialling
<1>9. ASSUME NEW n \in Chan \ {c} PROVE Whole(n)'
  <2>1. Whole(n)
    BY DEF HeardInv
  <2> QED
    BY <1>5, <1>6, <1>8, <2>1, WholeStays
<1>10. Whole(c)'
  <2>1. CASE u.at = "publish"
    BY <1>1, <1>2, <1>3, <1>5, <2>1 DEF Whole, ChannelFits
  <2>2. CASE u.at = "get"
    <3>1. SUFFICES ASSUME amilink = "up", c \notin raced', c \notin wiped, ast[c].known PROVE FALSE
      BY <1>5 DEF Whole
    <3>2. mem[c].known
      BY <1>5, <3>1 DEF HeardInv, Whole
    <3> QED
      BY <1>5, <2>2, <3>1, <3>2
  <2> QED
    BY <1>1, <2>1, <2>2
<1> QED
  BY <1>5, <1>6, <1>8, <1>9, <1>10 DEF HeardInv, HeardTypes

\* What a handler of a channel's live event hears.
LEMMA HandlerHears ==
  ASSUME ChannelsInv, HeardInv, NEW i \in Id, NEW e, e.chan \in Chan, Handler(i, e),
         tasks[i] = NoTask,
         e.kind \in {"new", "state", "enter", "leave", "dialend", "dial", "exten", "var"}
  PROVE  /\ \A j \in Id \ {i} : tasks'[j] = tasks[j]
         /\ \/ /\ mem[e.chan].known /\ e.kind # "new"
               /\ heard' = [heard EXCEPT ![e.chan] = @ \cup Tells(e.kind)]
               /\ tasks'[i].kind = e.kind /\ tasks'[i].chan = e.chan /\ tasks'[i].at = "key"
            \/ /\ e.kind = "new" /\ heard' = [heard EXCEPT ![e.chan] = {}]
               /\ tasks'[i].kind = "new"
            \/ /\ ~mem[e.chan].known /\ e.kind # "new"
               /\ heard' = IF e.kind = "dial" THEN DialedBy(e) ELSE heard
               /\ tasks'[i] # NoTask => tasks'[i].at \in {"all", "other"}
<1>1. \/ HandleNewchannel(i, e) \/ HandleNewstate(i, e) \/ HandleBridge(i, e)
      \/ HandleDialEnd(i, e) \/ HandleDialBegin(i, e) \/ HandleNewexten(i, e)
      \/ HandleVarset(i, e)
  BY DEF Handler, HandleHangup, HandleShow, HandleComplete
<1>2. i \in DOMAIN tasks /\ tasks \in [Id -> Task \cup {NoTask}]
  BY DEF ChannelsInv, CoreOK
<1>3. \A at, v : /\ Waits(e, at, v).kind = e.kind /\ Waits(e, at, v).chan = e.chan
                 /\ Waits(e, at, v).at = at
  BY DEF Waits
<1>4. WriteOther(e).at \in {"all", "other"}
  BY <1>3 DEF WriteOther
<1>5. CASE HandleNewchannel(i, e)
  BY <1>2, <1>3, <1>5 DEF HandleNewchannel
<1>6. CASE HandleDialBegin(i, e)
  BY <1>2, <1>3, <1>4, <1>6 DEF HandleDialBegin, Put
<1>7. CASE \/ HandleNewstate(i, e) \/ HandleBridge(i, e) \/ HandleDialEnd(i, e)
           \/ HandleNewexten(i, e) \/ HandleVarset(i, e)
  <2>1. PICK r, t : /\ IfKnown(i, e, r, t) /\ e.kind \notin {"new", "dial"}
                    /\ t = NoTask \/ t = Waits(e, "all", mem)
    BY <1>7 DEF HandleNewstate, HandleBridge, HandleDialEnd, HandleNewexten, HandleVarset
  <2>2. CASE mem[e.chan].known
    BY <1>2, <1>3, <2>1, <2>2 DEF IfKnown, Put
  <2>3. CASE ~mem[e.chan].known
    BY <1>2, <1>3, <2>1, <2>3 DEF IfKnown
  <2> QED
    BY <2>2, <2>3
<1> QED
  BY <1>1, <1>5, <1>6, <1>7

\* What Asterisk tells with an event, of the channel and of one it dials.
LEMMA TellingIs ==
  ASSUME HeardInv, NEW c \in Chan, NEW k, news' = Telling(k, c), k = "dial" => Other(c) # c
  PROVE  /\ news' \in [Chan -> SUBSET Field]
         /\ news'[c] = news[c] \cup Tells(k)
         /\ \A n \in Chan \ {c} :
              news'[n] = news[n] \cup (IF k = "dial" /\ n = Other(c) THEN {"dialed_by"} ELSE {})
<1>1. Tells(k) \subseteq Field /\ "dialed_by" \in Field
  BY DEF Tells, Field
<1> QED
  BY <1>1 DEF HeardInv, HeardTypes, Telling

\* A channel appears or changes, and the listener hears it.
LEMMA LiveEventHears ==
  ASSUME ChannelsInv, HeardInv, NEW k \in Kind, NEW c \in Chan, NEW r \in Rec,
         ChannelEvent(k, c, r), LiveEvent(k, c, r), amilink # "down",
         k = "dial" => Other(c) # c /\ ast[Other(c)].known
  PROVE  HeardInv'
<1>1. k \in {"new", "state", "enter", "leave", "dialend", "dial", "exten", "var"}
  BY DEF LiveEvent
<1>2. /\ ast'[c] = r /\ \A n \in Chan \ {c} : ast'[n] = ast[n]
      /\ gone \subseteq gone' /\ amilink' = amilink
  BY AsteriskDoes
<1>3. news' = Telling(k, c) /\ wiped' = wiped
  BY DEF ChannelEvent
<1>4. /\ news' \in [Chan -> SUBSET Field]
      /\ news'[c] = news[c] \cup Tells(k)
      /\ \A n \in Chan \ {c} :
           news'[n] = news[n] \cup (IF k = "dial" /\ n = Other(c) THEN {"dialed_by"} ELSE {})
  BY <1>3, TellingIs
<1>5. PICK e \in Event : e = Ev(k, c, r.data) /\ e.kind = k /\ e.chan = c
  <2>1. r.data \in 0 .. 1
    BY RecParts
  <2>2. Ev(k, c, r.data) \in Event /\ Ev(k, c, r.data).kind = k /\ Ev(k, c, r.data).chan = c
    BY <2>1 DEF Ev, Event
  <2> QED
    BY <2>2
<1>6. PICK i \in Id : Free(i) /\ Handler(i, e)
  BY <1>5 DEF ChannelEvent
<1>7. tasks[i] = NoTask
  BY <1>6 DEF Free
<1>8. /\ \A j \in Id \ {i} : tasks'[j] = tasks[j]
      /\ \/ /\ mem[c].known /\ k # "new"
            /\ heard' = [heard EXCEPT ![c] = @ \cup Tells(k)]
            /\ tasks'[i].kind = k /\ tasks'[i].chan = c /\ tasks'[i].at = "key"
         \/ /\ k = "new" /\ heard' = [heard EXCEPT ![c] = {}]
            /\ tasks'[i].kind = "new"
         \/ /\ ~mem[c].known /\ k # "new"
            /\ heard' = IF k = "dial" THEN DialedBy(e) ELSE heard
            /\ tasks'[i] # NoTask => tasks'[i].at \in {"all", "other"}
  BY <1>1, <1>5, <1>6, <1>7, HandlerHears
<1>9. /\ raced \subseteq raced'
      /\ \/ mem' = mem /\ ~mem[c].known /\ k # "new"
         \/ \E q \in Rec :
              /\ mem' = [mem EXCEPT ![c] = q] /\ q.known
              /\ k = "new" => ~q.vars
              /\ k = "var" => q.vars
              /\ k \notin {"new", "var"} => q.vars = mem[c].vars
              /\ k # "new" => mem[c].known
  BY <1>1, <1>5, <1>6, <1>7, HandlerDoes
<1>10. PICK d \in Chan : d = Other(c)
  BY OtherIsChan
<1>11. /\ heard' \in [Chan -> SUBSET Field]
       /\ \A n \in Chan \ {c} : heard'[n] = heard[n]
                                \/ (k = "dial" /\ n = d /\ heard'[n] = heard[n] \cup {"dialed_by"})
       /\ heard'[c] \subseteq heard[c] \cup Tells(k)
       /\ k # "new" => heard[c] \subseteq heard'[c]
       /\ mem[c].known /\ k # "new" => heard'[c] = heard[c] \cup Tells(k)
       /\ \A n \in Chan \ {c} : heard[n] \subseteq heard'[n]
       /\ ~mem[c].known /\ k = "dial" /\ mem[d].known => "dialed_by" \in heard'[d]
  <2>1. heard \in [Chan -> SUBSET Field] /\ Tells(k) \subseteq Field /\ "dialed_by" \in Field
    BY DEF HeardInv, HeardTypes, Tells, Field
  <2>2. CASE mem[c].known /\ k # "new" /\ heard' = [heard EXCEPT ![c] = @ \cup Tells(k)]
    BY <2>1, <2>2
  <2>3. CASE k = "new" /\ heard' = [heard EXCEPT ![c] = {}]
    BY <2>1, <2>3
  <2>4. CASE ~mem[c].known /\ k # "new" /\ heard' = IF k = "dial" THEN DialedBy(e) ELSE heard
    <3>1. CASE k # "dial"
      BY <2>1, <2>4, <3>1
    <3>2. CASE k = "dial"
      <4>1. heard' = [heard EXCEPT ![d] = IF mem[d].known THEN @ \cup {"dialed_by"} ELSE @]
        BY <1>5, <1>10, <2>4, <3>2 DEF DialedBy
      <4> QED
        BY <1>10, <2>1, <2>4, <3>2, <4>1
    <3> QED
      BY <3>1, <3>2
  <2> QED
    BY <1>8, <2>2, <2>3, <2>4
<1>12. \A n \in Chan : Owes(n) => Owes(n)'
  BY <1>7, <1>8 DEF Owes, Dialling
<1>13. \A n \in Chan : Dialling(i, n)' => k = "dial" /\ n = d
  BY <1>8, <1>10 DEF Dialling
<1>14. \A n \in Chan : Owes(n)' => Owes(n) \/ (k = "dial" /\ n = d)
  BY <1>8, <1>13 DEF Owes, Dialling
<1>15. k = "dial" => d # c /\ ast[d].known
  BY <1>10
<1>16. ASSUME NEW n \in Chan
       PROVE  /\ heard'[n] \subseteq news'[n]
              /\ Owes(n)' => "dialed_by" \in news'[n]
  BY <1>4, <1>10, <1>11, <1>14, <1>15 DEF HeardInv
<1>17. ASSUME NEW n \in Chan PROVE news'[n] # {} => ast'[n].known \/ n \in gone'
  <2>1. CASE n = c
    BY <1>2, <2>1 DEF LiveEvent
  <2>2. CASE n # c
    BY <1>2, <1>4, <1>10, <1>15, <2>2 DEF HeardInv
  <2> QED
    BY <2>1, <2>2
<1>18. ASSUME NEW n \in Chan \ {c} PROVE Whole(n)'
  <2>1. mem'[n] = mem[n]
    BY <1>9 DEF ChannelsInv, CoreOK, Snapshot
  <2>2. Whole(n)
    BY DEF HeardInv
  <2>3. CASE k = "dial" /\ n = d
    <3>1. SUFFICES ASSUME amilink = "up", n \notin raced, n \notin wiped, ast[n].known
          PROVE  "dialed_by" \in heard'[n] \/ Owes(n)'
      BY <1>2, <1>3, <1>4, <1>9, <1>11, <1>12, <2>1, <2>2, <2>3 DEF Whole
    <3>2. mem[n].known
      BY <2>2, <3>1 DEF Whole
    <3>3. CASE ~mem[c].known
      BY <1>11, <2>3, <3>2, <3>3
    <3>4. CASE mem[c].known
      <4>1. tasks'[i].kind = "dial" /\ tasks'[i].chan = c /\ tasks'[i].at = "key"
        BY <1>8, <2>3, <3>4
      <4>2. NoTask.at = "none"
        BY DEF NoTask
      <4> QED
        BY <1>10, <2>3, <4>1, <4>2 DEF Owes, Dialling
    <3> QED
      BY <3>3, <3>4
  <2>4. CASE ~(k = "dial" /\ n = d)
    <3>1. news'[n] = news[n] /\ heard[n] \subseteq heard'[n]
      BY <1>4, <1>10, <1>11, <2>4
    <3> QED
      BY <1>2, <1>3, <1>9, <1>12, <2>1, <2>2, <3>1, WholeStays
  <2> QED
    BY <2>3, <2>4
<1>19. Whole(c)'
  <2>1. SUFFICES ASSUME amilink = "up", c \notin raced, c \notin wiped
        PROVE  /\ mem'[c].known /\ mem'[c].vars = r.vars
               /\ \A f \in news'[c] : f \in heard'[c] \/ (f = "dialed_by" /\ Owes(c)')
    BY <1>2, <1>3, <1>9 DEF Whole
  <2>2. Whole(c)
    BY DEF HeardInv
  <2>3. CASE k = "new"
    <3>1. news[c] = {} /\ Tells(k) = {}
      BY <2>3 DEF HeardInv, LiveEvent, Tells
    <3> QED
      BY <1>4, <1>9, <2>3, <3>1 DEF LiveEvent, ChannelsInv, CoreOK, Snapshot, Rec
  <2>4. CASE k # "new"
    <3>1. /\ ast[c].known /\ mem[c].known /\ mem[c].vars = ast[c].vars
          /\ \A f \in news[c] : f \in heard[c] \/ (f = "dialed_by" /\ Owes(c))
      BY <2>1, <2>2, <2>4 DEF Whole, LiveEvent
    <3>2. mem'[c].known /\ mem'[c].vars = r.vars
      BY <1>9, <2>4, <3>1 DEF LiveEvent, ChannelsInv, CoreOK, Snapshot, Rec
    <3>3. ASSUME NEW f \in news'[c] PROVE f \in heard'[c] \/ (f = "dialed_by" /\ Owes(c)')
      BY <1>4, <1>11, <1>12, <2>4, <3>1
    <3> QED
      BY <3>2, <3>3
  <2> QED
    BY <2>3, <2>4
<1> QED
  BY <1>3, <1>4, <1>11, <1>16, <1>17, <1>18, <1>19 DEF HeardInv, HeardTypes

\* A call ends, and the listener hears it.
LEMMA HangupHears ==
  ASSUME ChannelsInv, HeardInv, NEW c \in Chan, HangsUp(c), amilink # "down"
  PROVE  HeardInv'
<1>1. /\ ChannelEvent("hangup", c, Absent) /\ ast[c].known
      /\ tasks \in [Id -> Task \cup {NoTask}] /\ ast \in Snapshot
  BY DEF HangsUp, ChannelsInv, CoreOK
<1>2. PICK i \in Id : Free(i) /\ Handler(i, Ev("hangup", c, Absent.data))
  BY <1>1 DEF ChannelEvent
<1>3. Ev("hangup", c, Absent.data).kind = "hangup"
  BY DEF Ev
<1>4. HandleHangup(i, Ev("hangup", c, Absent.data))
  BY <1>2, <1>3 DEF Handler, HandleNewchannel, HandleNewstate, HandleBridge, HandleDialEnd,
    HandleDialBegin, HandleNewexten, HandleVarset, HandleShow, HandleComplete
<1>5. PICK t : tasks' = [tasks EXCEPT ![i] = t] /\ t.at = "publish"
  <2>1. \A e : Waits(e, "publish", Nobody).at = "publish"
    BY DEF Waits
  <2> QED
    BY <1>4, <2>1 DEF HandleHangup
<1>6. tasks[i] = NoTask /\ UNCHANGED <<mem, heard, raced, amilink, wiped>>
  BY <1>1, <1>2, <1>4 DEF Free, HandleHangup, ChannelEvent
<1>7. tasks'[i] = t /\ \A j \in Id \ {i} : tasks'[j] = tasks[j]
  BY <1>1, <1>5
<1>8. \A n \in Chan : Owes(n)' <=> Owes(n)
  BY <1>5, <1>6, <1>7 DEF Owes, Dialling
<1>9. \A n \in Chan : news'[n] = news[n]
  <2>1. Tells("hangup") = {}
    BY DEF Tells
  <2> QED
    BY <1>1, <2>1 DEF ChannelEvent, Telling
<1>10. news' \in [Chan -> SUBSET Field]
  <2>1. Tells("hangup") = {}
    BY DEF Tells
  <2> QED
    BY <1>1, <2>1 DEF ChannelEvent, Telling, HeardInv, HeardTypes
<1>11. ~Absent.known
  BY DEF Absent
<1>12. /\ ast' = [ast EXCEPT ![c] = Absent] /\ gone' = gone \cup {c}
  BY <1>1, <1>11 DEF ChannelEvent
<1>13. ASSUME NEW n \in Chan PROVE Whole(n)' /\ (news'[n] # {} => ast'[n].known \/ n \in gone')
  <2>1. CASE n = c
    BY <1>1, <1>11, <1>12, <2>1 DEF Whole, Snapshot
  <2>2. CASE n # c
    <3>1. ast'[n] = ast[n] /\ Whole(n)
      BY <1>1, <1>12, <2>2 DEF Snapshot, HeardInv
    <3>2. Whole(n)'
      BY <1>6, <1>8, <1>9, <3>1, WholeStays
    <3> QED
      BY <1>9, <1>12, <3>1, <3>2 DEF HeardInv
  <2> QED
    BY <2>1, <2>2
<1> QED
  BY <1>6, <1>8, <1>9, <1>10, <1>13 DEF HeardInv, HeardTypes

\* Something happens in Asterisk, and the listener is not connected.
LEMMA UnheardEvent ==
  ASSUME ChannelsInv, HeardInv, NEW k \in Kind, NEW c \in Chan, NEW r \in Rec,
         ChannelEvent(k, c, r),
         LiveEvent(k, c, r) \/ (k = "hangup" /\ ast[c].known /\ r = Absent),
         k = "dial" => Other(c) # c /\ ast[Other(c)].known,
         amilink = "down"
  PROVE  HeardInv'
<1>1. /\ ast'[c] = r /\ \A n \in Chan \ {c} : ast'[n] = ast[n]
      /\ gone \subseteq gone' /\ amilink' = amilink
  BY AsteriskDoes
<1>2. news' = Telling(k, c) /\ UNCHANGED <<mem, heard, tasks, wiped>>
  BY DEF ChannelEvent
<1>3. /\ news' \in [Chan -> SUBSET Field]
      /\ news'[c] = news[c] \cup Tells(k)
      /\ \A n \in Chan \ {c} :
           news'[n] = news[n] \cup (IF k = "dial" /\ n = Other(c) THEN {"dialed_by"} ELSE {})
  BY <1>2, TellingIs
<1>4. \A n \in Chan : Owes(n)' <=> Owes(n)
  BY <1>2 DEF Owes, Dialling
<1>5. r.known \/ c \in gone'
  <2>1. CASE r.known
    BY <2>1
  <2>2. CASE ~r.known
    BY <2>2 DEF ChannelEvent
  <2> QED
    BY <2>1, <2>2
<1>6. ASSUME NEW n \in Chan
      PROVE  /\ heard'[n] \subseteq news'[n]
             /\ Owes(n)' => "dialed_by" \in news'[n]
             /\ news'[n] # {} => ast'[n].known \/ n \in gone'
             /\ Whole(n)'
  <2>1. heard'[n] \subseteq news'[n] /\ (Owes(n)' => "dialed_by" \in news'[n])
    BY <1>2, <1>3, <1>4 DEF HeardInv
  <2>2. news'[n] # {} => ast'[n].known \/ n \in gone'
    BY <1>1, <1>3, <1>5 DEF HeardInv
  <2> QED
    BY <1>1, <2>1, <2>2 DEF Whole
<1> QED
  BY <1>2, <1>3, <1>6 DEF HeardInv, HeardTypes

\* What happens in Asterisk.
LEMMA AsteriskHears ==
  ASSUME ChannelsInv, HeardInv, NEW c \in Chan,
         Appears(c) \/ Changes(c) \/ Dials(c) \/ EndsDial(c) \/ SetsVariable(c) \/ HangsUp(c)
  PROVE  HeardInv'
<1>1. ast[c] \in Rec /\ Absent \in Rec
  BY OnlyDoes, AstParts
<1>2. CASE HangsUp(c)
  <2>1. CASE amilink = "down"
    BY <1>1, <1>2, <2>1, UnheardEvent DEF HangsUp, Kind
  <2>2. CASE amilink # "down"
    BY <1>2, <2>2, HangupHears
  <2> QED
    BY <2>1, <2>2
<1>3. ASSUME NEW k \in Kind, NEW r \in Rec, ChannelEvent(k, c, r), LiveEvent(k, c, r),
             k = "dial" => Other(c) # c /\ ast[Other(c)].known
      PROVE  HeardInv'
  <2>1. CASE amilink = "down"
    BY <1>3, <2>1, UnheardEvent
  <2>2. CASE amilink # "down"
    BY <1>3, <2>2, LiveEventHears
  <2> QED
    BY <2>1, <2>2
<1>4. CASE Appears(c)
  <2>1. PICK a \in Rec : a = Absent /\ ~a.vars
    <3>1. Absent \in Rec /\ ~Absent.vars
      BY DEF Absent, Rec
    <3> QED
      BY <3>1
  <2>2. PICK r \in Rec : r = [Absent EXCEPT !.known = TRUE] /\ r.known /\ ~r.vars
    <3>1. [a EXCEPT !.known = TRUE] \in Rec /\ [a EXCEPT !.known = TRUE].known
          /\ [a EXCEPT !.known = TRUE].vars = a.vars
      BY DEF Rec
    <3> QED
      BY <2>1, <3>1
  <2> QED
    BY <1>3, <1>4, <2>2 DEF Appears, LiveEvent, Kind
<1>5. CASE Changes(c)
  <2>1. PICK a \in Rec : a = ast[c]
    BY <1>1
  <2>2. [a EXCEPT !.data = 1 - @] \in Rec /\ [a EXCEPT !.data = 1 - @].known = a.known
        /\ [a EXCEPT !.data = 1 - @].vars = a.vars
    BY DEF Rec
  <2>3. PICK r \in Rec : r = [ast[c] EXCEPT !.data = 1 - @] /\ r.known = a.known /\ r.vars = a.vars
    BY <2>1, <2>2
  <2>4. PICK k \in {"state", "enter", "leave", "exten"} : ChannelEvent(k, c, r)
    BY <1>5, <2>3 DEF Changes
  <2>5. k \in Kind /\ LiveEvent(k, c, r) /\ k # "dial"
    BY <1>5, <2>1, <2>3, <2>4 DEF Changes, LiveEvent, Kind
  <2> QED
    BY <1>3, <2>4, <2>5
<1>6. CASE Dials(c)
  BY <1>1, <1>3, <1>6 DEF Dials, LiveEvent, Kind
<1>7. CASE EndsDial(c)
  BY <1>1, <1>3, <1>7 DEF EndsDial, LiveEvent, Kind
<1>8. CASE SetsVariable(c)
  <2>1. PICK a \in Rec : a = ast[c]
    BY <1>1
  <2>2. [a EXCEPT !.vars = TRUE] \in Rec /\ [a EXCEPT !.vars = TRUE].known = a.known
        /\ [a EXCEPT !.vars = TRUE].data = a.data /\ [a EXCEPT !.vars = TRUE].vars
    BY DEF Rec
  <2>3. PICK r \in Rec : /\ r = [ast[c] EXCEPT !.vars = TRUE]
                         /\ r.known = a.known /\ r.data = a.data /\ r.vars
    BY <2>1, <2>2
  <2> QED
    BY <1>3, <1>8, <2>1, <2>3 DEF SetsVariable, LiveEvent, Kind
<1> QED
  BY <1>2, <1>4, <1>5, <1>6, <1>7, <1>8

\* The memory is cleared: nothing is said of the channels there are, and of those to come
\* nothing is told yet.
LEMMA ClearHears ==
  ASSUME ChannelsInv, HeardInv, Announce \/ Crash
  PROVE  HeardInv'
<1>1. /\ UNCHANGED <<ast, gone, news>> /\ heard' = Nothing
      /\ wiped' = {c \in Chan : ast[c].known}
  BY DEF Announce, HandleReset, Crash
<1>2. /\ heard' \in [Chan -> SUBSET Field] /\ \A n \in Chan : heard'[n] = {}
  BY <1>1 DEF Nothing
<1>3. \A n \in Chan : Owes(n)' => Owes(n)
  <2>1. tasks \in [Id -> Task \cup {NoTask}]
    BY DEF ChannelsInv, CoreOK
  <2>2. \A c, v : /\ Waits(Ev("reset", c, 0), "all", v).at = "all"
                  /\ Waits(Ev("start", c, 0), "list", v).at = "list"
    BY DEF Waits
  <2>3. CASE Announce
    <3>1. PICK i \in Id, c \in Chan : tasks' = [tasks EXCEPT ![i] = Waits(Ev("reset", c, 0), "all", mem')]
      BY <2>3 DEF Announce, HandleReset
    <3> QED
      BY <2>1, <2>2, <3>1 DEF Owes, Dialling
  <2>4. CASE Crash
    <3>1. PICK c \in Chan :
            tasks' = [[i \in Id |-> NoTask] EXCEPT ![1] = Waits(Ev("start", c, 0), "list", Nobody)]
      BY <2>4 DEF Crash
    <3> QED
      BY <2>2, <3>1 DEF Owes, Dialling
  <2> QED
    BY <2>3, <2>4
<1>4. \A n \in Chan : Whole(n)'
  BY <1>1 DEF Whole
<1> QED
  BY <1>1, <1>2, <1>3, <1>4 DEF HeardInv, HeardTypes

\* Nothing happens to the channels, and nothing is told.
LEMMA StillHears ==
  ASSUME ChannelsInv, HeardInv, UNCHANGED <<ast, gone, mem, news, heard, tasks, raced, wiped>>,
         amilink' = "up" => amilink = "up"
  PROVE  HeardInv'
<1>1. \A n \in Chan : Owes(n)' <=> Owes(n)
  BY DEF Owes, Dialling
<1>2. \A n \in Chan : Whole(n)'
  BY <1>1, WholeStays DEF HeardInv
<1> QED
  BY <1>1, <1>2 DEF HeardInv, HeardTypes

\* No step breaks what is said of what only events tell.
LEMMA HeardStep == ChannelsInv /\ HeardInv /\ [ChannelsNext]_chanVars => HeardInv'
<1> SUFFICES ASSUME ChannelsInv, HeardInv, [ChannelsNext]_chanVars PROVE HeardInv'
  OBVIOUS
<1>1. CASE \E c \in Chan : \/ Appears(c) \/ Changes(c) \/ Dials(c) \/ EndsDial(c)
                           \/ SetsVariable(c) \/ HangsUp(c)
  BY <1>1, AsteriskHears
<1>2. CASE \E i \in Id : TaskStep(i)
  BY <1>2, StartHears, KeyWrittenHears, WritesHear, ForgetsHear DEF TaskStep
<1>3. CASE \/ \E c \in Chan : KeyExpires(c)
           \/ Tick \/ TickWritten \/ Drop \/ Attach
           \/ UNCHANGED chanVars
  BY <1>3, StillHears DEF KeyExpires, Tick, TickWritten, Drop, Attach, chanVars
<1>4. CASE Announce \/ Crash
  BY <1>4, ClearHears
<1> QED
  BY <1>1, <1>2, <1>3, <1>4 DEF ChannelsNext

\* At the start nothing has been told.
LEMMA HeardStartWell == ASSUME NEW s, ChannelsFrom(s) PROVE HeardInv
<1>1. \A n \in Chan : ~Owes(n)
  BY DEF ChannelsFrom, Owes, Dialling
<1>2. HeardTypes
  BY DEF ChannelsFrom, HeardTypes, Nothing
<1>3. \A n \in Chan : heard[n] = {} /\ news[n] = {} /\ mem[n] = ast[n]
  BY DEF ChannelsFrom, Nothing
<1> QED
  BY <1>1, <1>2, <1>3 DEF HeardInv, Whole

LEMMA HeardInitWell == ChannelsInit => HeardInv
  BY HeardStartWell DEF ChannelsInit

\* When the listener is quiet, nothing is left that could still correct the memory: it
\* is correct already.
LEMMA QuietIsTrue == ChannelsInv /\ HeardInv => ChannelsAreTrue
<1> SUFFICES ASSUME ChannelsInv, HeardInv PROVE ChannelsAreTrue
  OBVIOUS
<1>1. SUFFICES ASSUME Quiet PROVE /\ \A c \in Chan \ raced :
                                       /\ mem[c].known = ast[c].known
                                       /\ mem[c].data = ast[c].data
                                       /\ mem[c].vars => ast[c].vars
                                       /\ heard[c] \subseteq news[c]
                                       /\ ast[c].known /\ c \notin wiped
                                            => mem[c].vars = ast[c].vars /\ heard[c] = news[c]
                                  /\ \A c \in (saved \ gone) \ raced : mem[c].vars
  BY DEF ChannelsAreTrue, MemoryIsTrue, VariablesSurvive
<1>2. amilink = "up" /\ feed = <<>> /\ \A i \in Id : tasks[i] = NoTask
  BY <1>1 DEF Quiet
<1>3. ASSUME NEW c \in Chan
      PROVE /\ ~Hanging(c) /\ ~ToList /\ ~ToShow(c) /\ ~Getting(c) /\ ~Owes(c)
  <2>1. Len(feed) = 0
    BY <1>2
  <2> QED
    BY <1>2, <2>1 DEF Hanging, Has, ToList, ToShow, Getting, Owes, Dialling
<1>4. ASSUME NEW c \in Chan \ raced
      PROVE  mem[c].known = ast[c].known /\ mem[c].data = ast[c].data
             /\ (mem[c].vars => ast[c].vars)
  <2>1. Follows(c) /\ ChannelFits(c) /\ mem[c] \in Rec /\ ast[c] \in Rec
    BY AstParts DEF ChannelsInv
  <2>2. mem[c].known \in BOOLEAN /\ ast[c].known \in BOOLEAN
    BY <2>1, RecParts
  <2>3. mem[c].known => ast[c].known /\ mem[c].data = ast[c].data
    BY <1>2, <1>3, <2>1 DEF Follows
  <2>4. ast[c].known => mem[c].known
    BY <1>2, <1>3, <2>1 DEF Follows
  <2>5. ~ast[c].known => mem[c] = ast[c]
    BY <2>1, <2>3 DEF ChannelFits
  <2>6. mem[c].vars => ast[c].vars
    BY <2>1, <2>4, <2>5 DEF ChannelFits, RealVars
  <2> QED
    BY <2>2, <2>3, <2>4, <2>5, <2>6
<1>5. ASSUME NEW c \in (saved \ gone) \ raced PROVE mem[c].vars
  <2>1. c \in Chan
    BY DEF ChannelsInv, CoreOK
  <2>2. ast[c].known
    BY <2>1, AstParts
  <2>3. mem[c].known
    BY <1>4, <2>1, <2>2
  <2> QED
    BY <1>2, <2>1, <2>3 DEF Survives, ChannelsInv
<1>6. ASSUME NEW c \in Chan \ raced
      PROVE  /\ heard[c] \subseteq news[c]
             /\ ast[c].known /\ c \notin wiped
                  => mem[c].vars = ast[c].vars /\ heard[c] = news[c]
  BY <1>2, <1>3 DEF HeardInv, Whole
<1> QED
  BY <1>4, <1>5, <1>6

\* In every state of the listener its variables have their types.
THEOREM ChannelsTypes == ChannelsSpec => []ChannelsTypeOK
<1>1. ChannelsInv /\ HeardInv => ChannelsTypeOK
  BY DEF ChannelsInv, CoreOK, HeardInv, HeardTypes, ChannelsTypeOK
<1> QED
  BY <1>1, ChannelsInitWell, ChannelsStep, HeardInitWell, HeardStep, PTL DEF ChannelsSpec

\* Whatever was lost, delayed or overtaken: when the listener is quiet it has the
\* channels that Asterisk has, with the last state that a list of them tells; what else
\* it has of them was told; of a channel that came after the memory was last cleared it
\* has all; and no channel variables were lost by a reset.
THEOREM ChannelsAreTrueAlways == ChannelsSpec => []ChannelsAreTrue
  BY QuietIsTrue, ChannelsInitWell, ChannelsStep, HeardInitWell, HeardStep, PTL
  DEF ChannelsSpec

-----------------------------------------------------------------------------
(* The queues. *)

\* Task i is about agent m.
About(i, m) == work[i] # NoWork /\ work[i].who = m

\* _on_reconnected has not read, or not restored, the pauses.
Restoring == \E r \in RId : restore[r].at \in {"scan", "pause"}
\* An agent whose memory no trouble reached, and one that no trouble reached at all.
Plain(m) == excuse[m] \cap {"overlap", "redis", "alias"} = {}
Peaceful(m) == excuse[m] = {}
HasKey(m) == LocationOf(m) \in pausekey

\* An agent whose events did not overlap has one task at a time, and without a task
\* the memory, if it has the agent, says what the key says.
OneTask(m) ==
  Plain(m) => \A i, j \in WId : About(i, m) /\ About(j, m) => i = j
MemoryLikeKey(m) ==
  Plain(m) /\ ~Busy(m) => members[m] \in {"none", OnOff(HasKey(m))}
\* Once the queue is listed the memory, or the task about to change it, says what
\* Asterisk says.
Shown(m) ==
  Plain(m) /\ qlink = "up" /\ ~Restoring /\ listing[m] = "none"
    => IF Busy(m)
       THEN qknown /\ \A i \in WId : About(i, m) => work[i].as = paused[m]
       ELSE members[m] = OnOff(paused[m])

\* For an agent without any excuse the key, or the task about to write it, says what
\* the staff wants; and a pause that Asterisk lost is still to be restored.
TaskWanted(m) == \A i \in WId : About(i, m) => work[i].as = wanted[m]
KeyWanted(m) == ~Busy(m) \/ Restoring \/ qlink # "up" => HasKey(m) = wanted[m]
ToRestore(m) == \E r \in RId : \/ restore[r].at = "scan"
                               \/ restore[r].at = "pause" /\ LocationOf(m) \in restore[r].todo
PauseFollows(m) ==
  /\ paused[m] => wanted[m]
  /\ wanted[m] => paused[m] \/ qlink # "up" \/ ToRestore(m)
  /\ \A r \in RId : restore[r].at = "pause" /\ LocationOf(m) \in restore[r].todo => wanted[m]
InPeace(m) == Peaceful(m) => TaskWanted(m) /\ KeyWanted(m) /\ PauseFollows(m)

Agent(m) == OneTask(m) /\ MemoryLikeKey(m) /\ Shown(m) /\ InPeace(m)

\* What the history, the tasks, the coroutines and the memory always are.
Bookkeeping ==
  /\ \A m \in aliased : "alias" \in excuse[m]
  /\ \A i \in WId : work[i] # NoWork
       => work[i].name \in {LocationOf(work[i].who), StateOf(work[i].who)}
  /\ \A r \in RId : restore[r].at = "idle" => restore[r].todo = {}
  /\ ~qknown => \A m \in Member : members[m] = "none"
  /\ \A m \in Member : listing[m] # "none" => listing[m] = OnOff(paused[m])

\* A caller the connected listener has is in the queue, and one it has not was there
\* when it began to hear.
CallersKnown == qlink = "up" => calls \subseteq waiting /\ waiting \ calls \subseteq unseen

QueuesInv ==
  /\ QueuesTypeOK /\ Bookkeeping /\ CallersKnown
  /\ \A m \in Member : Agent(m)

-----------------------------------------------------------------------------
\* A start at which the memory and the keys are what Asterisk has, whoever has been
\* there and whatever trouble is over.
LEMMA QueuesStartWell ==
  ASSUME NEW came \in SUBSET Caller, NEW t \in 0 .. MaxTroubles, QueuesFrom(came, t)
  PROVE  QueuesInv
<1> USE QueuesAssumption DEF QueuesFrom, Idle, AllIdle, RId
<1>1. QueuesTypeOK
  BY DEF QueuesTypeOK, State, OnOff, Interface, StateOf, LocationOf, Reason
<1>2. Bookkeeping
  BY DEF Bookkeeping
<1>3. CallersKnown
  BY DEF CallersKnown
<1>4. ASSUME NEW m \in Member PROVE Agent(m)
  <2>1. ~Busy(m) /\ \A i \in WId : ~About(i, m)
    BY DEF Busy, About
  <2>2. ~Restoring
    BY DEF Restoring
  <2>3. ASSUME Plain(m) PROVE HasKey(m) = paused[m]
    <3>1. m \notin aliased
      BY <2>3 DEF Plain
    <3>2. \A n \in Member : StateOf(n) = LocationOf(m) <=> n = m /\ n \notin aliased
      BY <3>1 DEF StateOf, LocationOf
    <3> QED
      BY <3>1, <3>2 DEF HasKey
  <2>4. Peaceful(m) => Plain(m)
    BY DEF Peaceful, Plain
  <2> QED
    BY <2>1, <2>2, <2>3, <2>4 DEF Agent, OneTask, MemoryLikeKey, Shown, InPeace, TaskWanted,
      KeyWanted, PauseFollows
<1> QED
  BY <1>1, <1>2, <1>3, <1>4 DEF QueuesInv

\* Upsert touches the tasks of one agent, and at most adds one to them.
LEMMA UpsertDoes ==
  ASSUME QueuesTypeOK, NEW m \in Member, NEW p \in BOOLEAN, NEW bulk \in BOOLEAN,
         Upsert(m, p, bulk)
  PROVE  /\ members' = members /\ qknown' /\ qknown' \in BOOLEAN /\ pausekey' = pausekey
         /\ work' \in [WId -> [at : {"key"}, who : Member, as : BOOLEAN, name : Interface]
                              \cup {NoWork}]
         /\ \A n \in Member \ {m} : \A i \in WId :
              /\ About(i, n)' <=> About(i, n)
              /\ About(i, n) => work'[i].as = work[i].as
         /\ \A i \in WId : work'[i] = work[i] \/ (work'[i].name = KeyName(m, bulk) /\ work'[i].who = m)
         /\ members[m] = OnOff(p) => work' = work
         /\ members[m] # OnOff(p) /\ ~Busy(m)
              => /\ Busy(m)'
                 /\ \A i \in WId : About(i, m)' => work'[i].as = p
                 /\ \A i, j \in WId : About(i, m)' /\ About(j, m)' => i = j
<1>1. /\ members' = members /\ qknown' /\ qknown' \in BOOLEAN /\ pausekey' = pausekey
      /\ members[m] = OnOff(p) => work' = work
  BY DEF Upsert
<1> DEFINE KeyTask == [at : {"key"}, who : Member, as : BOOLEAN, name : Interface]
<1>2. CASE members[m] = OnOff(p)
  <2>1. work' = work
    BY <1>2, <1>1
  <2>2. work \in [WId -> KeyTask \cup {NoWork}]
    BY DEF QueuesTypeOK
  <2> QED
    BY <1>1, <1>2, <2>1, <2>2 DEF About
<1>3. CASE members[m] # OnOff(p)
  <2> DEFINE new == [at |-> "key", who |-> m, as |-> p, name |-> KeyName(m, bulk)]
  <2>1. PICK i \in WId : work[i] = NoWork /\ work' = [work EXCEPT ![i] = new]
    BY <1>3 DEF Upsert, FreeWork
  <2>2. /\ new \in KeyTask /\ new # NoWork
        /\ new.who = m /\ new.as = p /\ new.name = KeyName(m, bulk)
    <3>1. new.at # NoWork.at
      BY DEF NoWork
    <3>2. KeyName(m, bulk) \in Interface
      BY DEF KeyName, LocationOf, StateOf, Interface
    <3> QED
      BY <3>1, <3>2
  <2> HIDE DEF new
  <2>3. work \in [WId -> KeyTask \cup {NoWork}]
    BY DEF QueuesTypeOK
  <2> HIDE DEF KeyTask
  <2>4. /\ work' \in [WId -> KeyTask \cup {NoWork}]
        /\ work'[i] = new
        /\ \A j \in WId : j # i => work'[j] = work[j]
    BY <2>1, <2>2, <2>3
  <2>5. \A n \in Member \ {m} : \A j \in WId :
          /\ About(j, n)' <=> About(j, n)
          /\ About(j, n) => work'[j].as = work[j].as
    BY <2>1, <2>2, <2>4 DEF About
  <2>6. \A j \in WId : work'[j] = work[j] \/ (work'[j].name = KeyName(m, bulk) /\ work'[j].who = m)
    BY <2>2, <2>4
  <2>7. ASSUME ~Busy(m)
        PROVE  /\ Busy(m)'
               /\ \A j \in WId : About(j, m)' => work'[j].as = p
               /\ \A j, k \in WId : About(j, m)' /\ About(k, m)' => j = k
    BY <2>7, <2>2, <2>4 DEF Busy, About
  <2> QED
    BY <1>1, <1>3, <2>4, <2>5, <2>6, <2>7 DEF KeyTask
<1> QED
  BY <1>2, <1>3

\* An agent is as before if nothing that is said of it has changed.
LEMMA AgentStays ==
  ASSUME QueuesInv, NEW n \in Member,
         /\ excuse'[n] = excuse[n] /\ members'[n] = members[n]
         /\ listing'[n] = listing[n] /\ paused'[n] = paused[n] /\ wanted'[n] = wanted[n],
         HasKey(n)' = HasKey(n),
         \A i \in WId : /\ About(i, n)' <=> About(i, n)
                        /\ About(i, n) => work'[i].as = work[i].as,
         qknown => qknown', qlink' = qlink,
         \/ restore' = restore
         \/ \E r \in RId, I \in Interface \ {LocationOf(n)} :
              restore[r].at = "pause" /\ restore' = [restore EXCEPT ![r].todo = @ \ {I}]
  PROVE  Agent(n)'
<1>0. Agent(n) /\ QueuesTypeOK
  BY DEF QueuesInv
<1>1. /\ Busy(n)' <=> Busy(n)
      /\ Plain(n)' <=> Plain(n)
      /\ Peaceful(n)' <=> Peaceful(n)
  BY DEF Busy, About, Plain, Peaceful
<1>2. /\ Restoring' <=> Restoring
      /\ ToRestore(n)' <=> ToRestore(n)
      /\ \A r \in RId : (restore[r].at = "pause" /\ LocationOf(n) \in restore[r].todo)'
                          <=> restore[r].at = "pause" /\ LocationOf(n) \in restore[r].todo
  BY <1>0 DEF Restoring, ToRestore, QueuesTypeOK
<1> QED
  BY <1>0, <1>1, <1>2 DEF Agent, OneTask, MemoryLikeKey, Shown, InPeace, TaskWanted, KeyWanted,
    PauseFollows

\* An agent that is not aliased is known by one interface.
LEMMA PlainName ==
  ASSUME Bookkeeping, NEW m \in Member, Plain(m)
  PROVE  m \notin aliased /\ StateOf(m) = LocationOf(m) /\ \A b \in BOOLEAN : KeyName(m, b) = LocationOf(m)
  BY DEF Bookkeeping, Plain, StateOf, KeyName

\* What all events of an agent do: they store the pause p, or are not heard.
LEMMA EventDoes ==
  ASSUME QueuesTypeOK, NEW m \in Member, NEW p \in BOOLEAN, NEW bulk \in BOOLEAN,
         UNCHANGED <<members, qknown, pausekey, work>> \/ Upsert(m, p, bulk)
  PROVE  /\ members' = members /\ pausekey' = pausekey
         /\ (qknown => qknown') /\ qknown' \in BOOLEAN
         /\ work' \in [WId -> [at : {"key"}, who : Member, as : BOOLEAN, name : Interface]
                              \cup {NoWork}]
         /\ \A n \in Member \ {m} : \A i \in WId :
              /\ About(i, n)' <=> About(i, n)
              /\ About(i, n) => work'[i].as = work[i].as
         /\ \A i \in WId : work'[i] = work[i] \/ (work'[i].name = KeyName(m, bulk) /\ work'[i].who = m)
         /\ OneTask(m) /\ MemoryLikeKey(m) /\ (Plain(m)' => Plain(m) /\ ~Busy(m))
              => OneTask(m)' /\ MemoryLikeKey(m)'
<1>1. CASE UNCHANGED <<members, qknown, pausekey, work>>
  <2>1. HasKey(m)' = HasKey(m) /\ Busy(m)' = Busy(m)
    BY <1>1 DEF HasKey, LocationOf, Busy
  <2> QED
    BY <1>1, <2>1 DEF QueuesTypeOK, About, OneTask, MemoryLikeKey
<1>2. CASE Upsert(m, p, bulk)
  <2>1. /\ members' = members /\ qknown' /\ qknown' \in BOOLEAN /\ pausekey' = pausekey
        /\ work' \in [WId -> [at : {"key"}, who : Member, as : BOOLEAN, name : Interface]
                             \cup {NoWork}]
        /\ \A n \in Member \ {m} : \A i \in WId :
             /\ About(i, n)' <=> About(i, n)
             /\ About(i, n) => work'[i].as = work[i].as
        /\ \A i \in WId : work'[i] = work[i] \/ (work'[i].name = KeyName(m, bulk) /\ work'[i].who = m)
        /\ members[m] = OnOff(p) => work' = work
        /\ members[m] # OnOff(p) /\ ~Busy(m)
             => /\ Busy(m)'
                /\ \A i \in WId : About(i, m)' => work'[i].as = p
                /\ \A i, j \in WId : About(i, m)' /\ About(j, m)' => i = j
    BY <1>2, UpsertDoes
  <2>2. ASSUME OneTask(m), MemoryLikeKey(m), Plain(m)' => Plain(m) /\ ~Busy(m)
        PROVE  OneTask(m)' /\ MemoryLikeKey(m)'
    <3>1. CASE members[m] = OnOff(p)
      BY <2>1, <2>2, <3>1 DEF OneTask, MemoryLikeKey, About, Busy, HasKey, LocationOf
    <3>2. CASE members[m] # OnOff(p)
      BY <2>1, <2>2, <3>2 DEF OneTask, MemoryLikeKey
    <3> QED
      BY <3>1, <3>2
  <2> QED
    BY <2>1, <2>2
<1> QED
  BY <1>1, <1>2

\* The tasks that an event adds carry a name of their agent.
LEMMA EventKeepsNames ==
  ASSUME QueuesTypeOK, Bookkeeping, NEW m \in Member, NEW p \in BOOLEAN, NEW bulk \in BOOLEAN,
         UNCHANGED <<members, qknown, pausekey, work>> \/ Upsert(m, p, bulk),
         aliased' = aliased, \A n \in aliased : excuse[n] \subseteq excuse'[n],
         \A r \in RId : restore'[r].at = "idle" => restore'[r].todo = {},
         \A n \in Member : listing'[n] # "none" => listing'[n] = OnOff(paused'[n])
  PROVE  Bookkeeping'
<1>1. /\ members' = members /\ (qknown => qknown')
      /\ \A i \in WId : work'[i] = work[i] \/ (work'[i].name = KeyName(m, bulk) /\ work'[i].who = m)
  BY EventDoes
<1> QED
  BY <1>1 DEF Bookkeeping, QueuesTypeOK, KeyName, StateOf, LocationOf

\* Order: the staff pauses or unpauses an agent, and Asterisk tells.
LEMMA OrderKeeps ==
  ASSUME QueuesInv, NEW m \in Member, Order(m)
  PROVE  QueuesInv'
<1>0. PICK p \in BOOLEAN : p = ~paused[m]
  BY DEF QueuesInv, QueuesTypeOK
<1>1. /\ QueuesTypeOK /\ Bookkeeping /\ CallersKnown
      /\ \A n \in Member : Agent(n)
  BY DEF QueuesInv
<1>2. /\ paused' = [paused EXCEPT ![m] = p] /\ wanted' = [wanted EXCEPT ![m] = p]
      /\ excuse' = [excuse EXCEPT ![m] = @ \cup Spoiled(m)]
      /\ listing[m] = "none" /\ orders' \in 0 .. MaxOrders
      /\ UNCHANGED <<aliased, waiting, joined, qlink, calls, restore, listing, wake,
                     woken, troubles, unseen>>
  BY <1>0, <1>1, QueuesAssumption DEF Order, Live, QueuesTypeOK
<1>3. \/ qlink = "down" /\ UNCHANGED <<members, qknown, pausekey, work>>
      \/ qlink # "down" /\ Upsert(m, p, FALSE)
  BY <1>0 DEF Order, Live
<1>4. /\ members' = members /\ pausekey' = pausekey /\ (qknown => qknown') /\ qknown' \in BOOLEAN
      /\ work' \in [WId -> [at : {"key"}, who : Member, as : BOOLEAN, name : Interface]
                              \cup {NoWork}]
      /\ \A n \in Member \ {m} : \A i \in WId :
           /\ About(i, n)' <=> About(i, n)
           /\ About(i, n) => work'[i].as = work[i].as
      /\ OneTask(m) /\ MemoryLikeKey(m) /\ (Plain(m)' => Plain(m) /\ ~Busy(m))
              => OneTask(m)' /\ MemoryLikeKey(m)'
  BY <1>0, <1>1, <1>3, EventDoes
<1>5. QueuesTypeOK'
  <2>1. Spoiled(m) \subseteq Reason
    BY DEF Spoiled, Reason
  <2> QED
    BY <1>0, <1>1, <1>2, <1>4, <2>1 DEF QueuesTypeOK
<1>6. Bookkeeping'
  <2>1. /\ \A n \in aliased : excuse[n] \subseteq excuse'[n]
        /\ \A r \in RId : restore'[r].at = "idle" => restore'[r].todo = {}
        /\ \A n \in Member : listing'[n] # "none" => listing'[n] = OnOff(paused'[n])
    BY <1>1, <1>2 DEF Bookkeeping, QueuesTypeOK
  <2>2. aliased' = aliased
    BY <1>2
  <2> QED
    BY <1>0, <1>1, <1>3, <2>1, <2>2, EventKeepsNames
<1>7. CallersKnown'
  BY <1>1, <1>2 DEF CallersKnown
<1>8. ASSUME NEW n \in Member \ {m} PROVE Agent(n)'
  <2>1. HasKey(n)' = HasKey(n)
    BY <1>4 DEF HasKey, LocationOf
  <2> QED
    BY <2>1, <1>1, <1>2, <1>4, AgentStays DEF QueuesTypeOK
<1>9. Agent(m)'
  <2>1. /\ HasKey(m)' = HasKey(m)
        /\ Restoring' = Restoring /\ ToRestore(m)' = ToRestore(m)
    BY <1>2, <1>4 DEF HasKey, Restoring, ToRestore, LocationOf
  <2>2. Plain(m)' => Plain(m) /\ ~Busy(m)
    BY <1>1, <1>2 DEF Plain, Spoiled, QueuesTypeOK
  <2>3. Peaceful(m)' => /\ Peaceful(m) /\ Plain(m) /\ ~Busy(m) /\ qlink = "up" /\ ~Restoring
    BY <1>1, <1>2 DEF Plain, Peaceful, Spoiled, Restoring, QueuesTypeOK
  <2>4. OneTask(m)' /\ MemoryLikeKey(m)'
    BY <1>1, <1>4, <2>2 DEF Agent
  <2>5. CASE qlink = "down"
    <3>1. UNCHANGED <<members, qknown, pausekey, work>>
      BY <1>3, <2>5
    <3> QED
      BY <1>1, <1>2, <2>1, <2>2, <2>3, <2>4, <2>5, <3>1 DEF Agent, Shown, InPeace
  <2>6. CASE qlink # "down"
    <3>1. Upsert(m, p, FALSE)
      BY <1>3, <2>6
    <3>2. /\ qknown'
          /\ members[m] # OnOff(p) /\ ~Busy(m)
              => Busy(m)' /\ \A i \in WId : About(i, m)' => work'[i].as = p
      BY <1>0, <1>1, <3>1, UpsertDoes
    <3>3. paused'[m] = p /\ wanted'[m] = p /\ paused[m] = ~p /\ p \in BOOLEAN
      BY <1>0, <1>1, <1>2 DEF QueuesTypeOK
    <3>4. ASSUME Plain(m)', qlink = "up", ~Restoring PROVE members[m] # OnOff(p)
      BY <1>1, <1>2, <2>2, <3>3, <3>4 DEF Agent, Shown, OnOff
    <3>5. Shown(m)'
      BY <1>2, <2>1, <2>2, <3>2, <3>3, <3>4 DEF Shown
    <3>6. ASSUME Peaceful(m)' PROVE TaskWanted(m)' /\ KeyWanted(m)' /\ PauseFollows(m)'
      <4>1. Plain(m)'
        BY <3>6 DEF Peaceful, Plain
      <4>2. Busy(m)' /\ \A i \in WId : About(i, m)' => work'[i].as = p
        BY <2>2, <2>3, <3>2, <3>4, <3>6, <4>1
      <4> QED
        BY <1>2, <2>1, <2>3, <3>3, <3>6, <4>2 DEF TaskWanted, KeyWanted, PauseFollows, Restoring
    <3> QED
      BY <2>4, <3>5, <3>6 DEF Agent, InPeace
  <2> QED
    BY <2>5, <2>6
<1> QED
  BY <1>5, <1>6, <1>7, <1>8, <1>9 DEF QueuesInv

\* Status: the telephone of an agent changes, and the event carries the pause.
LEMMA StatusKeeps ==
  ASSUME QueuesInv, NEW m \in Member, Status(m)
  PROVE  QueuesInv'
<1>0. PICK p \in BOOLEAN : p = paused[m]
  BY DEF QueuesInv, QueuesTypeOK
<1>1. /\ QueuesTypeOK /\ Bookkeeping /\ CallersKnown
      /\ \A n \in Member : Agent(n)
  BY DEF QueuesInv
<1>2. /\ excuse' = [excuse EXCEPT ![m] = @ \cup Spoiled(m)]
      /\ listing[m] = "none" /\ qlink # "down"
      /\ UNCHANGED <<aliased, asteriskVars, qlink, calls, restore, listing, wake,
                     woken, orders, troubles, unseen>>
  BY DEF Status, Live
<1>3. Upsert(m, p, FALSE)
  BY <1>0 DEF Status, Live
<1>4. /\ members' = members /\ pausekey' = pausekey /\ (qknown => qknown') /\ qknown' \in BOOLEAN
      /\ work' \in [WId -> [at : {"key"}, who : Member, as : BOOLEAN, name : Interface]
                              \cup {NoWork}]
      /\ \A n \in Member \ {m} : \A i \in WId :
           /\ About(i, n)' <=> About(i, n)
           /\ About(i, n) => work'[i].as = work[i].as
      /\ OneTask(m) /\ MemoryLikeKey(m) /\ (Plain(m)' => Plain(m) /\ ~Busy(m))
              => OneTask(m)' /\ MemoryLikeKey(m)'
  BY <1>0, <1>1, <1>3, EventDoes
<1>5. QueuesTypeOK'
  <2>1. Spoiled(m) \subseteq Reason
    BY DEF Spoiled, Reason
  <2> QED
    BY <1>1, <1>2, <1>4, <2>1 DEF QueuesTypeOK, asteriskVars
<1>6. Bookkeeping'
  <2>1. /\ \A n \in aliased : excuse[n] \subseteq excuse'[n]
        /\ \A r \in RId : restore'[r].at = "idle" => restore'[r].todo = {}
        /\ \A n \in Member : listing'[n] # "none" => listing'[n] = OnOff(paused'[n])
    BY <1>1, <1>2 DEF Bookkeeping, QueuesTypeOK, asteriskVars
  <2>2. aliased' = aliased
    BY <1>2
  <2> QED
    BY <1>0, <1>1, <1>3, <2>1, <2>2, EventKeepsNames
<1>7. CallersKnown'
  BY <1>1, <1>2 DEF CallersKnown, asteriskVars
<1>8. ASSUME NEW n \in Member \ {m} PROVE Agent(n)'
  <2>1. HasKey(n)' = HasKey(n)
    BY <1>4 DEF HasKey, LocationOf
  <2> QED
    BY <2>1, <1>1, <1>2, <1>4, AgentStays DEF QueuesTypeOK, asteriskVars
<1>9. Agent(m)'
  <2>1. /\ HasKey(m)' = HasKey(m)
        /\ Restoring' = Restoring /\ ToRestore(m)' = ToRestore(m)
        /\ paused' = paused /\ wanted' = wanted
    BY <1>2, <1>4 DEF HasKey, Restoring, ToRestore, LocationOf, asteriskVars
  <2>2. Plain(m)' => Plain(m) /\ ~Busy(m)
    BY <1>1, <1>2 DEF Plain, Spoiled, QueuesTypeOK
  <2>3. Peaceful(m)' => Peaceful(m) /\ Plain(m) /\ ~Busy(m) /\ qlink = "up" /\ ~Restoring
    BY <1>1, <1>2 DEF Plain, Peaceful, Spoiled, Restoring, QueuesTypeOK
  <2>4. OneTask(m)' /\ MemoryLikeKey(m)'
    BY <1>1, <1>4, <2>2 DEF Agent
  <2>5. ASSUME Plain(m)', qlink = "up", ~Restoring PROVE members[m] = OnOff(p)
    BY <1>0, <1>1, <1>2, <2>2, <2>5 DEF Agent, Shown
  <2>6. members[m] = OnOff(p) => work' = work
    BY <1>0, <1>1, <1>3, UpsertDoes
  <2>7. Shown(m)'
    BY <1>0, <1>2, <1>4, <2>1, <2>2, <2>5, <2>6 DEF Shown, About, Busy
  <2>8. ASSUME Peaceful(m)' PROVE TaskWanted(m)' /\ KeyWanted(m)' /\ PauseFollows(m)'
    <3>1. Plain(m)'
      BY <2>8 DEF Peaceful, Plain
    <3>2. work' = work
      BY <2>3, <2>5, <2>6, <2>8, <3>1
    <3> QED
      BY <1>1, <1>2, <2>1, <2>3, <2>8, <3>2 DEF Agent, InPeace, TaskWanted, KeyWanted, PauseFollows,
        About, Busy
  <2> QED
    BY <2>4, <2>7, <2>8 DEF Agent, InPeace
<1> QED
  BY <1>5, <1>6, <1>7, <1>8, <1>9 DEF QueuesInv

\* Bulk: the answer to QueueStatus about an agent, who is listed as Asterisk has him.
LEMMA BulkKeeps ==
  ASSUME QueuesInv, NEW m \in Member, Bulk(m)
  PROVE  QueuesInv'
<1>0. PICK p \in BOOLEAN : p = (listing[m] = "on")
  OBVIOUS
<1>1. /\ QueuesTypeOK /\ Bookkeeping /\ CallersKnown
      /\ \A n \in Member : Agent(n)
  BY DEF QueuesInv
<1>2. /\ excuse' = [excuse EXCEPT ![m] = @ \cup Spoiled(m)]
      /\ listing[m] # "none" /\ listing' = [listing EXCEPT ![m] = "none"]
      /\ UNCHANGED <<aliased, asteriskVars, qlink, calls, restore, wake,
                     woken, orders, troubles, unseen>>
  BY DEF Bulk
<1>3. Upsert(m, p, TRUE)
  BY <1>0 DEF Bulk
<1>4. /\ members' = members /\ pausekey' = pausekey /\ (qknown => qknown') /\ qknown' \in BOOLEAN
      /\ work' \in [WId -> [at : {"key"}, who : Member, as : BOOLEAN, name : Interface]
                              \cup {NoWork}]
      /\ \A n \in Member \ {m} : \A i \in WId :
           /\ About(i, n)' <=> About(i, n)
           /\ About(i, n) => work'[i].as = work[i].as
      /\ OneTask(m) /\ MemoryLikeKey(m) /\ (Plain(m)' => Plain(m) /\ ~Busy(m))
              => OneTask(m)' /\ MemoryLikeKey(m)'
  BY <1>0, <1>1, <1>3, EventDoes
<1>5. QueuesTypeOK'
  <2>1. Spoiled(m) \subseteq Reason
    BY DEF Spoiled, Reason
  <2> QED
    BY <1>1, <1>2, <1>4, <2>1 DEF QueuesTypeOK, asteriskVars, State
<1>6. Bookkeeping'
  <2>1. /\ \A n \in aliased : excuse[n] \subseteq excuse'[n]
        /\ \A r \in RId : restore'[r].at = "idle" => restore'[r].todo = {}
        /\ \A n \in Member : listing'[n] # "none" => listing'[n] = OnOff(paused'[n])
    BY <1>1, <1>2 DEF Bookkeeping, QueuesTypeOK, asteriskVars
  <2>2. aliased' = aliased
    BY <1>2
  <2> QED
    BY <1>0, <1>1, <1>3, <2>1, <2>2, EventKeepsNames
<1>7. CallersKnown'
  BY <1>1, <1>2 DEF CallersKnown, asteriskVars
<1>8. ASSUME NEW n \in Member \ {m} PROVE Agent(n)'
  <2>1. HasKey(n)' = HasKey(n)
    BY <1>4 DEF HasKey, LocationOf
  <2> QED
    BY <2>1, <1>1, <1>2, <1>4, AgentStays DEF QueuesTypeOK, asteriskVars
<1>9. Agent(m)'
  <2>0. p = paused[m]
    BY <1>0, <1>1, <1>2 DEF Bookkeeping, OnOff, QueuesTypeOK
  <2>1. /\ HasKey(m)' = HasKey(m)
        /\ Restoring' = Restoring /\ ToRestore(m)' = ToRestore(m)
        /\ paused' = paused /\ wanted' = wanted
    BY <1>2, <1>4 DEF HasKey, Restoring, ToRestore, LocationOf, asteriskVars
  <2>2. Plain(m)' => Plain(m) /\ ~Busy(m)
    BY <1>1, <1>2 DEF Plain, Spoiled, QueuesTypeOK
  <2>3. Peaceful(m)' => Peaceful(m) /\ Plain(m) /\ ~Busy(m) /\ qlink = "up" /\ ~Restoring
    BY <1>1, <1>2 DEF Plain, Peaceful, Spoiled, Restoring, QueuesTypeOK
  <2>4. OneTask(m)' /\ MemoryLikeKey(m)'
    BY <1>1, <1>4, <2>2 DEF Agent
  <2>5. /\ qknown'
        /\ members[m] = OnOff(p) => work' = work
        /\ members[m] # OnOff(p) /\ ~Busy(m)
             => Busy(m)' /\ \A i \in WId : About(i, m)' => work'[i].as = p
    BY <1>0, <1>1, <1>3, UpsertDoes
  <2>6. members[m] = OnOff(p) /\ ~Busy(m) => ~Busy(m)' /\ \A i \in WId : ~About(i, m)'
    BY <2>5 DEF Busy, About
  <2>7. Shown(m)'
    BY <2>0, <1>4, <2>1, <2>2, <2>5, <2>6 DEF Shown
  <2>8. ASSUME Peaceful(m)' PROVE TaskWanted(m)' /\ KeyWanted(m)' /\ PauseFollows(m)'
    <3>1. p = wanted[m]
      BY <2>0, <1>1, <2>3, <2>8 DEF Agent, InPeace, PauseFollows, ToRestore, Restoring, QueuesTypeOK
    <3> QED
      BY <1>1, <1>2, <2>1, <2>3, <2>5, <2>6, <2>8, <3>1 DEF Agent, InPeace, TaskWanted, KeyWanted,
        PauseFollows
  <2> QED
    BY <2>4, <2>7, <2>8 DEF Agent, InPeace
<1> QED
  BY <1>5, <1>6, <1>7, <1>8, <1>9 DEF QueuesInv

\* RestorePause: a pause that was persisted is set again, and Asterisk tells of it.
LEMMA RestorePauseKeeps ==
  ASSUME QueuesInv, NEW r \in RId, NEW m \in Member, RestorePause(r, m)
  PROVE  QueuesInv'
<1>1. /\ QueuesTypeOK /\ Bookkeeping /\ CallersKnown
      /\ \A n \in Member : Agent(n)
  BY DEF QueuesInv
<1>2. /\ excuse' = [excuse EXCEPT ![m] = @ \cup IF Busy(m) THEN {"overlap"} ELSE {}]
      /\ restore[r].at = "pause" /\ LocationOf(m) \in restore[r].todo
      /\ restore' = [restore EXCEPT ![r].todo = @ \ {LocationOf(m)}]
      /\ UNCHANGED <<aliased, wanted, waiting, joined, qlink, calls, listing, wake,
                     woken, orders, troubles, unseen>>
  BY DEF RestorePause
<1>3. UNCHANGED <<members, qknown, pausekey, work>> \/ Upsert(m, TRUE, FALSE)
  BY DEF RestorePause, Live
<1>31. \/ qlink = "down" /\ paused' = paused /\ UNCHANGED <<members, qknown, pausekey, work>>
       \/ qlink # "down" /\ paused' = [paused EXCEPT ![m] = TRUE]
          /\ (paused[m] \/ listing[m] = "none")
  BY DEF RestorePause, Live
<1>4. /\ members' = members /\ pausekey' = pausekey /\ (qknown => qknown') /\ qknown' \in BOOLEAN
      /\ work' \in [WId -> [at : {"key"}, who : Member, as : BOOLEAN, name : Interface]
                              \cup {NoWork}]
      /\ \A n \in Member \ {m} : \A i \in WId :
           /\ About(i, n)' <=> About(i, n)
           /\ About(i, n) => work'[i].as = work[i].as
      /\ OneTask(m) /\ MemoryLikeKey(m) /\ (Plain(m)' => Plain(m) /\ ~Busy(m))
              => OneTask(m)' /\ MemoryLikeKey(m)'
  BY <1>1, <1>3, EventDoes
<1>41. LocationOf(m) \in Interface
  BY DEF LocationOf, Interface
<1>5. QueuesTypeOK'
  BY <1>1, <1>2, <1>31, <1>4, <1>41, ZenonT(40) DEF QueuesTypeOK, Reason
<1>6. Bookkeeping'
  <2>1. /\ \A n \in aliased : excuse[n] \subseteq excuse'[n]
        /\ \A q \in RId : restore'[q].at = "idle" => restore'[q].todo = {}
        /\ \A n \in Member : listing'[n] # "none" => listing'[n] = OnOff(paused'[n])
    BY <1>1, <1>2, <1>31, ZenonT(40) DEF Bookkeeping, QueuesTypeOK
  <2>2. aliased' = aliased
    BY <1>2
  <2> QED
    BY <1>1, <1>3, <2>1, <2>2, EventKeepsNames
<1>7. CallersKnown'
  BY <1>1, <1>2 DEF CallersKnown
<1>8. ASSUME NEW n \in Member \ {m} PROVE Agent(n)'
  <2>1. HasKey(n)' = HasKey(n)
    BY <1>4 DEF HasKey, LocationOf
  <2>2. LocationOf(m) \in Interface \ {LocationOf(n)}
    BY <1>41 DEF LocationOf
  <2>3. /\ excuse'[n] = excuse[n] /\ members'[n] = members[n]
        /\ listing'[n] = listing[n] /\ paused'[n] = paused[n] /\ wanted'[n] = wanted[n]
    BY <1>1, <1>2, <1>31, <1>4 DEF QueuesTypeOK
  <2> QED
    BY <2>1, <2>2, <2>3, <1>2, <1>4, AgentStays
<1>9. Agent(m)'
  <2>1. /\ HasKey(m)' = HasKey(m) /\ Restoring /\ Restoring' /\ wanted' = wanted
        /\ \A q \in RId : (restore[q].at = "pause" /\ LocationOf(m) \in restore[q].todo)'
                            => restore[q].at = "pause" /\ LocationOf(m) \in restore[q].todo
    BY <1>1, <1>2, <1>4 DEF HasKey, Restoring, LocationOf, QueuesTypeOK
  <2>2. Plain(m)' => Plain(m) /\ ~Busy(m)
    BY <1>1, <1>2 DEF Plain, QueuesTypeOK
  <2>3. Peaceful(m)' => Peaceful(m) /\ ~Busy(m)
    BY <1>1, <1>2 DEF Peaceful, QueuesTypeOK
  <2>4. OneTask(m)' /\ MemoryLikeKey(m)'
    BY <1>1, <1>4, <2>2 DEF Agent
  <2>5. Shown(m)'
    BY <2>1 DEF Shown
  <2>6. ASSUME Peaceful(m)' PROVE TaskWanted(m)' /\ KeyWanted(m)' /\ PauseFollows(m)'
    <3>1. TaskWanted(m) /\ KeyWanted(m) /\ PauseFollows(m) /\ wanted[m] = TRUE
      BY <1>1, <1>2, <2>3, <2>6 DEF Agent, InPeace, PauseFollows, QueuesTypeOK
    <3>2. \A i \in WId : About(i, m)' => work'[i].as = TRUE
      <4>1. CASE UNCHANGED <<members, qknown, pausekey, work>>
        BY <4>1, <2>3, <2>6 DEF About, Busy
      <4>2. CASE Upsert(m, TRUE, FALSE)
        <5>1. /\ members[m] = OnOff(TRUE) => work' = work
              /\ members[m] # OnOff(TRUE) /\ ~Busy(m)
                   => \A i \in WId : About(i, m)' => work'[i].as = TRUE
          BY <1>1, <4>2, UpsertDoes
        <5> QED
          BY <5>1, <2>3, <2>6 DEF About, Busy
      <4> QED
        BY <4>1, <4>2, <1>3
    <3>3. paused'[m] \/ qlink' # "up"
      BY <1>1, <1>2, <1>31 DEF QueuesTypeOK
    <3> QED
      BY <2>1, <2>3, <2>6, <3>1, <3>2, <3>3 DEF TaskWanted, KeyWanted, PauseFollows
  <2> QED
    BY <2>4, <2>5, <2>6 DEF Agent, InPeace
<1> QED
  BY <1>5, <1>6, <1>7, <1>8, <1>9 DEF QueuesInv

\* Persisted: the key is written, or not, and the memory follows.
LEMMA PersistedKeeps ==
  ASSUME QueuesInv, NEW i \in WId, Persisted(i)
  PROVE  QueuesInv'
<1>1. /\ QueuesTypeOK /\ Bookkeeping /\ CallersKnown
      /\ \A n \in Member : Agent(n)
  BY DEF QueuesInv
<1>2. PICK m \in Member, p \in BOOLEAN, name \in Interface :
        /\ name \in {LocationOf(m), StateOf(m)}
        /\ work[i] # NoWork /\ work[i].who = m /\ work[i].as = p /\ work[i].name = name
  <2>1. work[i] # NoWork
    BY DEF Persisted
  <2>2. work[i] \in [at : {"key"}, who : Member, as : BOOLEAN, name : Interface]
    BY <1>1, <2>1 DEF QueuesTypeOK
  <2> QED
    BY <1>1, <2>1, <2>2 DEF Bookkeeping
<1>3. \/ /\ pausekey' = IF p THEN pausekey \cup {name} ELSE pausekey \ {name}
         /\ UNCHANGED <<troubles, excuse>>
      \/ Trouble /\ Excused({m}, "redis") /\ UNCHANGED pausekey
  BY <1>2 DEF Persisted
<1>4. /\ members' = IF qknown THEN [members EXCEPT ![m] = OnOff(p)] ELSE members
      /\ work' = [work EXCEPT ![i] = NoWork]
      /\ UNCHANGED <<aliased, asteriskVars, qlink, calls, qknown, restore, listing,
                     wake, woken, orders, unseen>>
  BY <1>2 DEF Persisted
<1>5. /\ excuse' \in [Member -> SUBSET Reason] /\ troubles' \in 0 .. MaxTroubles
      /\ \A n \in Member : excuse[n] \subseteq excuse'[n]
      /\ \A n \in Member \ {m} : excuse'[n] = excuse[n]
      /\ Plain(m)' => excuse'[m] = excuse[m] /\ pausekey' = IF p THEN pausekey \cup {name} ELSE pausekey \ {name}
  <2>1. CASE UNCHANGED <<troubles, excuse>>
    BY <1>1, <1>3, <2>1 DEF QueuesTypeOK, Excused, Plain
  <2>2. CASE Trouble /\ Excused({m}, "redis")
    <3>1. troubles' \in 0 .. MaxTroubles
      BY <1>1, <2>2, QueuesAssumption DEF QueuesTypeOK, Trouble
    <3>2. excuse' = [n \in Member |-> IF n \in {m} THEN excuse[n] \cup {"redis"} ELSE excuse[n]]
      BY <2>2 DEF Excused
    <3> QED
      BY <1>1, <3>1, <3>2 DEF QueuesTypeOK, Plain, Reason
  <2> QED
    BY <1>3, <2>1, <2>2
<1>6. /\ work' \in [WId -> [at : {"key"}, who : Member, as : BOOLEAN, name : Interface]
                              \cup {NoWork}]
      /\ work'[i] = NoWork /\ \A j \in WId \ {i} : work'[j] = work[j]
  BY <1>1, <1>4 DEF QueuesTypeOK
<1>7. name \in Interface /\ OnOff(p) \in State
  BY DEF Interface, LocationOf, StateOf, OnOff, State
<1>8. QueuesTypeOK'
  BY <1>1, <1>3, <1>4, <1>5, <1>6, <1>7 DEF QueuesTypeOK, asteriskVars
<1>9. Bookkeeping'
  <2>1. \A n \in aliased' : "alias" \in excuse'[n]
    BY <1>1, <1>4, <1>5 DEF Bookkeeping, QueuesTypeOK
  <2>2. \A j \in WId : work'[j] # NoWork
       => work'[j].name \in {<<work'[j].who, "location">>,
                             IF work'[j].who \in aliased' THEN <<work'[j].who, "state">>
                             ELSE <<work'[j].who, "location">>}
    BY <1>1, <1>4, <1>6 DEF Bookkeeping, StateOf, LocationOf
  <2>3. ~qknown' => \A n \in Member : members'[n] = "none"
    BY <1>1, <1>4 DEF Bookkeeping
  <2>4. /\ \A r \in RId : restore'[r].at = "idle" => restore'[r].todo = {}
        /\ \A n \in Member : listing'[n] # "none" => listing'[n] = OnOff(paused'[n])
    BY <1>1, <1>4 DEF Bookkeeping, asteriskVars
  <2> QED
    BY <2>1, <2>2, <2>3, <2>4 DEF Bookkeeping, StateOf, LocationOf
<1>10. CallersKnown'
  BY <1>1, <1>4 DEF CallersKnown, asteriskVars
<1>11. ASSUME NEW n \in Member \ {m} PROVE Agent(n)'
  <2>0. name # LocationOf(n)
    BY <1>2 DEF LocationOf, StateOf
  <2>1. HasKey(n)' = HasKey(n)
    BY <1>3, <2>0 DEF HasKey, LocationOf
  <2>2. /\ excuse'[n] = excuse[n] /\ members'[n] = members[n]
        /\ listing'[n] = listing[n] /\ paused'[n] = paused[n] /\ wanted'[n] = wanted[n]
    BY <1>1, <1>4, <1>5 DEF QueuesTypeOK, asteriskVars
  <2>3. \A j \in WId : /\ About(j, n)' <=> About(j, n)
                       /\ About(j, n) => work'[j].as = work[j].as
    BY <1>2, <1>6 DEF About
  <2> QED
    BY <2>1, <2>2, <2>3, <1>4, AgentStays
<1>12. Agent(m)'
  <2>1. /\ Restoring' = Restoring /\ ToRestore(m)' = ToRestore(m)
        /\ paused' = paused /\ wanted' = wanted
        /\ LocationOf(m)' = LocationOf(m)
    BY <1>4 DEF Restoring, ToRestore, LocationOf, asteriskVars
  <2>2. About(i, m) /\ Busy(m)
    BY <1>2 DEF About, Busy
  <2>3. ASSUME Plain(m)'
        PROVE  /\ Plain(m) /\ excuse'[m] = excuse[m] /\ \A j \in WId : ~About(j, m)'
               /\ ~Busy(m)' /\ HasKey(m)' = p
    <3>1. Plain(m) /\ excuse'[m] = excuse[m]
      BY <1>5, <2>3 DEF Plain
    <3>2. \A j \in WId : About(j, m) => j = i
      BY <1>1, <2>2, <3>1 DEF Agent, OneTask
    <3>3. \A j \in WId : ~About(j, m)'
      BY <1>6, <3>2 DEF About
    <3>4. ~Busy(m)'
      BY <3>3 DEF Busy, About
    <3>5. name = LocationOf(m)
      BY <1>1, <1>2, <3>1, PlainName
    <3>6. HasKey(m)' = p
      BY <1>5, <2>1, <2>3, <3>5 DEF HasKey
    <3> QED
      BY <3>1, <3>3, <3>4, <3>6
  <2>4. OneTask(m)'
    BY <2>3 DEF OneTask
  <2>5. members'[m] = IF qknown THEN OnOff(p) ELSE "none"
    BY <1>1, <1>4 DEF Bookkeeping, QueuesTypeOK
  <2>6. MemoryLikeKey(m)'
    BY <2>3, <2>5 DEF MemoryLikeKey
  <2>7. Shown(m)'
    BY <1>1, <1>2, <1>4, <2>1, <2>2, <2>3, <2>5 DEF Agent, Shown
  <2>8. ASSUME Peaceful(m)' PROVE TaskWanted(m)' /\ KeyWanted(m)' /\ PauseFollows(m)'
    <3>1. Plain(m)'
      BY <2>8 DEF Plain, Peaceful
    <3>2. Peaceful(m) /\ p = wanted[m]
      BY <1>1, <1>2, <2>2, <2>3, <2>8, <3>1 DEF Agent, InPeace, Peaceful, TaskWanted
    <3> QED
      BY <1>1, <1>4, <2>1, <2>3, <3>1, <3>2 DEF Agent, InPeace, TaskWanted, KeyWanted, PauseFollows
  <2> QED
    BY <2>4, <2>6, <2>7, <2>8 DEF Agent, InPeace
<1> QED
  BY <1>8, <1>9, <1>10, <1>11, <1>12 DEF QueuesInv

\* Join: a caller comes into the queue.
LEMMA CallerJoins ==
  ASSUME QueuesInv, NEW c \in Caller, Join(c)
  PROVE  QueuesInv'
<1>1. /\ QueuesTypeOK /\ Bookkeeping /\ CallersKnown
      /\ \A n \in Member : Agent(n)
  BY DEF QueuesInv
<1> USE DEF Join, asteriskVars, memoryVars
<1>2. QueuesTypeOK'
  BY <1>1 DEF QueuesTypeOK
<1>3. Bookkeeping'
  BY <1>1 DEF Bookkeeping, QueuesTypeOK, LocationOf, StateOf
<1>4. CallersKnown'
  BY <1>1 DEF CallersKnown
<1>5. ASSUME NEW n \in Member PROVE Agent(n)'
  <2>1. /\ HasKey(n)' = HasKey(n)
        /\ \A i \in WId : /\ About(i, n)' <=> About(i, n)
                          /\ About(i, n) => work'[i].as = work[i].as
    BY DEF HasKey, LocationOf, About
  <2> QED
    BY <2>1, AgentStays
<1> QED
  BY <1>2, <1>3, <1>4, <1>5 DEF QueuesInv

\* Leave: a caller leaves the queue or gives up.
LEMMA CallerLeaves ==
  ASSUME QueuesInv, NEW c \in Caller, Leave(c)
  PROVE  QueuesInv'
<1>1. /\ QueuesTypeOK /\ Bookkeeping /\ CallersKnown
      /\ \A n \in Member : Agent(n)
  BY DEF QueuesInv
<1> USE DEF Leave, asteriskVars, memoryVars
<1>2. QueuesTypeOK'
  BY <1>1 DEF QueuesTypeOK
<1>3. Bookkeeping'
  BY <1>1 DEF Bookkeeping, QueuesTypeOK, LocationOf, StateOf
<1>4. CallersKnown'
  BY <1>1 DEF CallersKnown
<1>5. ASSUME NEW n \in Member PROVE Agent(n)'
  <2>1. /\ HasKey(n)' = HasKey(n)
        /\ \A i \in WId : /\ About(i, n)' <=> About(i, n)
                          /\ About(i, n) => work'[i].as = work[i].as
    BY DEF HasKey, LocationOf, About
  <2> QED
    BY <2>1, AgentStays
<1> QED
  BY <1>2, <1>3, <1>4, <1>5 DEF QueuesInv

\* Wake: the agents are pushed to.
LEMMA WakeKeeps ==
  ASSUME QueuesInv, NEW c \in Caller, Wake(c)
  PROVE  QueuesInv'
<1>1. /\ QueuesTypeOK /\ Bookkeeping /\ CallersKnown
      /\ \A n \in Member : Agent(n)
  BY DEF QueuesInv
<1> USE DEF Wake, asteriskVars, memoryVars
<1>2. QueuesTypeOK'
  BY <1>1 DEF QueuesTypeOK, ToWake
<1>3. Bookkeeping'
  BY <1>1 DEF Bookkeeping, QueuesTypeOK, LocationOf, StateOf
<1>4. CallersKnown'
  BY <1>1 DEF CallersKnown
<1>5. ASSUME NEW n \in Member PROVE Agent(n)'
  <2>1. /\ HasKey(n)' = HasKey(n)
        /\ \A i \in WId : /\ About(i, n)' <=> About(i, n)
                          /\ About(i, n) => work'[i].as = work[i].as
    BY DEF HasKey, LocationOf, About
  <2> QED
    BY <2>1, AgentStays
<1> QED
  BY <1>2, <1>3, <1>4, <1>5 DEF QueuesInv

\* RestoreUnknown: Asterisk does not know an agent by his state interface.
LEMMA RestoreUnknownKeeps ==
  ASSUME QueuesInv, NEW r \in RId, NEW m \in Member, RestoreUnknown(r, m)
  PROVE  QueuesInv'
<1>1. /\ QueuesTypeOK /\ Bookkeeping /\ CallersKnown
      /\ \A n \in Member : Agent(n)
  BY DEF QueuesInv
<1> USE DEF RestoreUnknown, asteriskVars, memoryVars
<1>2. QueuesTypeOK'
  BY <1>1 DEF QueuesTypeOK
<1>3. Bookkeeping'
  BY <1>1 DEF Bookkeeping, QueuesTypeOK, LocationOf, StateOf
<1>4. CallersKnown'
  BY <1>1 DEF CallersKnown
<1>5. ASSUME NEW n \in Member PROVE Agent(n)'
  <2>1. /\ HasKey(n)' = HasKey(n)
        /\ \A i \in WId : /\ About(i, n)' <=> About(i, n)
                          /\ About(i, n) => work'[i].as = work[i].as
    BY DEF HasKey, LocationOf, About
  <2>2. StateOf(m) \in Interface \ {LocationOf(n)}
    BY DEF StateOf, LocationOf, Interface
  <2> QED
    BY <2>1, <2>2, AgentStays
<1> QED
  BY <1>2, <1>3, <1>4, <1>5 DEF QueuesInv

\* Without a connection nothing new is claimed of an agent: what is left is what was.
LEMMA AgentUnheard ==
  ASSUME QueuesInv, NEW n \in Member,
         UNCHANGED <<members, qknown, pausekey, work, restore, wanted, aliased>>,
         qlink' # "up",
         Plain(n)' => Plain(n),
         Peaceful(n)' => Peaceful(n) /\ (~Busy(n) \/ qlink # "up"),
         paused'[n] => paused[n]
  PROVE  Agent(n)'
<1>0. Agent(n)
  BY DEF QueuesInv
<1>1. /\ Busy(n)' <=> Busy(n)
      /\ Restoring' <=> Restoring
      /\ HasKey(n)' <=> HasKey(n)
  BY DEF Busy, Restoring, HasKey, LocationOf
<1>2. OneTask(n)' /\ MemoryLikeKey(n)' /\ Shown(n)'
  BY <1>0, <1>1 DEF Agent, OneTask, MemoryLikeKey, Shown, About, HasKey, LocationOf, OnOff
<1>3. ASSUME Peaceful(n)' PROVE TaskWanted(n)' /\ KeyWanted(n)' /\ PauseFollows(n)'
  BY <1>0, <1>1, <1>3 DEF Agent, InPeace, TaskWanted, KeyWanted, PauseFollows, About, HasKey, LocationOf
<1> QED
  BY <1>2, <1>3 DEF Agent, InPeace

\* After the memory was cleared the pauses are yet to be restored.
LEMMA AgentForgotten ==
  ASSUME QueuesInv, NEW n \in Member,
         UNCHANGED <<pausekey, paused, wanted, aliased>>,
         members'[n] = "none", Restoring', ToRestore(n)',
         \A i \in WId : About(i, n)' => About(i, n) /\ work'[i] = work[i],
         \A r \in RId : (restore[r].at = "pause" /\ LocationOf(n) \in restore[r].todo)'
                          => restore[r].at = "pause" /\ LocationOf(n) \in restore[r].todo,
         Plain(n)' => Plain(n),
         Peaceful(n)' => Peaceful(n) /\ (~Busy(n) \/ qlink # "up")
  PROVE  Agent(n)'
<1>0. Agent(n)
  BY DEF QueuesInv
<1>1. HasKey(n)' = HasKey(n)
  BY DEF HasKey, LocationOf
<1>2. OneTask(n)' /\ MemoryLikeKey(n)' /\ Shown(n)'
  BY <1>0 DEF Agent, OneTask, MemoryLikeKey, Shown
<1>3. ASSUME Peaceful(n)' PROVE TaskWanted(n)' /\ KeyWanted(n)' /\ PauseFollows(n)'
  BY <1>0, <1>1, <1>3 DEF Agent, InPeace, TaskWanted, KeyWanted, PauseFollows
<1> QED
  BY <1>2, <1>3 DEF Agent, InPeace

\* What an excuse does to the agents that get it, and to the others.
LEMMA ExcusedDoes ==
  ASSUME QueuesTypeOK, NEW M \in SUBSET Member, NEW x \in Reason, Excused(M, x)
  PROVE  /\ excuse' \in [Member -> SUBSET Reason]
         /\ \A n \in Member : /\ excuse[n] \subseteq excuse'[n]
                              /\ Plain(n)' => Plain(n)
                              /\ Peaceful(n)' => Peaceful(n) /\ n \notin M
                              /\ n \in M => x \in excuse'[n]
<1>1. excuse' = [n \in Member |-> IF n \in M THEN excuse[n] \cup {x} ELSE excuse[n]]
  BY DEF Excused
<1> QED
  BY <1>1 DEF QueuesTypeOK, Plain, Peaceful

\* Restart, QDrop: the connection is lost, and an agent with a task has an excuse.
LEMMA QDropKeeps ==
  ASSUME QueuesInv, Restart \/ QDrop
  PROVE  QueuesInv'
<1>1. /\ QueuesTypeOK /\ Bookkeeping /\ CallersKnown
      /\ \A n \in Member : Agent(n)
  BY DEF QueuesInv
<1>2. /\ qlink' = "down" /\ listing' = [m \in Member |-> "none"]
      /\ paused' \in [Member -> BOOLEAN] /\ \A n \in Member : paused'[n] => paused[n]
      /\ waiting' \subseteq waiting
      /\ UNCHANGED <<aliased, wanted, joined, memoryVars, pausekey, work, restore,
                     wake, woken, orders, unseen>>
  BY <1>1 DEF Restart, QDrop, asteriskVars, QueuesTypeOK
<1>3. troubles' \in 0 .. MaxTroubles
  BY <1>1, QueuesAssumption DEF Restart, QDrop, Trouble, QueuesTypeOK
<1>4. PICK M \in SUBSET Member : M = {m \in Member : Busy(m)}
  OBVIOUS
<1>5. Excused(M, "overlap") /\ "overlap" \in Reason
  BY <1>4 DEF Restart, QDrop, Reason
<1>6. /\ excuse' \in [Member -> SUBSET Reason]
      /\ \A n \in Member : /\ excuse[n] \subseteq excuse'[n]
                           /\ Plain(n)' => Plain(n)
                           /\ Peaceful(n)' => Peaceful(n) /\ n \notin M
  BY <1>1, <1>5, ExcusedDoes
<1>7. QueuesTypeOK'
  BY <1>1, <1>2, <1>3, <1>6 DEF QueuesTypeOK, memoryVars, State
<1>8. Bookkeeping'
  BY <1>1, <1>2, <1>6 DEF Bookkeeping, QueuesTypeOK, memoryVars, LocationOf, StateOf
<1>9. CallersKnown'
  BY <1>2 DEF CallersKnown
<1>10. ASSUME NEW n \in Member PROVE Agent(n)'
  BY <1>2, <1>4, <1>6, AgentUnheard DEF memoryVars
<1> QED
  BY <1>7, <1>8, <1>9, <1>10 DEF QueuesInv

\* QAttach: the listener hears Asterisk again.
LEMMA QAttachKeeps ==
  ASSUME QueuesInv, QAttach
  PROVE  QueuesInv'
<1>1. /\ QueuesTypeOK /\ Bookkeeping /\ CallersKnown
      /\ \A n \in Member : Agent(n)
  BY DEF QueuesInv
<1> USE DEF QAttach, asteriskVars, memoryVars
<1>2. QueuesTypeOK'
  BY <1>1 DEF QueuesTypeOK
<1>3. Bookkeeping'
  BY <1>1 DEF Bookkeeping, LocationOf, StateOf
<1>4. CallersKnown'
  BY DEF CallersKnown
<1>5. ASSUME NEW n \in Member PROVE Agent(n)'
  BY AgentUnheard DEF Plain, Peaceful
<1> QED
  BY <1>2, <1>3, <1>4, <1>5 DEF QueuesInv

\* QAnnounce: the memory is cleared, and the pauses will be restored.
LEMMA QAnnounceKeeps ==
  ASSUME QueuesInv, QAnnounce
  PROVE  QueuesInv'
<1>1. /\ QueuesTypeOK /\ Bookkeeping /\ CallersKnown
      /\ \A n \in Member : Agent(n)
  BY DEF QueuesInv
<1>2. PICK r \in RId : restore[r] = Idle /\ Cleared(r)
  BY DEF QAnnounce
<1> USE DEF QAnnounce, Cleared, Forgotten, asteriskVars
<1>3. restore'[r].at = "scan" /\ \A q \in RId \ {r} : restore'[q] = restore[q]
  BY <1>1, <1>2 DEF QueuesTypeOK
<1>4. QueuesTypeOK'
  <2>1. restore' \in [RId -> [at : {"idle", "scan", "pause"}, todo : SUBSET Interface]]
    BY <1>1, <1>2 DEF QueuesTypeOK
  <2> QED
    BY <1>1, <1>2, <2>1 DEF QueuesTypeOK, State
<1>5. Bookkeeping'
  <2>1. \A q \in RId : restore'[q].at = "idle" => restore'[q].todo = {}
    BY <1>1, <1>3 DEF Bookkeeping
  <2> QED
    BY <1>1, <1>2, <2>1 DEF Bookkeeping, LocationOf, StateOf
<1>6. CallersKnown'
  BY <1>1, <1>2 DEF CallersKnown, QueuesTypeOK
<1>7. ASSUME NEW n \in Member PROVE Agent(n)'
  <2>1. Restoring' /\ ToRestore(n)'
    BY <1>3 DEF Restoring, ToRestore
  <2>2. \A q \in RId : (restore[q].at = "pause" /\ LocationOf(n) \in restore[q].todo)'
                          => restore[q].at = "pause" /\ LocationOf(n) \in restore[q].todo
    BY <1>3 DEF LocationOf
  <2> QED
    BY <1>2, <2>1, <2>2, AgentForgotten DEF Plain, Peaceful, About
<1> QED
  BY <1>4, <1>5, <1>6, <1>7 DEF QueuesInv

\* QCrash: the service starts again, without its tasks and its memory.
LEMMA QCrashKeeps ==
  ASSUME QueuesInv, QCrash
  PROVE  QueuesInv'
<1>1. /\ QueuesTypeOK /\ Bookkeeping /\ CallersKnown
      /\ \A n \in Member : Agent(n)
  BY DEF QueuesInv
<1>2. /\ qlink' = "up" /\ listing' = [m \in Member |-> "none"] /\ wake' = {}
      /\ work' = [i \in WId |-> NoWork] /\ Forgotten
      /\ UNCHANGED <<aliased, paused, wanted, waiting, joined, pausekey, woken, orders>>
  BY DEF QCrash, asteriskVars
<1>3. troubles' \in 0 .. MaxTroubles
  BY <1>1, QueuesAssumption DEF QCrash, Trouble, QueuesTypeOK
<1>4. /\ restore' \in [RId -> [at : {"idle", "scan", "pause"}, todo : SUBSET Interface]]
      /\ restore'[1].at = "scan" /\ \A q \in RId \ {1} : restore'[q] = Idle
  BY DEF QCrash, AllIdle, RId, Idle
<1>5. PICK M \in SUBSET Member : M = {m \in Member : Busy(m)}
  OBVIOUS
<1>6. Excused(M, "redis") /\ "redis" \in Reason
  BY <1>5 DEF QCrash, Reason
<1>7. /\ excuse' \in [Member -> SUBSET Reason]
      /\ \A n \in Member : /\ excuse[n] \subseteq excuse'[n]
                           /\ Plain(n)' => Plain(n)
                           /\ Peaceful(n)' => Peaceful(n) /\ n \notin M
  BY <1>1, <1>6, ExcusedDoes
<1>8. QueuesTypeOK'
  BY <1>1, <1>2, <1>3, <1>4, <1>7 DEF QueuesTypeOK, Forgotten, State
<1>9. Bookkeeping'
  <2>1. \A q \in RId : restore'[q].at = "idle" => restore'[q].todo = {}
    BY <1>4 DEF Idle
  <2> QED
    BY <1>1, <1>2, <1>7, <2>1 DEF Bookkeeping, Forgotten, QueuesTypeOK, LocationOf, StateOf
<1>10. CallersKnown'
  BY <1>1, <1>2 DEF CallersKnown, Forgotten, QueuesTypeOK
<1>11. ASSUME NEW n \in Member PROVE Agent(n)'
  <2>1. Restoring' /\ ToRestore(n)'
    BY <1>4 DEF Restoring, ToRestore, RId
  <2>2. \A q \in RId : (restore[q].at = "pause" /\ LocationOf(n) \in restore[q].todo)'
                          => restore[q].at = "pause" /\ LocationOf(n) \in restore[q].todo
    BY <1>4 DEF LocationOf, Idle
  <2>3. \A i \in WId : ~About(i, n)'
    BY <1>2 DEF About
  <2> QED
    BY <1>2, <1>5, <1>7, <2>1, <2>2, <2>3, AgentForgotten DEF Forgotten
<1> QED
  BY <1>8, <1>9, <1>10, <1>11 DEF QueuesInv

\* Scan: the pauses that will be restored are those with a key.
LEMMA ScanKeeps ==
  ASSUME QueuesInv, NEW r \in RId, Scan(r)
  PROVE  QueuesInv'
<1>1. /\ QueuesTypeOK /\ Bookkeeping /\ CallersKnown
      /\ \A n \in Member : Agent(n)
  BY DEF QueuesInv
<1>2. /\ restore[r].at = "scan"
      /\ UNCHANGED <<aliased, asteriskVars, qlink, memoryVars, pausekey, work, listing,
                     wake, woken, orders, unseen>>
  BY DEF Scan
<1>3. \/ /\ restore' = [restore EXCEPT ![r] = [at |-> "pause", todo |-> pausekey]]
         /\ UNCHANGED <<troubles, excuse>>
      \/ /\ Trouble /\ Excused(Member, "redis")
         /\ restore' = [restore EXCEPT ![r].at = "pause"]
  BY DEF Scan
<1>4. /\ restore' \in [RId -> [at : {"idle", "scan", "pause"}, todo : SUBSET Interface]]
      /\ restore'[r].at = "pause" /\ \A q \in RId \ {r} : restore'[q] = restore[q]
  BY <1>1, <1>3 DEF QueuesTypeOK
<1>5. /\ excuse' \in [Member -> SUBSET Reason] /\ troubles' \in 0 .. MaxTroubles
      /\ \A n \in Member : excuse[n] \subseteq excuse'[n] /\ (Plain(n)' => excuse' = excuse /\ restore'[r].todo = pausekey)
  <2>1. CASE /\ restore' = [restore EXCEPT ![r] = [at |-> "pause", todo |-> pausekey]]
             /\ UNCHANGED <<troubles, excuse>>
    BY <1>1, <2>1 DEF QueuesTypeOK
  <2>2. CASE Trouble /\ Excused(Member, "redis")
    <3>1. troubles' \in 0 .. MaxTroubles
      BY <1>1, <2>2, QueuesAssumption DEF QueuesTypeOK, Trouble
    <3>2. "redis" \in Reason
      BY DEF Reason
    <3> QED
      BY <1>1, <2>2, <3>1, <3>2, ExcusedDoes DEF Plain
  <2> QED
    BY <1>3, <2>1, <2>2
<1>6. QueuesTypeOK'
  BY <1>1, <1>2, <1>4, <1>5 DEF QueuesTypeOK, asteriskVars, memoryVars
<1>7. Bookkeeping'
  <2>1. \A q \in RId : restore'[q].at = "idle" => restore'[q].todo = {}
    BY <1>1, <1>4 DEF Bookkeeping
  <2> QED
    BY <1>1, <1>2, <1>5, <2>1 DEF Bookkeeping, QueuesTypeOK, asteriskVars, memoryVars, LocationOf, StateOf
<1>8. CallersKnown'
  BY <1>1, <1>2 DEF CallersKnown, asteriskVars, memoryVars
<1>9. ASSUME NEW n \in Member PROVE Agent(n)'
  <2>1. /\ Restoring /\ Restoring' /\ HasKey(n)' = HasKey(n) /\ Busy(n)' = Busy(n)
        /\ paused' = paused /\ wanted' = wanted /\ members' = members
        /\ LocationOf(n)' = LocationOf(n)
    BY <1>2, <1>4 DEF Restoring, HasKey, LocationOf, Busy, asteriskVars, memoryVars
  <2>2. Plain(n)' => Plain(n)
    BY <1>5 DEF Plain
  <2>3. OneTask(n)' /\ MemoryLikeKey(n)' /\ Shown(n)'
    BY <1>1, <1>2, <2>1, <2>2 DEF Agent, OneTask, MemoryLikeKey, Shown, About
  <2>4. ASSUME Peaceful(n)' PROVE TaskWanted(n)' /\ KeyWanted(n)' /\ PauseFollows(n)'
    <3>1. /\ Peaceful(n) /\ restore'[r].todo = pausekey
      BY <1>5, <2>4 DEF Peaceful, Plain
    <3>2. TaskWanted(n) /\ HasKey(n) = wanted[n] /\ PauseFollows(n)
      BY <1>1, <2>1, <3>1 DEF Agent, InPeace, KeyWanted
    <3>3. TaskWanted(n)' /\ KeyWanted(n)'
      BY <1>2, <2>1, <3>2 DEF TaskWanted, KeyWanted, About
    <3>4. ToRestore(n)' \/ ~wanted[n]
      BY <1>4, <2>1, <3>1, <3>2 DEF ToRestore, HasKey
    <3>5. \A q \in RId : restore'[q].at = "pause" /\ LocationOf(n) \in restore'[q].todo => wanted[n]
      BY <1>4, <3>1, <3>2 DEF PauseFollows, HasKey
    <3> QED
      BY <2>1, <3>2, <3>3, <3>4, <3>5 DEF PauseFollows, LocationOf
  <2> QED
    BY <2>3, <2>4 DEF Agent, InPeace
<1> QED
  BY <1>6, <1>7, <1>8, <1>9 DEF QueuesInv

\* AskStatus: the pauses are restored, and Asterisk lists the agents.
LEMMA AskStatusKeeps ==
  ASSUME QueuesInv, NEW r \in RId, AskStatus(r)
  PROVE  QueuesInv'
<1>1. /\ QueuesTypeOK /\ Bookkeeping /\ CallersKnown
      /\ \A n \in Member : Agent(n)
  BY DEF QueuesInv
<1>2. /\ restore[r].at = "pause" /\ restore[r].todo = {}
      /\ restore' = [restore EXCEPT ![r] = Idle]
      /\ UNCHANGED <<aliased, asteriskVars, qlink, memoryVars, pausekey, work, wake,
                     woken, orders, troubles, excuse, unseen>>
  BY DEF AskStatus
<1>3. /\ listing' \in [Member -> State]
      /\ \A n \in Member : listing'[n] # "none" => listing'[n] = OnOff(paused[n])
      /\ qlink # "down" => \A n \in Member : listing'[n] # "none"
  BY <1>1 DEF AskStatus, QueuesTypeOK, State, OnOff, Bookkeeping
<1>4. /\ restore' \in [RId -> [at : {"idle", "scan", "pause"}, todo : SUBSET Interface]]
      /\ restore'[r] = Idle /\ \A q \in RId \ {r} : restore'[q] = restore[q]
  BY <1>1, <1>2 DEF QueuesTypeOK, Idle
<1>5. QueuesTypeOK'
  BY <1>1, <1>2, <1>3, <1>4 DEF QueuesTypeOK, asteriskVars, memoryVars
<1>6. Bookkeeping'
  <2>1. \A q \in RId : restore'[q].at = "idle" => restore'[q].todo = {}
    BY <1>1, <1>4 DEF Bookkeeping, Idle
  <2> QED
    BY <1>1, <1>2, <1>3, <2>1 DEF Bookkeeping, asteriskVars, memoryVars, LocationOf, StateOf
<1>7. CallersKnown'
  BY <1>1, <1>2 DEF CallersKnown, asteriskVars, memoryVars
<1>8. ASSUME NEW n \in Member PROVE Agent(n)'
  <2>1. /\ Restoring /\ HasKey(n)' = HasKey(n) /\ Busy(n)' = Busy(n)
        /\ Plain(n)' = Plain(n) /\ Peaceful(n)' = Peaceful(n)
        /\ paused' = paused /\ wanted' = wanted /\ members' = members
    BY <1>2 DEF Restoring, HasKey, LocationOf, Busy, Plain, Peaceful, asteriskVars, memoryVars
  <2>2. OneTask(n)' /\ MemoryLikeKey(n)' /\ Shown(n)'
    BY <1>1, <1>2, <1>3, <2>1 DEF Agent, OneTask, MemoryLikeKey, Shown, About, QueuesTypeOK
  <2>3. ASSUME Peaceful(n)' PROVE TaskWanted(n)' /\ KeyWanted(n)' /\ PauseFollows(n)'
    <3>1. TaskWanted(n) /\ HasKey(n) = wanted[n] /\ PauseFollows(n)
      BY <1>1, <2>1, <2>3 DEF Agent, InPeace, KeyWanted
    <3>2. TaskWanted(n)' /\ KeyWanted(n)'
      BY <1>2, <2>1, <3>1 DEF TaskWanted, KeyWanted, About
    <3>3. ToRestore(n) => ToRestore(n)'
      BY <1>2, <1>4 DEF ToRestore, LocationOf
    <3>4. \A q \in RId : (restore[q].at = "pause" /\ LocationOf(n) \in restore[q].todo)'
                          => restore[q].at = "pause" /\ LocationOf(n) \in restore[q].todo
      BY <1>4 DEF LocationOf, Idle
    <3> QED
      BY <1>2, <2>1, <3>1, <3>2, <3>3, <3>4 DEF PauseFollows
  <2> QED
    BY <2>2, <2>3 DEF Agent, InPeace
<1> QED
  BY <1>5, <1>6, <1>7, <1>8 DEF QueuesInv

\* No step of the queues breaks the invariant.
LEMMA QueuesStep == QueuesInv /\ [QueuesNext]_queueVars => QueuesInv'
<1> SUFFICES ASSUME QueuesInv, [QueuesNext]_queueVars PROVE QueuesInv'
  OBVIOUS
<1>1. ASSUME UNCHANGED queueVars PROVE QueuesInv'
  <2> USE <1>1 DEF queueVars
  <2>1. QueuesTypeOK' /\ Bookkeeping' /\ CallersKnown'
    BY DEF QueuesInv, QueuesTypeOK, Bookkeeping, CallersKnown, LocationOf, StateOf
  <2>2. ASSUME NEW n \in Member PROVE Agent(n)'
    BY AgentStays DEF About, HasKey, LocationOf
  <2> QED
    BY <2>1, <2>2 DEF QueuesInv
<1>2. ASSUME NEW m \in Member, Order(m) \/ Status(m) \/ Bulk(m) PROVE QueuesInv'
  BY <1>2, OrderKeeps, StatusKeeps, BulkKeeps
<1>3. ASSUME NEW i \in WId, Persisted(i) PROVE QueuesInv'
  BY <1>3, PersistedKeeps
<1>4. ASSUME NEW c \in Caller, Join(c) \/ Leave(c) \/ Wake(c) PROVE QueuesInv'
  BY <1>4, CallerJoins, CallerLeaves, WakeKeeps
<1>5. ASSUME Restart \/ QDrop \/ QAttach \/ QAnnounce \/ QCrash PROVE QueuesInv'
  BY <1>5, QDropKeeps, QAttachKeeps, QAnnounceKeeps, QCrashKeeps
<1>6. ASSUME NEW r \in RId,
             \/ Scan(r) \/ AskStatus(r)
             \/ \E m \in Member : RestorePause(r, m) \/ RestoreUnknown(r, m)
      PROVE  QueuesInv'
  BY <1>6, ScanKeeps, AskStatusKeeps, RestorePauseKeeps, RestoreUnknownKeeps
<1> QED
  BY <1>1, <1>2, <1>3, <1>4, <1>5, <1>6 DEF QueuesNext

\* When the queue is settled, an agent's pause is what the excuses allow.
LEMMA SettledIsTrue ==
  QueuesInv => PauseKept /\ PauseIsTrue /\ CallersAreTrue
<1> SUFFICES ASSUME QueuesInv, QSettled PROVE PauseKept /\ PauseIsTrue /\ CallersAreTrue
  BY DEF PauseKept, PauseIsTrue, CallersAreTrue
<1>1. /\ QueuesTypeOK /\ Bookkeeping /\ CallersKnown
      /\ \A n \in Member : Agent(n)
      /\ qlink = "up" /\ restore = AllIdle
      /\ listing = [m \in Member |-> "none"] /\ work = [i \in WId |-> NoWork]
  BY DEF QueuesInv, QSettled, Listed
<1>2. ~Restoring /\ \A m \in Member : ~ToRestore(m) /\ ~Busy(m) /\ listing[m] = "none"
  BY <1>1 DEF Restoring, ToRestore, Busy, AllIdle, Idle
<1>3. PauseKept
  BY <1>1, <1>2 DEF PauseKept, Agent, InPeace, Peaceful, PauseFollows, QueuesTypeOK
<1>4. PauseIsTrue
  BY <1>1, <1>2 DEF PauseIsTrue, Agent, Plain, Shown, MemoryLikeKey, HasKey, OnOff, QueuesTypeOK
<1>5. CallersAreTrue
  BY <1>1 DEF CallersAreTrue, CallersKnown
<1> QED
  BY <1>3, <1>4, <1>5

\* A push goes to the agents that the memory has as not paused.
LEMMA WakesRight ==
  ASSUME QueuesInv, NEW c \in Caller, Wake(c), NEW m \in Member,
         Listed, ~Busy(m), excuse[m] \cap {"overlap", "redis", "alias"} = {}
  PROVE  (m \in woken') = ~paused[m]
<1>1. /\ QueuesTypeOK /\ Bookkeeping /\ Agent(m)
      /\ qlink = "up" /\ restore = AllIdle /\ listing[m] = "none"
  BY DEF QueuesInv, Listed
<1>2. ~Restoring
  BY <1>1 DEF Restoring, AllIdle, Idle
<1>3. members[m] = OnOff(paused[m])
  BY <1>1, <1>2 DEF Agent, Shown, Plain
<1>4. qknown
  BY <1>1, <1>3 DEF Bookkeeping, OnOff
<1>5. woken' = ToWake
  BY <1>4 DEF Wake
<1> QED
  BY <1>1, <1>3, <1>5 DEF ToWake, OnOff, QueuesTypeOK

-----------------------------------------------------------------------------
(* The theorems. *)

\* The invariant holds from the start on, with no troubles over, or some.
LEMMA QueuesAlways == QueuesSpec => []QueuesInv
<1>1. QueuesInit => QueuesInv
  <2>1. {} \in SUBSET Caller /\ 0 \in 0 .. MaxTroubles
    BY QueuesAssumption
  <2> QED
    BY <2>1, QueuesStartWell DEF QueuesInit
<1> QED
  BY <1>1, QueuesStep, PTL DEF QueuesSpec

\* In every state of the listener its variables have their types.
THEOREM QueuesTypes == QueuesSpec => []QueuesTypeOK
<1>1. QueuesInv => QueuesTypeOK
  BY DEF QueuesInv
<1> QED
  BY <1>1, QueuesAlways, PTL

\* A pause survives restarts of Asterisk and of the listener, and an agent who is not
\* paused is not paused by them, unless one of the excuses applies
\* (_restore_queue_member_pauses, _upsert_queue_member).
THEOREM PauseKeptAlways == QueuesSpec => []PauseKept
  BY SettledIsTrue, QueuesAlways, PTL

\* What the listener knows of the agents and of the callers is what Asterisk has, and a
\* push goes to the agents who are not paused (_wake_queue_members).
THEOREM QueueIsTrueAlways == QueuesSpec => QueueIsTrue
<1>1. QueuesInv /\ [QueuesNext]_queueVars
      => [\A c \in Caller : Wake(c) => \A m \in Member :
            Listed /\ ~Busy(m) /\ excuse[m] \cap {"overlap", "redis", "alias"} = {}
              => (m \in woken') = ~paused[m]]_queueVars
  BY WakesRight
<1> QED
  BY <1>1, SettledIsTrue, QueuesAlways, PTL DEF QueueIsTrue, WakesTheUnpaused, QueuesSpec

-----------------------------------------------------------------------------
(* The missed calls. *)

\* What the task and a running service have to do with the three sets: a task posts
\* something, nothing else does while the service is up, and shutdown has begun when
\* `last` is used.  A buffer that no sleeping task will take holds late calls only.
Phases ==
  /\ life = "up" => (flush = "post" <=> posting # {})
  /\ life = "up" => last = {}
  /\ flush = "post" => life = "up"
  /\ life = "up" /\ flush # "sleep" => buffer \subseteq late

MissInv == MissTypeOK /\ NoMissLost /\ Phases

\* Nothing has happened yet.
LEMMA MissStart == MissInit => MissInv
  BY DEF MissInit, MissInv, MissTypeOK, NoMissLost, Phases

\* A caller who gives up is put into the buffer (handle_queue_caller_abandon).
LEMMA AbandonKeeps == ASSUME NEW m \in Miss, MissInv, Abandon(m) PROVE MissInv'
<1> USE DEF MissInv, Abandon, Schedule
<1>1. MissTypeOK'
  BY DEF MissTypeOK
<1>2. NoMissLost'
  BY DEF MissTypeOK, NoMissLost
<1>3. Phases'
  BY DEF MissTypeOK, Phases
<1> QED
  BY <1>1, <1>2, <1>3

\* The window is over: what is in the buffer is what will be posted.
LEMMA FlushKeeps == ASSUME MissInv, Flush PROVE MissInv'
<1> USE DEF MissInv, Flush, Take
<1>1. posting = {}
  BY DEF Phases
<1>2. MissTypeOK'
  BY DEF MissTypeOK
<1>3. NoMissLost'
  BY <1>1 DEF NoMissLost
<1>4. Phases'
  BY DEF Phases
<1> QED
  BY <1>2, <1>3, <1>4

\* The end of a post, whether a task waits for it or not.
LEMMA PostedKeeps == ASSUME MissInv, Posted PROVE MissInv'
<1> USE DEF MissInv, Posted
<1>1. MissTypeOK'
  BY DEF MissTypeOK
<1>2. NoMissLost'
  BY DEF NoMissLost
<1>3. Phases'
  BY DEF Phases
<1> QED
  BY <1>1, <1>2, <1>3

\* The service is told to stop (shutdown).
LEMMA StopKeeps == ASSUME MissInv, Stop PROVE MissInv'
<1> USE DEF MissInv, Stop
<1>1. last = {}
  BY DEF Phases
<1>2. MissTypeOK'
  BY DEF MissTypeOK
<1>3. NoMissLost'
  BY <1>1 DEF NoMissLost
<1>4. Phases'
  BY DEF Phases
<1> QED
  BY <1>2, <1>3, <1>4

\* The last post is over.
LEMMA StoppedKeeps == ASSUME MissInv, Stopped PROVE MissInv'
<1> USE DEF MissInv, Stopped
<1>1. MissTypeOK'
  BY DEF MissTypeOK
<1>2. NoMissLost'
  BY DEF NoMissLost
<1>3. Phases'
  BY DEF Phases
<1> QED
  BY <1>1, <1>2, <1>3

\* Every step keeps the invariant.
LEMMA MissStep == MissInv /\ [MissNext]_missVars => MissInv'
<1> SUFFICES ASSUME MissInv, [MissNext]_missVars PROVE MissInv'
  OBVIOUS
<1>1. CASE \E m \in Miss : Abandon(m)
  BY <1>1, AbandonKeeps
<1>2. CASE Flush
  BY <1>2, FlushKeeps
<1>3. CASE Posted
  BY <1>3, PostedKeeps
<1>4. CASE Stop
  BY <1>4, StopKeeps
<1>5. CASE Stopped
  BY <1>5, StoppedKeeps
<1>6. CASE UNCHANGED missVars
  BY <1>6 DEF MissInv, MissTypeOK, NoMissLost, Phases, missVars
<1> QED
  BY <1>1, <1>2, <1>3, <1>4, <1>5, <1>6 DEF MissNext

\* The invariant holds in every state of a behaviour.
LEMMA MissAlways == MissSpec => []MissInv
  BY MissStart, MissStep, PTL DEF MissSpec

\* The variables of the missed calls keep their types.
THEOREM MissTypesKept == MissSpec => []MissTypeOK
<1>1. MissInv => MissTypeOK
  BY DEF MissInv
<1> QED
  BY <1>1, MissAlways, PTL

\* What the invariant says of the missed calls.
LEMMA MissesFollow == MissInv => MissesAreKept
  BY DEF MissInv, MissesAreKept, Phases, OnlyLateOnesWait

\* No missed call is lost or told twice, and what waits without a task came late
\* (handle_queue_caller_abandon, _flush_missed_after_window, shutdown).
THEOREM MissesKept == MissSpec => []MissesAreKept
  BY MissesFollow, MissAlways, PTL

-----------------------------------------------------------------------------
(* The refinement: what a step does to the status of the calls.                *)

\* A call that has not been missed has no status; what waits anywhere is held.
LEMMA StatusByPlace ==
  ASSUME MissInv, NEW m \in Miss
  PROVE  /\ m \in told => StatusOf(m) = "told"
         /\ m \in failed => StatusOf(m) = "failed"
         /\ m \in buffer \cup posting \cup last => StatusOf(m) = "held"
         /\ m \notin abandoned => StatusOf(m) = "none"
<1> USE DEF MissInv, NoMissLost
<1>1. CASE m \in abandoned
  BY <1>1 DEF StatusOf
<1>2. CASE m \notin abandoned
  BY <1>2 DEF StatusOf
<1> QED
  BY <1>1, <1>2

\* The same, after a step.
LEMMA NextStatusByPlace ==
  ASSUME MissInv', NEW m \in Miss
  PROVE  /\ m \in told' => StatusOf(m)' = "told"
         /\ m \in failed' => StatusOf(m)' = "failed"
         /\ m \in (buffer \cup posting \cup last)' => StatusOf(m)' = "held"
         /\ m \notin abandoned' => StatusOf(m)' = "none"
<1> USE DEF MissInv, NoMissLost
<1>1. CASE m \in abandoned'
  BY <1>1 DEF StatusOf
<1>2. CASE m \notin abandoned'
  BY <1>2 DEF StatusOf
<1> QED
  BY <1>1, <1>2

\* A step that only moves calls between the places where they are held changes no
\* status.
LEMMA MovedIsHeld ==
  ASSUME MissInv, MissInv', UNCHANGED <<abandoned, told, failed>>
  PROVE  \A m \in Miss : StatusOf(m)' = StatusOf(m)
<1> SUFFICES ASSUME NEW m \in Miss PROVE StatusOf(m)' = StatusOf(m)
  OBVIOUS
<1>1. CASE m \in told \cup failed \/ m \notin abandoned
  BY <1>1, StatusByPlace, NextStatusByPlace
<1>2. CASE m \in abandoned \ (told \cup failed)
  <2>1. m \in buffer \cup posting \cup last
    BY <1>2 DEF MissInv, NoMissLost
  <2>2. m \in (buffer \cup posting \cup last)'
    BY <1>2 DEF MissInv, NoMissLost
  <2> QED
    BY <2>1, <2>2, StatusByPlace, NextStatusByPlace
<1> QED
  BY <1>1, <1>2

\* A step that settles the calls in `batch`, all of which were held, in one way.
LEMMA BatchSettled ==
  ASSUME MissInv, MissInv', abandoned' = abandoned,
         NEW batch \in SUBSET Miss, batch \subseteq posting \cup last,
         \/ told' = told \cup batch /\ failed' = failed
         \/ failed' = failed \cup batch /\ told' = told
  PROVE  \/ Promise!Settle(batch, "told")
         \/ Promise!Settle(batch, "failed")
<1> DEFINE outcome == IF told' = told \cup batch /\ failed' = failed THEN "told" ELSE "failed"
<1>1. \A m \in batch : StatusOf(m) = "held"
  BY StatusByPlace
<1>2. ASSUME NEW m \in Miss
      PROVE  StatusOf(m)' = IF m \in batch THEN outcome ELSE StatusOf(m)
  <2>1. CASE m \in batch
    BY <2>1, NextStatusByPlace
  <2>2. CASE m \notin batch /\ (m \in told \cup failed \/ m \notin abandoned)
    BY <2>2, StatusByPlace, NextStatusByPlace
  <2>3. CASE m \notin batch /\ m \in abandoned \ (told \cup failed)
    <3>1. m \in buffer \cup posting \cup last
      BY <2>3 DEF MissInv, NoMissLost
    <3>2. m \in (buffer \cup posting \cup last)'
      BY <2>3 DEF MissInv, NoMissLost
    <3> QED
      BY <2>3, <3>1, <3>2, StatusByPlace, NextStatusByPlace
  <2> QED
    BY <2>1, <2>2, <2>3
<1>3. Promise!Settle(batch, outcome)
  BY <1>1, <1>2 DEF Promise!Settle
<1> QED
  BY <1>3

\* Every step is one of the outbox, or none.
LEMMA StepOfOutbox ==
  MissInv /\ MissInv' /\ [MissNext]_missVars
  => [Promise!OutboxNext]_([m \in Miss |-> StatusOf(m)])
<1> SUFFICES ASSUME MissInv, MissInv', [MissNext]_missVars
             PROVE  [Promise!OutboxNext]_([m \in Miss |-> StatusOf(m)])
  OBVIOUS
<1>1. ASSUME NEW m \in Miss, Abandon(m) PROVE Promise!Accept(m)
  <2>1. StatusOf(m) = "none" /\ StatusOf(m)' = "held"
    BY <1>1, StatusByPlace, NextStatusByPlace DEF Abandon
  <2>2. ASSUME NEW n \in Miss, n # m PROVE StatusOf(n)' = StatusOf(n)
    BY <1>1, <2>2 DEF StatusOf, Abandon
  <2> QED
    BY <2>1, <2>2 DEF Promise!Accept
<1>2. CASE Flush \/ Stop \/ UNCHANGED missVars
  <2>1. UNCHANGED <<abandoned, told, failed>>
    BY <1>2 DEF Flush, Stop, missVars
  <2> QED
    BY <2>1, MovedIsHeld
<1>3. CASE Posted
  <2>1. posting \in SUBSET Miss
    BY DEF MissInv, MissTypeOK
  <2>2. Promise!Settle(posting, "told") \/ Promise!Settle(posting, "failed")
    BY <1>3, <2>1, BatchSettled DEF Posted
  <2> QED
    BY <2>1, <2>2 DEF Promise!OutboxNext
<1>4. CASE Stopped
  <2>1. last \in SUBSET Miss
    BY DEF MissInv, MissTypeOK
  <2>2. Promise!Settle(last, "told") \/ Promise!Settle(last, "failed")
    BY <1>4, <2>1, BatchSettled DEF Stopped
  <2> QED
    BY <2>1, <2>2 DEF Promise!OutboxNext
<1> QED
  BY <1>1, <1>2, <1>3, <1>4 DEF MissNext, Promise!OutboxNext

\* The reports implement the outbox: a call that was told or given up stays so, and
\* batches are settled as a whole (_flush_missed_after_window, shutdown).
THEOREM ReportsAreAnOutbox == MissSpec => ReportsLikeAnOutbox
<1>1. MissInit => Promise!OutboxInit
  BY DEF MissInit, Promise!OutboxInit, StatusOf
<1>2. MissInv /\ MissInv' /\ [MissNext]_missVars
      => [Promise!OutboxNext]_([m \in Miss |-> StatusOf(m)])
  BY StepOfOutbox
<1> QED
  BY <1>1, <1>2, MissAlways, PTL DEF MissSpec, ReportsLikeAnOutbox, Promise!OutboxSpec

-----------------------------------------------------------------------------
(* The connection. *)

\* The flag tells whether a thread is on its way through _reconnect_loop.
FlagIsTheLoop ==
  looper["connect"] + looper["attach"] + looper["leave"] = IF flag THEN 1 ELSE 0

\* Until a loss is acted upon too late, self.ami is the only connection that may
\* stand, and it does not while a thread is about to replace it.
OnlyTheCurrent ==
  /\ alive \cap unnoticed = {}
  /\ current <= opened /\ ping <= opened
  /\ \A n \in alive \cup unnoticed \cup feeding : n <= opened
  /\ ~stale => alive \subseteq {current}
  /\ ~stale /\ looper["connect"] > 0 => current \notin alive

ReconnectInv == ReconnectTypeOK /\ FlagIsTheLoop /\ OnlyTheCurrent

\* One connection stands and no thread runs.
LEMMA ReconnectStart == ReconnectInit => ReconnectInv
<1> SUFFICES ASSUME ReconnectInit PROVE ReconnectInv
  OBVIOUS
<1>1. ReconnectTypeOK
  <2>1. flag \in BOOLEAN /\ stale \in BOOLEAN
    BY DEF ReconnectInit
  <2>2. 1 \in Conn /\ 0 \in 0 .. MaxBreaks
    BY ReconnectAssumption DEF Conn
  <2>3. looper \in [Step -> Nat]
    BY DEF ReconnectInit, NoLooper
  <2> QED
    BY <2>1, <2>2, <2>3 DEF ReconnectInit, ReconnectTypeOK
<1>2. FlagIsTheLoop
  BY DEF ReconnectInit, FlagIsTheLoop, NoLooper, Step
<1>3. OnlyTheCurrent
  BY DEF ReconnectInit, OnlyTheCurrent, NoLooper, Step, NoConn
<1> QED
  BY <1>1, <1>2, <1>3 DEF ReconnectInv

\* A connection breaks.
LEMMA BreakKeeps == ASSUME ReconnectInv, NEW n \in Conn, Break(n) PROVE ReconnectInv'
<1> USE ReconnectAssumption DEF ReconnectInv, Break
<1>1. ReconnectTypeOK'
  BY DEF ReconnectTypeOK
<1>2. FlagIsTheLoop'
  BY DEF FlagIsTheLoop
<1>3. OnlyTheCurrent'
  BY DEF OnlyTheCurrent
<1> QED
  BY <1>1, <1>2, <1>3

\* What _start_reconnect does to the thread that connects, for a connection that is
\* broken.
LEMMA StartKeeps ==
  ASSUME ReconnectInv, NEW n \in Conn, n \notin alive, StartReconnect(n)
  PROVE  /\ flag' \in BOOLEAN /\ stale' \in BOOLEAN /\ looper' \in [Step -> Nat]
         /\ FlagIsTheLoop'
         /\ ~stale' => ~stale
         /\ ~stale' /\ looper'["connect"] > 0 => current \notin alive
<1> USE DEF ReconnectInv, ReconnectTypeOK, StartReconnect, FlagIsTheLoop, Step
<1>1. CASE flag
  BY <1>1 DEF OnlyTheCurrent
<1>2. CASE ~flag
  <2>1. /\ looper' = [looper EXCEPT !["connect"] = @ + 1]
        /\ flag' = TRUE /\ stale' = (stale \/ n # current)
    BY <1>2
  <2>2. looper["connect"] = 0 /\ looper["attach"] = 0 /\ looper["leave"] = 0
    BY <1>2
  <2>3. looper'["connect"] = 1 /\ looper'["attach"] = 0 /\ looper'["leave"] = 0
    BY <2>1, <2>2
  <2>4. flag' \in BOOLEAN /\ stale' \in BOOLEAN
    BY <2>1
  <2>5. looper' \in [Step -> Nat]
    BY <2>1
  <2>6. FlagIsTheLoop'
    BY <2>1, <2>3
  <2>7. (~stale' => ~stale) /\ (~stale' => current \notin alive)
    BY <2>1
  <2> QED
    BY <2>4, <2>5, <2>6, <2>7
<1> QED
  BY <1>1, <1>2

\* The reader of a connection notices that it is broken.
LEMMA OnDisconnectKeeps ==
  ASSUME ReconnectInv, NEW n \in Conn, OnDisconnect(n) PROVE ReconnectInv'
<1>1. n \notin alive
  BY DEF ReconnectInv, OnlyTheCurrent, OnDisconnect
<1>2. StartReconnect(n)
  BY DEF OnDisconnect
<1>3. /\ flag' \in BOOLEAN /\ stale' \in BOOLEAN /\ looper' \in [Step -> Nat]
      /\ FlagIsTheLoop'
      /\ ~stale' => ~stale
      /\ ~stale' /\ looper'["connect"] > 0 => current \notin alive
  BY <1>1, <1>2, StartKeeps
<1>4. ReconnectTypeOK'
  BY <1>3 DEF ReconnectInv, ReconnectTypeOK, OnDisconnect
<1>5. OnlyTheCurrent'
  BY <1>3 DEF ReconnectInv, OnlyTheCurrent, OnDisconnect
<1> QED
  BY <1>3, <1>4, <1>5 DEF ReconnectInv

\* The client is replaced.
LEMMA ConnectKeeps == ASSUME ReconnectInv, Connect PROVE ReconnectInv'
<1> USE ReconnectAssumption DEF ReconnectInv, Connect, Moves
<1>1. ReconnectTypeOK'
  BY DEF ReconnectTypeOK, FlagIsTheLoop, Step, Conn
<1>2. FlagIsTheLoop'
  BY DEF FlagIsTheLoop, ReconnectTypeOK, Step
<1>3. looper'["connect"] = 0
  BY DEF FlagIsTheLoop, ReconnectTypeOK, Step
<1>4. OnlyTheCurrent'
  BY <1>3 DEF OnlyTheCurrent, ReconnectTypeOK, Conn, NoConn
<1> QED
  BY <1>1, <1>2, <1>4

\* The event listener is added to it.
LEMMA FeedKeeps == ASSUME ReconnectInv, Feed PROVE ReconnectInv'
<1> USE ReconnectAssumption DEF ReconnectInv, Feed, Moves
<1>1. ReconnectTypeOK'
  BY DEF ReconnectTypeOK, FlagIsTheLoop, Step
<1>2. FlagIsTheLoop'
  BY DEF FlagIsTheLoop, ReconnectTypeOK, Step
<1>3. OnlyTheCurrent'
  BY DEF OnlyTheCurrent, FlagIsTheLoop, ReconnectTypeOK, Step
<1> QED
  BY <1>1, <1>2, <1>3

\* The thread ends.
LEMMA LeaveKeeps == ASSUME ReconnectInv, LeaveLoop PROVE ReconnectInv'
<1> USE ReconnectAssumption DEF ReconnectInv, LeaveLoop
<1>1. ReconnectTypeOK'
  <2>1. flag' \in BOOLEAN
    OBVIOUS
  <2>2. looper' \in [Step -> Nat]
    BY DEF ReconnectTypeOK, Step
  <2> QED
    BY <2>1, <2>2 DEF ReconnectTypeOK
<1>2. FlagIsTheLoop'
  BY DEF FlagIsTheLoop, ReconnectTypeOK, Step
<1>3. OnlyTheCurrent'
  BY DEF OnlyTheCurrent, FlagIsTheLoop, ReconnectTypeOK, Step
<1> QED
  BY <1>1, <1>2, <1>3

\* The health check begins a ping.
LEMMA PingStartKeeps == ASSUME ReconnectInv, PingStart PROVE ReconnectInv'
  BY DEF ReconnectInv, PingStart, ReconnectTypeOK, FlagIsTheLoop, OnlyTheCurrent

\* The ping is answered, or not.
LEMMA PingEndKeeps == ASSUME ReconnectInv, PingEnd PROVE ReconnectInv'
<1>1. CASE ping \in alive
  BY <1>1, ReconnectAssumption
  DEF ReconnectInv, PingEnd, ReconnectTypeOK, FlagIsTheLoop, OnlyTheCurrent, Conn, NoConn
<1>2. CASE ping \notin alive
  <2>1. ping \in Conn /\ StartReconnect(ping)
    BY <1>2 DEF PingEnd, ReconnectInv, ReconnectTypeOK
  <2>2. /\ flag' \in BOOLEAN /\ stale' \in BOOLEAN /\ looper' \in [Step -> Nat]
        /\ FlagIsTheLoop'
        /\ ~stale' => ~stale
        /\ ~stale' /\ looper'["connect"] > 0 => current \notin alive
    BY <1>2, <2>1, StartKeeps
  <2>3. ReconnectTypeOK'
    BY <2>2 DEF ReconnectInv, ReconnectTypeOK, PingEnd
  <2>4. OnlyTheCurrent'
    BY <2>2, ReconnectAssumption
    DEF ReconnectInv, ReconnectTypeOK, OnlyTheCurrent, PingEnd, Conn, NoConn
  <2> QED
    BY <2>2, <2>3, <2>4 DEF ReconnectInv
<1> QED
  BY <1>1, <1>2

\* Every step keeps the invariant.
LEMMA ReconnectStep == ReconnectInv /\ [ReconnectNext]_amiVars => ReconnectInv'
<1> SUFFICES ASSUME ReconnectInv, [ReconnectNext]_amiVars PROVE ReconnectInv'
  OBVIOUS
<1>1. CASE \E n \in Conn : Break(n)
  BY <1>1, BreakKeeps
<1>2. CASE \E n \in Conn : OnDisconnect(n)
  BY <1>2, OnDisconnectKeeps
<1>3. CASE Connect
  BY <1>3, ConnectKeeps
<1>4. CASE Feed
  BY <1>4, FeedKeeps
<1>5. CASE LeaveLoop
  BY <1>5, LeaveKeeps
<1>6. CASE PingStart
  BY <1>6, PingStartKeeps
<1>7. CASE PingEnd
  BY <1>7, PingEndKeeps
<1>8. CASE UNCHANGED amiVars
  BY <1>8 DEF amiVars, ReconnectInv, ReconnectTypeOK, FlagIsTheLoop, OnlyTheCurrent
<1> QED
  BY <1>1, <1>2, <1>3, <1>4, <1>5, <1>6, <1>7, <1>8 DEF ReconnectNext

\* The invariant holds in every state of a behaviour.
LEMMA ReconnectAlways == ReconnectSpec => []ReconnectInv
  BY ReconnectStart, ReconnectStep, PTL DEF ReconnectSpec

\* The variables of the connection keep their types.
THEOREM ReconnectTypesKept == ReconnectSpec => []ReconnectTypeOK
<1>1. ReconnectInv => ReconnectTypeOK
  BY DEF ReconnectInv
<1> QED
  BY <1>1, ReconnectAlways, PTL

\* What the invariant says of the connections.
LEMMA OneConnectionFollows == ReconnectInv => OneConnection
<1>1. ReconnectInv => OneReconnectLoop
  BY DEF ReconnectInv, FlagIsTheLoop, OneReconnectLoop, ReconnectTypeOK, Step
<1>2. ReconnectInv => TwoFeedsOnlyIfStale
  <2> SUFFICES ASSUME ReconnectInv, ~stale
               PROVE  ~(Cardinality(alive \cap feeding) > 1)
    BY DEF TwoFeedsOnlyIfStale
  <2>1. alive \cap feeding \subseteq {current}
    BY DEF ReconnectInv, OnlyTheCurrent
  <2>2. IsFiniteSet({current}) /\ Cardinality({current}) = 1
    BY FS_Singleton
  <2>3. /\ Cardinality(alive \cap feeding) \in Nat
        /\ Cardinality(alive \cap feeding) <= Cardinality({current})
    BY <2>1, <2>2, FS_Subset, FS_CardinalityType
  <2> QED
    BY <2>2, <2>3
<1> QED
  BY <1>1, <1>2 DEF OneConnection

\* One thread at a time connects, and two connections feed the loop only if a loss
\* was acted upon after its connection had been replaced (_start_reconnect,
\* on_disconnect, health_check_loop).
THEOREM OneConnectionKept == ReconnectSpec => []OneConnection
  BY OneConnectionFollows, ReconnectAlways, PTL

-----------------------------------------------------------------------------
(* The webhooks. *)

Away(e) == IF leg[e] = "away" THEN 1 ELSE 0

\* What holds of the delivery of one event.
TryInv(e) ==
  /\ sender[e] = "none" <=> e > fired
  /\ sender[e] = "none" => tries[e] = 0
  /\ sender[e] = "posting" => tries[e] > 0 /\ leg[e] # "none"
  /\ sender[e] \in {"queued", "sleeping"} => tries[e] <= Retries
  /\ tries[e] <= Retries + 1
  /\ sender[e] = "cancelled" => service # "up"

\* What the receiver has of it: nothing that was not tried, something of what is told
\* to be sent, and with no answer lost nothing before an attempt is accepted.
GotInv(e) ==
  /\ Receipts(e) + stray[e] + Away(e) <= tries[e]
  /\ leg[e] = "accepted" \/ sender[e] = "sent" => Receipts(e) > 0
  /\ ~TimedOut(e) =>
       /\ Receipts(e) + stray[e] + Away(e) <= 1
       /\ sender[e] \in {"none", "queued", "sleeping", "failed"} \/ leg[e] = "refused"
            => Receipts(e) + stray[e] = 0

\* An earlier event that was not being sent when a later one was fired had its end, and
\* if that was a success it arrived first.
Before(e, d) ==
  /\ sender[e] \in {"sent", "failed", "cancelled"}
  /\ sender[e] = "sent" =>
       \A i \in DOMAIN got : got[i] = d => \E k \in 1 .. i - 1 : got[k] = e
InTurn == \A d \in Fired : \A e \in 1 .. d - 1 : e \notin overlap[d] => Before(e, d)

DeliveryInv ==
  /\ DeliveryTypeOK
  /\ \A e \in Events : TryInv(e) /\ GotInv(e)
  /\ InTurn

\* The events that were fired, and those before them, are events.
LEMMA FiredEvents ==
  ASSUME DeliveryTypeOK, NEW d \in Fired
  PROVE  d \in Events /\ d \in Nat /\ \A c \in 1 .. d - 1 : c \in Events /\ c \in Fired
<1>1. fired \in Nat /\ fired <= MaxFired /\ MaxFired \in Nat
  BY DeliveryAssumption DEF DeliveryTypeOK
<1> QED
  BY <1>1 DEF Fired, Events

-----------------------------------------------------------------------------
(* Counting what the receiver has got. *)

LEMMA ReceiptsFinite ==
  ASSUME DeliveryTypeOK, NEW e \in Events
  PROVE  /\ IsFiniteSet({i \in DOMAIN got : got[i] = e})
         /\ Receipts(e) \in Nat
         /\ Receipts(e) > 0 <=> \E i \in DOMAIN got : got[i] = e
<1> DEFINE I == {i \in DOMAIN got : got[i] = e}
<1>1. Len(got) \in Nat /\ DOMAIN got = 1 .. Len(got)
  BY DEF DeliveryTypeOK
<1>2. IsFiniteSet(1 .. Len(got))
  BY <1>1, FS_Interval
<1>3. I \subseteq 1 .. Len(got)
  BY <1>1
<1>4. IsFiniteSet(I)
  BY <1>2, <1>3, FS_Subset
<1>5. Cardinality(I) \in Nat /\ (Cardinality(I) = 0 <=> I = {})
  BY <1>4, FS_CardinalityType, FS_EmptySet
<1> QED
  BY <1>4, <1>5 DEF Receipts

\* One more receipt counts for its event and for no other.
LEMMA OneMore ==
  ASSUME DeliveryTypeOK, NEW e \in Events, NEW d \in Events, got' = Append(got, e)
  PROVE  Receipts(d)' = Receipts(d) + IF d = e THEN 1 ELSE 0
<1> DEFINE I == {i \in DOMAIN got : got[i] = d}
           J == {i \in 1 .. Len(got) + 1 : Append(got, e)[i] = d}
<1>1. Len(got) \in Nat /\ got \in Seq(Events) /\ DOMAIN got = 1 .. Len(got)
  BY DEF DeliveryTypeOK
<1>2. /\ DOMAIN Append(got, e) = 1 .. Len(got) + 1
      /\ \A i \in 1 .. Len(got) : Append(got, e)[i] = got[i]
      /\ Append(got, e)[Len(got) + 1] = e
  BY <1>1
<1>3. Receipts(d)' = Cardinality(J)
  BY <1>2 DEF Receipts
<1>4. IsFiniteSet(I) /\ Len(got) + 1 \notin I /\ Receipts(d) = Cardinality(I)
  BY <1>1, ReceiptsFinite DEF Receipts
<1>5. CASE d = e
  <2>1. J = I \cup {Len(got) + 1}
    BY <1>1, <1>2, <1>5
  <2> QED
    BY <1>3, <1>4, <1>5, <2>1, FS_AddElement
<1>6. CASE d # e
  <2>1. J = I
    BY <1>1, <1>2, <1>6
  <2>2. Receipts(d) \in Nat
    BY ReceiptsFinite
  <2>3. Receipts(d)' = Receipts(d)
    BY <1>3, <1>4, <2>1
  <2> QED
    BY <1>6, <2>2, <2>3
<1> QED
  BY <1>5, <1>6

\* The earlier ones keep their places.
LEMMA PlacesKept ==
  ASSUME DeliveryTypeOK, NEW e \in Events, got' = Append(got, e)
  PROVE  /\ got' \in Seq(Events)
         /\ DOMAIN got = 1 .. Len(got) /\ Len(got) \in Nat
         /\ DOMAIN got' = 1 .. Len(got) + 1
         /\ \A i \in 1 .. Len(got) : got'[i] = got[i]
         /\ got'[Len(got) + 1] = e
  BY DEF DeliveryTypeOK

-----------------------------------------------------------------------------
(* The order of arrival. *)

\* A receipt of an event keeps the order: those before it had ended.
LEMMA ArrivalInTurn ==
  ASSUME DeliveryInv, NEW e \in Events, got' = Append(got, e),
         UNCHANGED <<fired, sender, overlap>>
  PROVE  InTurn'
<1> SUFFICES ASSUME NEW d \in Fired', NEW c \in 1 .. d - 1, c \notin overlap'[d]
             PROVE  Before(c, d)'
  BY DEF InTurn
<1>1. d \in Fired /\ d \in Events /\ c \in Events
  BY FiredEvents DEF DeliveryInv, Fired
<1>2. Before(c, d)
  BY <1>1 DEF DeliveryInv, InTurn
<1>3. /\ DOMAIN got = 1 .. Len(got) /\ Len(got) \in Nat
      /\ DOMAIN got' = 1 .. Len(got) + 1
      /\ \A i \in 1 .. Len(got) : got'[i] = got[i]
      /\ got'[Len(got) + 1] = e
  BY PlacesKept DEF DeliveryInv
<1>4. ASSUME sender[c] = "sent", NEW i \in DOMAIN got', got'[i] = d
      PROVE  \E k \in 1 .. i - 1 : got'[k] = c
  <2>1. CASE i \in 1 .. Len(got)
    <3>1. PICK k \in 1 .. i - 1 : got[k] = c
      BY <1>2, <1>3, <1>4, <2>1 DEF Before
    <3>2. k \in 1 .. Len(got)
      BY <1>3, <2>1
    <3>3. got'[k] = c
      BY <1>3, <3>1, <3>2
    <3> QED
      BY <3>1, <3>3
  <2>2. CASE i = Len(got) + 1
    <3>1. Receipts(c) > 0
      BY <1>1, <1>4 DEF DeliveryInv, GotInv
    <3>2. PICK k \in DOMAIN got : got[k] = c
      BY <1>1, <3>1, ReceiptsFinite DEF DeliveryInv
    <3>3. k \in 1 .. i - 1 /\ got'[k] = c
      BY <1>3, <2>2, <3>2
    <3> QED
      BY <3>3
  <2> QED
    BY <1>3, <2>1, <2>2
<1> QED
  BY <1>2, <1>4 DEF Before

\* So does a step that ends or moves only deliveries that are under way.
LEMMA EndedStay ==
  ASSUME DeliveryInv, UNCHANGED <<fired, got, overlap>>,
         \A e \in Events : sender[e] \in {"sent", "failed", "cancelled"}
                          => sender'[e] = sender[e]
  PROVE  InTurn'
<1> SUFFICES ASSUME NEW d \in Fired', NEW c \in 1 .. d - 1, c \notin overlap'[d]
             PROVE  Before(c, d)'
  BY DEF InTurn
<1>1. d \in Fired /\ c \in Events
  BY FiredEvents DEF DeliveryInv, Fired
<1>2. Before(c, d)
  BY <1>1 DEF DeliveryInv, InTurn
<1> QED
  BY <1>1, <1>2 DEF Before

-----------------------------------------------------------------------------
(* The steps. *)

LEMMA DeliveryStart == DeliveryInit => DeliveryInv
<1> SUFFICES ASSUME DeliveryInit PROVE DeliveryInv
  OBVIOUS
<1>1. DeliveryTypeOK
  BY DeliveryAssumption DEF DeliveryInit, DeliveryTypeOK, States, Events
<1>2. ASSUME NEW e \in Events PROVE TryInv(e) /\ GotInv(e)
  <2>1. Receipts(e) = 0
    <3>1. {i \in DOMAIN got : got[i] = e} = {}
      BY DEF DeliveryInit
    <3> QED
      BY <3>1, FS_EmptySet DEF Receipts
  <2> QED
    BY <2>1, DeliveryAssumption DEF DeliveryInit, TryInv, GotInv, Away, Events
<1>3. InTurn
  BY DEF DeliveryInit, InTurn, Fired
<1> QED
  BY <1>1, <1>2, <1>3 DEF DeliveryInv

\* An event of which nothing changes keeps what holds of it; other events may.
LEMMA Untouched ==
  ASSUME DeliveryInv, NEW d \in Events,
         sender'[d] = sender[d], tries'[d] = tries[d], leg'[d] = leg[d],
         stray'[d] = stray[d], Receipts(d)' = Receipts(d),
         d > fired' <=> d > fired,
         service # "up" => service' # "up",
         TimedOut(d) => TimedOut(d)'
  PROVE  TryInv(d)' /\ GotInv(d)'
<1>1. TryInv(d) /\ GotInv(d)
  BY DEF DeliveryInv
<1>2. TryInv(d)'
  BY <1>1 DEF TryInv
<1>3. GotInv(d)'
  BY <1>1 DEF GotInv, Away
<1> QED
  BY <1>2, <1>3

\* An attempt that timed out stays one.
LEMMA TimedOutStays ==
  ASSUME DeliveryTypeOK, NEW d \in Events, timeouts \subseteq timeouts',
         tries'[d] \in Nat, tries'[d] >= tries[d], TimedOut(d)
  PROVE  TimedOut(d)'
<1>1. PICK n \in 1 .. tries[d] : <<d, n>> \in timeouts
  BY DEF TimedOut
<1>2. n \in 1 .. tries'[d]
  BY DEF DeliveryTypeOK
<1> QED
  BY <1>1, <1>2 DEF TimedOut

\* A new event of the call is handed over (_fire).
LEMMA FireKeeps == ASSUME DeliveryInv, FireNext PROVE DeliveryInv'
<1> USE DEF FireNext
<1>1. DeliveryTypeOK /\ fired \in Nat /\ fired + 1 \in Events
  <2>1. DeliveryTypeOK
    BY DEF DeliveryInv
  <2>2. MaxFired \in Nat /\ fired \in 0 .. MaxFired /\ fired < MaxFired
    BY <2>1, DeliveryAssumption DEF DeliveryTypeOK
  <2>3. fired \in Nat /\ fired + 1 \in 1 .. MaxFired
    BY <2>2, SMTT(30)
  <2> QED BY <2>1, <2>3 DEF Events
<1>2. DeliveryTypeOK'
  <2>1. {e \in Fired : Pending(e)} \subseteq Events
    BY <1>1, FiredEvents
  <2>2. overlap' \in [Events -> SUBSET Events] /\ sender' \in [Events -> States]
    BY <1>1, <2>1 DEF DeliveryTypeOK, States
  <2>3. fired' \in 0 .. MaxFired
    BY <1>1 DEF Events
  <2>4. \A e \in Events : leg'[e] # "none" => sender'[e] = "posting"
    <3>1. leg[fired + 1] = "none"
      BY <1>1 DEF DeliveryInv, DeliveryTypeOK, TryInv
    <3> QED
      BY <1>1, <3>1 DEF DeliveryTypeOK
  <2> QED
    BY <1>1, <2>2, <2>3, <2>4 DEF DeliveryTypeOK
<1>3. \A d \in Events : Receipts(d)' = Receipts(d) /\ (TimedOut(d)' <=> TimedOut(d))
  BY DEF Receipts, TimedOut
<1>4. TryInv(fired + 1) /\ GotInv(fired + 1) /\ sender[fired + 1] = "none"
  BY <1>1 DEF DeliveryInv, TryInv
<1>5. ASSUME NEW d \in Events PROVE TryInv(d)' /\ GotInv(d)'
  <2>1. CASE d = fired + 1
    <3>1. sender'[d] = "queued"
      BY <1>1, <2>1 DEF DeliveryTypeOK
    <3>2. TryInv(d)'
      BY <1>1, <1>4, <2>1, <3>1, DeliveryAssumption DEF TryInv, DeliveryTypeOK, Events
    <3>3. GotInv(d)'
      BY <1>3, <1>4, <2>1, <3>1 DEF GotInv, Away
    <3> QED
      BY <3>2, <3>3
  <2>2. CASE d # fired + 1
    <3>1. sender'[d] = sender[d]
      BY <1>1, <2>2 DEF DeliveryTypeOK
    <3>2. d > fired' <=> d > fired
      BY <1>1, <2>2 DEF Events
    <3> QED
      BY <1>3, <3>1, <3>2, Untouched
  <2> QED
    BY <2>1, <2>2
<1>6. ASSUME NEW d \in Fired', NEW c \in 1 .. d - 1, c \notin overlap'[d]
      PROVE  Before(c, d)'
  <2>1. d \in 1 .. fired + 1 /\ d \in Events /\ c \in Events /\ c \in Fired
    <3>1. d \in 1 .. fired + 1
      BY DEF Fired
    <3>2. MaxFired \in Nat /\ fired + 1 <= MaxFired
      BY <1>1, DeliveryAssumption DEF Events
    <3> QED
      BY <1>1, <3>1, <3>2 DEF Fired, Events
  <2>2. sender'[c] = sender[c]
    BY <1>1, <2>1 DEF DeliveryTypeOK, Fired
  <2>3. CASE d = fired + 1
    <3>1. ~Pending(c)
      BY <1>1, <1>6, <2>1, <2>3 DEF DeliveryTypeOK
    <3>2. sender[c] \in {"sent", "failed", "cancelled"}
      BY <1>1, <2>1, <3>1 DEF Pending, DeliveryInv, DeliveryTypeOK, States, TryInv, Fired
    <3>3. Receipts(d) = 0
      <4>1. Receipts(d) + stray[d] + Away(d) <= 0
        BY <1>4, <2>3 DEF TryInv, GotInv
      <4>2. Receipts(d) \in Nat /\ stray[d] \in Nat /\ Away(d) \in Nat
        BY <1>1, <2>1, ReceiptsFinite DEF DeliveryTypeOK, Away
      <4> QED
        BY <4>1, <4>2
    <3>4. \A i \in DOMAIN got : got[i] # d
      <4>1. ~(Receipts(d) > 0)
        BY <3>3
      <4> QED
        BY <1>1, <2>1, <4>1, ReceiptsFinite
    <3> QED
      BY <2>2, <3>2, <3>4 DEF Before
  <2>4. CASE d # fired + 1
    <3>1. d \in Fired /\ overlap'[d] = overlap[d]
      BY <1>1, <2>1, <2>4 DEF Fired, DeliveryTypeOK
    <3>2. Before(c, d)
      BY <1>6, <3>1 DEF DeliveryInv, InTurn
    <3> QED
      BY <2>2, <3>2 DEF Before
  <2> QED
    BY <2>3, <2>4
<1> QED
  BY <1>2, <1>5, <1>6 DEF DeliveryInv, InTurn

\* A step of one delivery leaves the others as they are.
LEMMA OthersKept ==
  ASSUME DeliveryInv, NEW e \in Events,
         \A d \in Events \ {e} :
           /\ sender'[d] = sender[d] /\ tries'[d] = tries[d] /\ leg'[d] = leg[d]
           /\ stray'[d] = stray[d] /\ Receipts(d)' = Receipts(d),
         UNCHANGED <<fired, service>>, timeouts \subseteq timeouts'
  PROVE  \A d \in Events \ {e} : TryInv(d)' /\ GotInv(d)'
<1> SUFFICES ASSUME NEW d \in Events \ {e} PROVE TryInv(d)' /\ GotInv(d)'
  OBVIOUS
<1>1. tries[d] \in Nat /\ tries'[d] = tries[d]
  BY DEF DeliveryInv, DeliveryTypeOK
<1>2. TimedOut(d) => TimedOut(d)'
  BY <1>1 DEF TimedOut
<1> QED
  BY <1>2, Untouched

\* What is counted of an event.
LEMMA CountsAreNumbers ==
  ASSUME DeliveryTypeOK, NEW e \in Events
  PROVE  /\ Receipts(e) \in Nat /\ stray[e] \in Nat /\ Away(e) \in {0, 1}
         /\ tries[e] \in Nat /\ Retries \in Nat
         /\ sender[e] \in States
         /\ leg[e] \in {"none", "away", "accepted", "refused"}
         /\ leg[e] = "none" \/ sender[e] = "posting"
  BY ReceiptsFinite, DeliveryAssumption DEF DeliveryTypeOK, Away

\* An attempt begins.
LEMMA PostKeeps == ASSUME DeliveryInv, NEW e \in Events, Post(e) PROVE DeliveryInv'
<1> USE DEF Post
<1>1. DeliveryTypeOK /\ TryInv(e) /\ GotInv(e)
  BY DEF DeliveryInv
<1>2. DeliveryTypeOK'
  BY <1>1 DEF DeliveryTypeOK, States
<1>3. /\ sender'[e] = "posting" /\ tries'[e] = tries[e] + 1 /\ leg'[e] = "away"
      /\ leg[e] = "none" /\ tries[e] \in Nat
  BY <1>1 DEF DeliveryTypeOK
<1>4. \A d \in Events : Receipts(d)' = Receipts(d)
  BY DEF Receipts
<1>5. \A d \in Events \ {e} : TryInv(d)' /\ GotInv(d)'
  <2>1. \A d \in Events \ {e} :
          sender'[d] = sender[d] /\ tries'[d] = tries[d] /\ leg'[d] = leg[d]
    BY <1>1 DEF DeliveryTypeOK
  <2> QED
    BY <1>4, <2>1, OthersKept
<1>6. TryInv(e)'
  BY <1>1, <1>3, CountsAreNumbers DEF TryInv
<1>7. GotInv(e)'
  <2>1. TimedOut(e) => TimedOut(e)'
    BY <1>1, <1>3, TimedOutStays
  <2>2. Away(e) = 0 /\ Away(e)' = 1
    BY <1>3 DEF Away
  <2> QED
    BY <1>1, <1>3, <1>4, <2>1, <2>2, CountsAreNumbers DEF GotInv
<1>8. InTurn'
  BY <1>1, EndedStay DEF DeliveryTypeOK
<1> QED
  BY <1>2, <1>5, <1>6, <1>7, <1>8 DEF DeliveryInv

\* The receiver has it.
LEMMA HandleKeeps == ASSUME DeliveryInv, NEW e \in Events, Handle(e) PROVE DeliveryInv'
<1> USE DEF Handle
<1>1. DeliveryTypeOK /\ TryInv(e) /\ GotInv(e) /\ sender[e] = "posting"
  BY DEF DeliveryInv, DeliveryTypeOK
<1>2. \/ got' = Append(got, e) /\ leg'[e] = "accepted"
      \/ got' = got /\ leg'[e] = "refused"
  BY <1>1 DEF DeliveryTypeOK
<1>3. DeliveryTypeOK'
  <2>1. got' \in Seq(Events)
    <3>1. got \in Seq(Events) /\ Append(got, e) \in Seq(Events)
      BY <1>1 DEF DeliveryTypeOK
    <3> QED
      BY <1>2, <3>1
  <2>2. leg' \in [Events -> {"none", "away", "accepted", "refused"}]
    BY <1>1 DEF DeliveryTypeOK
  <2>3. \A d \in Events : leg'[d] # "none" => sender[d] = "posting"
    BY <1>1 DEF DeliveryTypeOK
  <2> QED
    BY <1>1, <2>1, <2>2, <2>3 DEF DeliveryTypeOK
<1>4. \A d \in Events \ {e} : Receipts(d)' = Receipts(d) /\ leg'[d] = leg[d]
  <2> SUFFICES ASSUME NEW d \in Events \ {e}
               PROVE  Receipts(d)' = Receipts(d) /\ leg'[d] = leg[d]
    OBVIOUS
  <2>1. leg'[d] = leg[d]
    BY <1>1 DEF DeliveryTypeOK
  <2>2. CASE got' = Append(got, e)
    <3>1. Receipts(d)' = Receipts(d) + 0
      BY <1>1, <2>2, OneMore
    <3>2. Receipts(d) \in Nat
      BY <1>1, ReceiptsFinite
    <3> QED
      BY <2>1, <3>1, <3>2
  <2>3. CASE got' = got
    BY <2>1, <2>3 DEF Receipts
  <2> QED
    BY <1>2, <2>2, <2>3
<1>5. \A d \in Events \ {e} : TryInv(d)' /\ GotInv(d)'
  BY <1>4, OthersKept
<1>6. TryInv(e)'
  BY <1>1, <1>2 DEF TryInv
<1>7. GotInv(e)'
  <2>1. TimedOut(e)' <=> TimedOut(e)
    BY DEF TimedOut
  <2>2. Away(e) = 1 /\ Away(e)' = 0
    BY <1>2 DEF Away
  <2>3. CASE got' = Append(got, e)
    <3>1. Receipts(e)' = Receipts(e) + 1
      BY <1>1, <2>3, OneMore
    <3>2. leg'[e] = "accepted"
      <4>1. Receipts(e)' # Receipts(e)
        <5>1. Receipts(e) \in Nat
          BY <1>1, ReceiptsFinite
        <5> QED
          BY <3>1, <5>1
      <4>2. got' # got
        BY <4>1 DEF Receipts
      <4> QED
        BY <1>2, <4>2
    <3> QED
      BY <1>1, <2>1, <2>2, <3>1, <3>2, CountsAreNumbers DEF GotInv
  <2>4. CASE got' = got /\ leg'[e] = "refused"
    <3>1. Receipts(e)' = Receipts(e)
      BY <2>4 DEF Receipts
    <3> QED
      BY <1>1, <2>1, <2>2, <2>4, <3>1, CountsAreNumbers DEF GotInv
  <2> QED
    BY <1>2, <2>3, <2>4
<1>8. InTurn'
  <2>1. CASE got' = Append(got, e)
    BY <2>1, ArrivalInTurn
  <2>2. CASE got' = got
    BY <2>2, EndedStay
  <2> QED
    BY <1>2, <2>1, <2>2
<1> QED
  BY <1>3, <1>5, <1>6, <1>7, <1>8 DEF DeliveryInv

\* It has one that nobody waits for, or never will.
LEMMA StrayKeeps == ASSUME DeliveryInv, NEW e \in Events, HandleStray(e) PROVE DeliveryInv'
<1> USE DEF HandleStray
<1>1. DeliveryTypeOK /\ TryInv(e) /\ GotInv(e)
  BY DEF DeliveryInv
<1>2. stray[e] \in Nat /\ stray'[e] = stray[e] - 1
  BY <1>1 DEF DeliveryTypeOK
<1>3. DeliveryTypeOK'
  <2>1. got' \in Seq(Events)
    <3>1. got \in Seq(Events) /\ Append(got, e) \in Seq(Events)
      BY <1>1 DEF DeliveryTypeOK
    <3> QED
      BY <3>1
  <2>2. stray' \in [Events -> Nat]
    BY <1>1 DEF DeliveryTypeOK
  <2> QED
    BY <1>1, <2>1, <2>2 DEF DeliveryTypeOK
<1>4. \A d \in Events \ {e} : Receipts(d)' = Receipts(d) /\ stray'[d] = stray[d]
  <2> SUFFICES ASSUME NEW d \in Events \ {e}
               PROVE  Receipts(d)' = Receipts(d) /\ stray'[d] = stray[d]
    OBVIOUS
  <2>1. stray'[d] = stray[d]
    BY <1>1 DEF DeliveryTypeOK
  <2>2. CASE got' = Append(got, e)
    <3>1. Receipts(d)' = Receipts(d) + 0
      BY <1>1, <2>2, OneMore
    <3>2. Receipts(d) \in Nat
      BY <1>1, ReceiptsFinite
    <3> QED
      BY <2>1, <3>1, <3>2
  <2>3. CASE got' = got
    BY <2>1, <2>3 DEF Receipts
  <2> QED
    BY <2>2, <2>3
<1>5. \A d \in Events \ {e} : TryInv(d)' /\ GotInv(d)'
  BY <1>4, OthersKept
<1>6. TryInv(e)'
  BY <1>1 DEF TryInv
<1>7. GotInv(e)'
  <2>1. TimedOut(e)' <=> TimedOut(e)
    BY DEF TimedOut
  <2>2. Away(e)' = Away(e)
    BY DEF Away
  <2>3. Receipts(e)' = Receipts(e) \/ Receipts(e)' = Receipts(e) + 1
    <3>1. CASE got' = Append(got, e)
      BY <1>1, <3>1, OneMore
    <3>2. CASE got' = got
      BY <3>2 DEF Receipts
    <3> QED
      BY <3>1, <3>2
  <2> QED
    BY <1>1, <1>2, <2>1, <2>2, <2>3, CountsAreNumbers DEF GotInv
<1>8. InTurn'
  <2>1. CASE got' = Append(got, e)
    BY <2>1, ArrivalInTurn
  <2>2. CASE got' = got
    BY <2>2, EndedStay
  <2> QED
    BY <2>1, <2>2
<1> QED
  BY <1>3, <1>5, <1>6, <1>7, <1>8 DEF DeliveryInv

\* What an attempt that failed leads to.
LEMMA FailureLeads ==
  ASSUME DeliveryTypeOK, NEW e \in Events, tries[e] <= Retries + 1
  PROVE  \/ AfterFailure(e) = "failed"
         \/ AfterFailure(e) = "sleeping" /\ tries[e] <= Retries
  BY CountsAreNumbers DEF AfterFailure, LastTry

\* The answer to an attempt comes back.
LEMMA AnswerKeeps == ASSUME DeliveryInv, NEW e \in Events, Answer(e) PROVE DeliveryInv'
<1> USE DEF Answer, Answered, Sent, LegEnds
<1>1. DeliveryTypeOK /\ TryInv(e) /\ GotInv(e)
  BY DEF DeliveryInv
<1>2. \/ leg[e] = "accepted" /\ sender'[e] = "sent"
      \/ leg[e] = "refused" /\ sender'[e] = AfterFailure(e)
  BY <1>1 DEF DeliveryTypeOK
<1>3. AfterFailure(e) = "failed" \/ (AfterFailure(e) = "sleeping" /\ tries[e] <= Retries)
  BY <1>1, FailureLeads DEF TryInv
<1>4. DeliveryTypeOK'
  <2>1. sender'[e] \in States
    BY <1>2, <1>3 DEF States
  <2>2. sender' \in [Events -> States] /\ leg' \in [Events -> {"none", "away", "accepted", "refused"}]
    BY <1>1, <2>1 DEF DeliveryTypeOK
  <2>3. \A d \in Events : leg'[d] # "none" => sender'[d] = "posting"
    BY <1>1 DEF DeliveryTypeOK
  <2> QED
    BY <1>1, <2>2, <2>3 DEF DeliveryTypeOK
<1>5. \A d \in Events : Receipts(d)' = Receipts(d)
  BY DEF Receipts
<1>6. \A d \in Events \ {e} : TryInv(d)' /\ GotInv(d)'
  <2>1. \A d \in Events \ {e} : sender'[d] = sender[d] /\ leg'[d] = leg[d]
    BY <1>1 DEF DeliveryTypeOK
  <2> QED
    BY <1>5, <2>1, OthersKept
<1>7. TryInv(e)'
  BY <1>1, <1>2, <1>3 DEF TryInv
<1>8. GotInv(e)'
  <2>1. TimedOut(e)' <=> TimedOut(e)
    BY DEF TimedOut
  <2>2. Away(e) = 0 /\ Away(e)' = 0 /\ leg'[e] = "none"
    BY <1>1, <1>2 DEF Away, DeliveryTypeOK
  <2> QED
    BY <1>1, <1>2, <1>3, <1>5, <2>1, <2>2, CountsAreNumbers DEF GotInv
<1>9. InTurn'
  <2>1. \A d \in Events : sender[d] \in {"sent", "failed", "cancelled"}
                         => sender'[d] = sender[d]
    BY <1>1 DEF DeliveryTypeOK
  <2> QED
    BY <2>1, EndedStay
<1> QED
  BY <1>4, <1>6, <1>7, <1>8, <1>9 DEF DeliveryInv

\* It does not come in time.
LEMMA TimeOutKeeps == ASSUME DeliveryInv, NEW e \in Events, TimeOut(e) PROVE DeliveryInv'
<1> USE DEF TimeOut, LegEnds
<1>1. DeliveryTypeOK /\ TryInv(e) /\ GotInv(e)
  BY DEF DeliveryInv
<1>2. /\ sender'[e] = AfterFailure(e) /\ leg'[e] = "none"
      /\ stray'[e] = stray[e] + Away(e) /\ tries[e] \in Nat /\ tries[e] > 0
  BY <1>1 DEF DeliveryTypeOK, TryInv, Away
<1>3. AfterFailure(e) = "failed" \/ (AfterFailure(e) = "sleeping" /\ tries[e] <= Retries)
  BY <1>1, FailureLeads DEF TryInv
<1>4. DeliveryTypeOK'
  <2>1. sender' \in [Events -> States] /\ leg' \in [Events -> {"none", "away", "accepted", "refused"}]
    BY <1>1, <1>3 DEF DeliveryTypeOK, States
  <2>2. stray' \in [Events -> Nat] /\ timeouts' \subseteq Events \X Nat
    BY <1>1 DEF DeliveryTypeOK
  <2>3. \A d \in Events : leg'[d] # "none" => sender'[d] = "posting"
    BY <1>1 DEF DeliveryTypeOK
  <2> QED
    BY <1>1, <2>1, <2>2, <2>3 DEF DeliveryTypeOK
<1>5. \A d \in Events : Receipts(d)' = Receipts(d)
  BY DEF Receipts
<1>6. \A d \in Events \ {e} : TryInv(d)' /\ GotInv(d)'
  <2>1. \A d \in Events \ {e} :
          sender'[d] = sender[d] /\ leg'[d] = leg[d] /\ stray'[d] = stray[d]
    BY <1>1 DEF DeliveryTypeOK
  <2> QED
    BY <1>5, <2>1, OthersKept
<1>7. TryInv(e)'
  BY <1>1, <1>2, <1>3 DEF TryInv
<1>8. GotInv(e)'
  <2>1. TimedOut(e)'
    BY <1>2 DEF TimedOut
  <2>2. Away(e)' = 0
    BY <1>2 DEF Away
  <2> QED
    BY <1>1, <1>2, <1>3, <1>5, <2>1, <2>2, CountsAreNumbers DEF GotInv
<1>9. InTurn'
  <2>1. \A d \in Events : sender[d] \in {"sent", "failed", "cancelled"}
                         => sender'[d] = sender[d]
    BY <1>1 DEF DeliveryTypeOK
  <2> QED
    BY <2>1, EndedStay
<1> QED
  BY <1>4, <1>6, <1>7, <1>8, <1>9 DEF DeliveryInv

\* The pause before the next attempt is over.
LEMMA RetryKeeps == ASSUME DeliveryInv, NEW e \in Events, Retry(e) PROVE DeliveryInv'
<1> USE DEF Retry
<1>1. DeliveryTypeOK /\ TryInv(e) /\ GotInv(e) /\ leg[e] = "none"
  BY DEF DeliveryInv, DeliveryTypeOK
<1>2. sender'[e] = "queued"
  BY <1>1 DEF DeliveryTypeOK
<1>3. DeliveryTypeOK'
  BY <1>1 DEF DeliveryTypeOK, States
<1>4. \A d \in Events : Receipts(d)' = Receipts(d)
  BY DEF Receipts
<1>5. \A d \in Events \ {e} : TryInv(d)' /\ GotInv(d)'
  <2>1. \A d \in Events \ {e} : sender'[d] = sender[d]
    BY <1>1 DEF DeliveryTypeOK
  <2> QED
    BY <1>4, <2>1, OthersKept
<1>6. TryInv(e)'
  BY <1>1, <1>2 DEF TryInv
<1>7. GotInv(e)'
  <2>1. (TimedOut(e)' <=> TimedOut(e)) /\ Away(e)' = Away(e)
    BY DEF TimedOut, Away
  <2> QED
    BY <1>1, <1>2, <1>4, <2>1, CountsAreNumbers DEF GotInv
<1>8. InTurn'
  BY <1>1, EndedStay DEF DeliveryTypeOK
<1> QED
  BY <1>3, <1>5, <1>6, <1>7, <1>8 DEF DeliveryInv

\* The listener stops: what is under way is cancelled.
LEMMA CancelKeeps ==
  ASSUME DeliveryInv, CancelDeliveries, service' \in {"stopping", "down"}
  PROVE  DeliveryInv'
<1> USE DEF CancelDeliveries
<1>1. DeliveryTypeOK /\ \A d \in Events : TryInv(d) /\ GotInv(d)
  BY DEF DeliveryInv
<1>2. DeliveryTypeOK'
  BY <1>1 DEF DeliveryTypeOK, States
<1>3. ASSUME NEW d \in Events PROVE TryInv(d)' /\ GotInv(d)'
  <2>1. /\ sender'[d] = IF Pending(d) THEN "cancelled" ELSE sender[d]
        /\ leg'[d] = "none" /\ stray'[d] = stray[d] + Away(d)
    BY DEF Away
  <2>2. Receipts(d)' = Receipts(d) /\ (TimedOut(d)' <=> TimedOut(d)) /\ Away(d)' = 0
    BY <2>1 DEF Receipts, TimedOut, Away
  <2>3. TryInv(d)'
    BY <1>1, <2>1 DEF TryInv, Pending
  <2>4. GotInv(d)'
    BY <1>1, <2>1, <2>2, CountsAreNumbers DEF GotInv, Pending
  <2> QED
    BY <2>3, <2>4
<1>4. InTurn'
  BY EndedStay DEF Pending
<1> QED
  BY <1>2, <1>3, <1>4 DEF DeliveryInv

\* Every step keeps the invariant.
LEMMA DeliveryStep == DeliveryInv /\ [DeliveryNext]_deliveryVars => DeliveryInv'
<1> SUFFICES ASSUME DeliveryInv, [DeliveryNext]_deliveryVars PROVE DeliveryInv'
  OBVIOUS
<1>1. ASSUME NEW e \in Events, GoesOn(e) \/ HandleStray(e) \/ TimeOut(e) PROVE DeliveryInv'
  BY <1>1, PostKeeps, HandleKeeps, AnswerKeeps, RetryKeeps, StrayKeeps, TimeOutKeeps
  DEF GoesOn
<1>2. CASE FireNext
  BY <1>2, FireKeeps
<1>3. CASE Terminate
  BY <1>3, CancelKeeps DEF Terminate
<1>4. CASE Down
  BY <1>4, CancelKeeps DEF Down
<1>5. CASE UNCHANGED deliveryVars
  <2> USE <1>5 DEF deliveryVars
  <2>1. DeliveryTypeOK'
    BY DEF DeliveryInv, DeliveryTypeOK
  <2>2. ASSUME NEW d \in Events PROVE TryInv(d)' /\ GotInv(d)'
    BY Untouched DEF Receipts, TimedOut
  <2>3. InTurn'
    BY EndedStay
  <2> QED
    BY <2>1, <2>2, <2>3 DEF DeliveryInv
<1> QED
  BY <1>1, <1>2, <1>3, <1>4, <1>5 DEF DeliveryNext

\* The invariant holds in every state of a behaviour.
LEMMA DeliveryAlways == DeliverySpec => []DeliveryInv
  BY DeliveryStart, DeliveryStep, PTL DEF DeliverySpec

\* The variables of the delivery keep their types.
THEOREM DeliveryTypesKept == DeliverySpec => []DeliveryTypeOK
<1>1. DeliveryInv => DeliveryTypeOK
  BY DEF DeliveryInv
<1> QED
  BY <1>1, DeliveryAlways, PTL

\* What the invariant says of the deliveries.
LEMMA DeliveryFollows == DeliveryInv => DeliveredAsTried
<1>1. ASSUME DeliveryInv PROVE SaidSentWasGot
  BY <1>1 DEF SaidSentWasGot, DeliveryInv, GotInv
<1>2. ASSUME DeliveryInv PROVE NoMoreThanTried
  <2> SUFFICES ASSUME NEW e \in Events
               PROVE  Receipts(e) + stray[e] <= tries[e] /\ tries[e] <= Retries + 1
    BY DEF NoMoreThanTried
  <2> QED
    BY <1>2, CountsAreNumbers DEF DeliveryInv, GotInv, TryInv
<1>3. ASSUME DeliveryInv PROVE RepeatedOnlyIfUnanswered
  <2> SUFFICES ASSUME NEW e \in Events, ~TimedOut(e) PROVE ~(Receipts(e) > 1)
    BY DEF RepeatedOnlyIfUnanswered
  <2> QED
    BY <1>3, CountsAreNumbers DEF DeliveryInv, GotInv
<1>4. ASSUME DeliveryInv PROVE OvertakenOnlyIfUnsettled
  <2> SUFFICES ASSUME NEW i \in DOMAIN got, NEW j \in DOMAIN got,
                      i < j, got[j] < got[i], \A k \in 1 .. i : got[k] # got[j],
                      got[j] \notin overlap[got[i]]
               PROVE  Abandoned(got[j])
    BY DEF OvertakenOnlyIfUnsettled
  <2>1. /\ got[i] \in Events /\ got[j] \in Events /\ DeliveryTypeOK
        /\ DOMAIN got = 1 .. Len(got)
    <3>1. DeliveryTypeOK /\ got \in Seq(Events)
      BY <1>4 DEF DeliveryInv, DeliveryTypeOK
    <3> QED BY <3>1
  <2>2. got[i] \in Fired
    <3>1. Receipts(got[i]) > 0
      BY <2>1, ReceiptsFinite
    <3>2. tries[got[i]] > 0
      BY <1>4, <2>1, <3>1, CountsAreNumbers DEF DeliveryInv, GotInv
    <3>3. ~(got[i] > fired)
      BY <1>4, <2>1, <3>2 DEF DeliveryInv, TryInv
    <3> QED
      BY <2>1, <3>3 DEF Fired, Events, DeliveryTypeOK
  <2>3. got[j] \in 1 .. got[i] - 1
    BY <2>1 DEF Events
  <2>4. Before(got[j], got[i])
    BY <1>4, <2>2, <2>3 DEF DeliveryInv, InTurn
  <2>5. sender[got[j]] # "sent"
    <3> SUFFICES ASSUME sender[got[j]] = "sent" PROVE FALSE
      OBVIOUS
    <3>1. PICK k \in 1 .. i - 1 : got[k] = got[j]
      BY <2>4 DEF Before
    <3> QED
      BY <2>1, <3>1
  <2>6. ASSUME sender[got[j]] # "cancelled" PROVE TimedOut(got[j])
    <3>1. sender[got[j]] = "failed"
      BY <2>4, <2>5, <2>6 DEF Before
    <3>2. Receipts(got[j]) > 0
      BY <2>1, ReceiptsFinite
    <3> QED
      BY <1>4, <2>1, <3>1, <3>2, CountsAreNumbers DEF DeliveryInv, GotInv
  <2> QED
    BY <2>5, <2>6 DEF Abandoned
<1> QED
  BY <1>1, <1>2, <1>3, <1>4 DEF DeliveredAsTried

\* What the receiver gets was tried, what is told to be sent it has, it gets nothing
\* twice unless an answer was lost, and an event overtakes an earlier one only if that
\* was still being sent, or given up unanswered (_send_with_retries, wait_pending).
THEOREM DeliveryKept == DeliverySpec => []DeliveredAsTried
  BY DeliveryFollows, DeliveryAlways, PTL

-----------------------------------------------------------------------------
(* The listener as a whole. *)

\* The inductive invariants of the five parts.
DashboardInv == /\ ChannelsInv /\ HeardInv
                /\ QueuesInv /\ MissInv /\ ReconnectInv /\ DeliveryInv

\* Every start that is checked satisfies them.
LEMMA DashboardStart == DashboardInit => DashboardInv
<1> SUFFICES ASSUME DashboardInit PROVE DashboardInv
  OBVIOUS
<1>1. ChannelsInv /\ HeardInv
  <2>1. PICK s \in Snapshot : ChannelsFrom(s)
    BY DEF DashboardInit, ChannelsStart, ChannelsFrom
  <2> QED
    BY <2>1, ChannelsStartWell, HeardStartWell
<1>2. QueuesInv
  <2>1. /\ {} \in SUBSET Caller /\ Caller \in SUBSET Caller
        /\ 0 \in 0 .. MaxTroubles /\ 1 \in 0 .. MaxTroubles
    BY QueuesAssumption, DashboardAssumption
  <2>2. QueuesFrom({}, 0) \/ QueuesFrom(Caller, 0) \/ QueuesFrom({}, 1)
    BY DEF DashboardInit, QueuesStart, QueuesQuiet, QueuesInit
  <2> QED
    BY <2>1, <2>2, QueuesStartWell
<1>3. MissInv /\ ReconnectInv /\ DeliveryInv
  BY MissStart, ReconnectStart, DeliveryStart DEF DashboardInit
<1> QED
  BY <1>1, <1>2, <1>3 DEF DashboardInv

\* A step of the listener is a step of one part, and the others stand still.
LEMMA DashboardStep == DashboardInv /\ [DashboardNext]_allVars => DashboardInv'
<1> SUFFICES ASSUME DashboardInv, [DashboardNext]_allVars PROVE DashboardInv'
  OBVIOUS
<1>1. /\ [ChannelsNext]_chanVars /\ [QueuesNext]_queueVars /\ [MissNext]_missVars
      /\ [ReconnectNext]_amiVars /\ [DeliveryNext]_deliveryVars
  BY DEF DashboardNext, allVars, Channels, Queues, Missed, Reconnect, Delivery, Rest
<1> QED
  BY <1>1, ChannelsStep, HeardStep, QueuesStep, MissStep, ReconnectStep, DeliveryStep
  DEF DashboardInv

\* The invariants hold of the composition, whichever part runs.
LEMMA DashboardAlways == DashboardSpec => []DashboardInv
  BY DashboardStart, DashboardStep, PTL DEF DashboardSpec

\* In every state of the listener all its variables have their types.
THEOREM DashboardTypesKept == DashboardSpec => []DashboardTypeOK
<1>1. DashboardInv => DashboardTypeOK
  BY DEF DashboardInv, DashboardTypeOK, ChannelsTypeOK, ChannelsInv, CoreOK, HeardInv,
    HeardTypes, QueuesInv, MissInv, ReconnectInv, DeliveryInv
<1> QED
  BY <1>1, DashboardAlways, PTL

\* The safety of the listener as a whole, from every start that is checked, with calls
\* and queues under way.  A listener with nothing left to do has in its memory what
\* Asterisk has: the channels with what a list of them tells, the variables they had at
\* the last reset, and all that was told of those that came later; the callers; and the
\* pauses, which survived every restart; the missed calls are kept, one thread connects, and the
\* webhooks are delivered as tried (_on_reconnected, handle_core_show_channel,
\* _restore_queue_member_pauses, _flush_missed_after_window, _reconnect_loop,
\* _send_with_retries).
THEOREM DashboardIsTrue ==
  DashboardSpec => /\ [](/\ ChannelsAreTrue /\ PauseKept /\ MissesAreKept
                         /\ OneConnection /\ DeliveredAsTried)
                   /\ QueueIsTrue
<1>1. DashboardInv => /\ ChannelsAreTrue /\ PauseKept /\ MissesAreKept
                      /\ OneConnection /\ DeliveredAsTried
                      /\ PauseIsTrue /\ CallersAreTrue
  BY QuietIsTrue, SettledIsTrue, MissesFollow, OneConnectionFollows, DeliveryFollows
  DEF DashboardInv
<1>2. DashboardInv /\ [DashboardNext]_allVars
      => [\A c \in Caller : Wake(c) => \A m \in Member :
            Listed /\ ~Busy(m) /\ excuse[m] \cap {"overlap", "redis", "alias"} = {}
              => (m \in woken') = ~paused[m]]_queueVars
  BY WakesRight DEF DashboardInv
<1> QED
  BY <1>1, <1>2, DashboardAlways, PTL
  DEF QueueIsTrue, WakesTheUnpaused, DashboardSpec

\* In the listener as a whole the reports of missed calls behave like an outbox
\* (_schedule_missed_flush, _flush_missed_after_window, shutdown).
THEOREM DashboardReports == DashboardSpec => ReportsLikeAnOutbox
<1>1. DashboardInit => Promise!OutboxInit
  BY DEF DashboardInit, MissInit, Promise!OutboxInit, StatusOf
<1>2. DashboardInv /\ DashboardInv' /\ [DashboardNext]_allVars
      => [Promise!OutboxNext]_([m \in Miss |-> StatusOf(m)])
  <2> SUFFICES ASSUME DashboardInv, DashboardInv', [DashboardNext]_allVars
               PROVE  [Promise!OutboxNext]_([m \in Miss |-> StatusOf(m)])
    OBVIOUS
  <2>1. [MissNext]_missVars /\ MissInv /\ MissInv'
    BY DEF DashboardInv, DashboardNext, allVars, Channels, Queues, Missed, Reconnect,
      Delivery, Rest
  <2> QED
    BY <2>1, StepOfOutbox
<1> QED
  BY <1>1, <1>2, DashboardAlways, PTL
  DEF DashboardSpec, ReportsLikeAnOutbox, Promise!OutboxSpec
=============================================================================
