-------------------------- MODULE ListenerChannels --------------------------
(***************************************************************************)
(* The channels the dashboard shows (services/dashboard).  The listener    *)
(* keeps a dictionary of channels in memory and copies it to Redis: one    *)
(* key per channel and one snapshot of all of them, which the web          *)
(* application serves.  Every AMI event is a task of an asyncio loop: the  *)
(* tasks start in the order of the events, and they overtake each other at *)
(* every Redis command.  After a reconnect or a restart the memory is      *)
(* rebuilt from Asterisk's list of channels, and the channel variables,    *)
(* which the list does not tell, from the keys.  What only its own event   *)
(* tells - who dials whom, how a dialling ended, since when a channel is   *)
(* in its bridge, the arguments of an application - is not rebuilt.        *)
(*                                                                         *)
(* One action is one event in Asterisk with the code of its task up to the *)
(* first Redis command, or the code of a task from one Redis command's     *)
(* answer to the next command.  A command carries the value that was       *)
(* computed when it was sent.  Events are handled in the order in which    *)
(* Asterisk sends them, so the time they travel changes nothing.  The keys *)
(* asterisk:uid:U are in ParkingULine, the webhooks in WebhookChain.       *)
(***************************************************************************)
EXTENDS Naturals, Sequences, FiniteSets

CONSTANTS
  Chan,         \* channel names, never used again in Asterisk
  MaxEvents,    \* bound: events of Asterisk in a behaviour
  MaxTasks,     \* bound: tasks at a time
  MaxMishaps    \* bound: lost connections, crashes, failed commands, TTLs

ASSUME ChannelsAssumption ==
  /\ IsFiniteSet(Chan)
  /\ MaxEvents \in Nat
  /\ MaxTasks \in Nat \ {0}
  /\ MaxMishaps \in Nat

VARIABLES
  ast,      \* the channels in Asterisk
  gone,     \* channels that have hung up
  mem,      \* channels_state
  news,     \* per channel: what Asterisk told of it that no list of channels tells
  heard,    \* the part of it that is in channels_state
  key,      \* asterisk:channel:C
  all,      \* asterisk:channels:all
  feed,     \* the answer to CoreShowChannels, as far as no task has started on it
  amilink,  \* "up"; "joining": the new connection is not yet announced; "down"
  tasks,    \* the tasks of the loop
  tick,     \* the health check's write of the snapshot
  said,     \* how many events Asterisk has had
  mishaps,  \* how many mishaps there were
  raced,    \* history: channels something happened to during a GET
  saved,    \* history: channels whose variables Redis had at the last reset
  wiped     \* history: channels there were when channels_state was last cleared

chanVars == <<ast, gone, mem, news, heard, key, all, feed, amilink, tasks, tick,
              said, mishaps, raced, saved, wiped>>

Id == 1 .. MaxTasks
Rec == [known : BOOLEAN, data : 0 .. 1, vars : BOOLEAN]
Absent == [known |-> FALSE, data |-> 0, vars |-> FALSE]
Snapshot == [Chan -> Rec]
Kind == {"new", "state", "enter", "leave", "dialend", "dial", "exten", "var", "hangup",
         "show", "complete", "reset", "start"}
\* The fields that only an event of their own tells: dialing_to and dest_uniqueid,
\* dialed_by, dial_status, bridged_at, app_data.
Field == {"dialing_to", "dialed_by", "dial_status", "bridged_at", "app_data"}
Tells(kind) == CASE kind = "dial"    -> {"dialing_to"}
                 [] kind = "dialend" -> {"dial_status"}
                 [] kind = "enter"   -> {"bridged_at"}
                 [] kind = "exten"   -> {"app_data"}
                 [] OTHER            -> {}
Event == [kind : Kind, chan : Chan, data : 0 .. 1]
NoTask == [at |-> "none"]
Task == [kind : Kind, chan : Chan, data : 0 .. 1,
         at : {"key", "other", "all", "publish", "del", "get", "list"},
         val : Snapshot]
NoTick == [on |-> FALSE]

\* One invariant for the types of the variables.
ChannelsTypeOK ==
  /\ ast \in Snapshot
  /\ gone \subseteq Chan
  /\ mem \in Snapshot
  /\ news \in [Chan -> SUBSET Field]
  /\ heard \in [Chan -> SUBSET Field]
  /\ key \in Snapshot
  /\ all \in Snapshot
  /\ feed \in Seq(Event)
  /\ amilink \in {"up", "joining", "down"}
  /\ tasks \in [Id -> Task \cup {NoTask}]
  /\ tick \in [on : {TRUE}, snap : Snapshot] \cup {NoTick}
  /\ said \in 0 .. MaxEvents
  /\ mishaps \in 0 .. MaxMishaps
  /\ raced \subseteq Chan
  /\ saved \subseteq Chan
  /\ wiped \subseteq Chan

Nobody == [c \in Chan |-> Absent]
Nothing == [c \in Chan |-> {}]
Only(c, r) == [Nobody EXCEPT ![c] = r]
\* The channel that c dials.
Other(c) == IF \E d \in Chan : d # c THEN CHOOSE d \in Chan : d # c ELSE c

\* The memory, the keys and the snapshot are what Asterisk has, s.
ChannelsFrom(s) ==
  /\ s \in Snapshot /\ \A c \in Chan : ~s[c].known => s[c] = Absent
  /\ ast = s /\ mem = s /\ key = s /\ all = s
  /\ news = Nothing /\ heard = Nothing
  /\ gone = {} /\ raced = {} /\ saved = {} /\ wiped = {}
  /\ feed = <<>>
  /\ amilink = "up"
  /\ tasks = [i \in Id |-> NoTask]
  /\ tick = NoTick
  /\ said = 0 /\ mishaps = 0

\* The service has just started on a quiet exchange.
ChannelsInit == ChannelsFrom(Nobody)

Mishap == mishaps < MaxMishaps /\ mishaps' = mishaps + 1

-----------------------------------------------------------------------------
(* The tasks. *)

Ev(k, c, d) == [kind |-> k, chan |-> c, data |-> d]

Free(i) == tasks[i] = NoTask /\ \A j \in Id : tasks[j] = NoTask => i <= j
Getting(c) == \E i \in Id : tasks[i] # NoTask /\ tasks[i].at = "get"
                            /\ tasks[i].chan = c
InFlight(c) == \E i \in Id : tasks[i] # NoTask
                 /\ (tasks[i].chan = c \/ tasks[i].kind = "dial")

\* Task e waits for command `at`, whose argument is v.
Waits(e, at, v) == [kind |-> e.kind, chan |-> e.chan, data |-> e.data,
                    at |-> at, val |-> v]

\* The end of a handler's first part: channel e.chan becomes r, with what the event
\* tells, and its key is written; or the channel is not known, and the task goes on
\* with t.
Put(i, e, r) ==
  /\ mem' = [mem EXCEPT ![e.chan] = r]
  /\ heard' = [heard EXCEPT ![e.chan] = @ \cup Tells(e.kind)]
  /\ tasks' = [tasks EXCEPT ![i] = Waits(e, "key", Only(e.chan, r))]
IfKnown(i, e, r, t) ==
  IF mem[e.chan].known THEN Put(i, e, r)
  ELSE UNCHANGED <<mem, heard>> /\ tasks' = [tasks EXCEPT ![i] = t]

WithData(e) == [mem[e.chan] EXCEPT !.data = e.data]
WithVars(e) == [mem[e.chan] EXCEPT !.vars = TRUE]
WriteOther(e) == IF mem[Other(e.chan)].known
                 THEN Waits(e, "other", Only(Other(e.chan), mem[Other(e.chan)]))
                 ELSE Waits(e, "all", mem)
\* Mutant of DialedBy: only the channel that dials is told.
DialedByNobody(e) == heard

\* The channel that is dialled has its dialed_by, if it is known.
DialedBy(e) == LET d == Other(e.chan)
               IN  [heard EXCEPT ![d] = IF mem[d].known THEN @ \cup {"dialed_by"} ELSE @]

HandleNewchannel(i, e) ==
  /\ e.kind = "new"
  /\ mem' = [mem EXCEPT ![e.chan] = [known |-> TRUE, data |-> e.data, vars |-> FALSE]]
  /\ heard' = [heard EXCEPT ![e.chan] = {}]
  /\ tasks' = [tasks EXCEPT ![i] = Waits(e, "key", Only(e.chan, mem'[e.chan]))]
HandleNewstate(i, e) ==
  /\ e.kind = "state"
  /\ IfKnown(i, e, WithData(e), NoTask)
\* handle_bridge_enter, handle_bridge_leave: the snapshot is written in any case.
HandleBridge(i, e) ==
  /\ e.kind \in {"enter", "leave"}
  /\ IfKnown(i, e, WithData(e), Waits(e, "all", mem))
HandleDialEnd(i, e) ==
  /\ e.kind = "dialend"
  /\ IfKnown(i, e, mem[e.chan], Waits(e, "all", mem))
\* handle_dial_begin: the other channel's turn is after the first one's key.
HandleDialBegin(i, e) ==
  /\ e.kind = "dial"
  /\ IF mem[e.chan].known THEN Put(i, e, mem[e.chan])
     ELSE /\ mem' = mem /\ heard' = DialedBy(e)
          /\ tasks' = [tasks EXCEPT ![i] = WriteOther(e)]
HandleNewexten(i, e) ==
  /\ e.kind = "exten"
  /\ IfKnown(i, e, WithData(e), NoTask)
HandleVarset(i, e) ==
  /\ e.kind = "var"
  /\ IfKnown(i, e, WithVars(e), NoTask)

\* handle_hangup publishes and tells the webhooks before it forgets the channel.
HandleHangup(i, e) ==
  /\ e.kind = "hangup"
  /\ tasks' = [tasks EXCEPT ![i] = Waits(e, "publish", Nobody)]
  /\ UNCHANGED <<mem, heard, raced>> /\ saved' = saved

\* handle_core_show_channel: a channel that is known is left alone.
HandleShow(i, e) ==
  /\ e.kind = "show"
  /\ tasks' = IF mem[e.chan].known THEN tasks
              ELSE [tasks EXCEPT ![i] = Waits(e, "get", Nobody)]
  /\ UNCHANGED <<mem, heard, raced>> /\ saved' = saved

\* handle_core_show_channels_complete
HandleComplete(i, e) ==
  /\ e.kind = "complete"
  /\ tasks' = [tasks EXCEPT ![i] = Waits(e, "all", mem)]
  /\ UNCHANGED <<mem, heard, raced>> /\ saved' = saved

\* The channels whose variables the reset must not lose.
Kept == {c \in Chan : /\ ast[c].known /\ key[c].vars /\ ~InFlight(c)
                      /\ (mem[c].vars \/ c \in saved)}

\* Mutant of HandleReset: the reset does not clear what it knew.
ResetWithoutClear(i, e) ==
  /\ e.kind = "reset"
  /\ UNCHANGED <<mem, heard, wiped>>
  /\ tasks' = [tasks EXCEPT ![i] = Waits(e, "all", mem)]
  /\ saved' = Kept
  /\ raced' = raced \cup {c \in Chan : Getting(c)}

\* _on_reconnected, up to the write of the empty snapshot.
HandleReset(i, e) ==
  /\ e.kind = "reset"
  /\ mem' = Nobody /\ heard' = Nothing
  /\ wiped' = {c \in Chan : ast[c].known}
  /\ tasks' = [tasks EXCEPT ![i] = Waits(e, "all", mem')]
  /\ saved' = Kept
  /\ raced' = raced \cup {c \in Chan : Getting(c)}

\* event_listener: the first part of the handler of event e.
Handler(i, e) ==
  \/ /\ \/ HandleNewchannel(i, e) \/ HandleNewstate(i, e) \/ HandleBridge(i, e)
        \/ HandleDialEnd(i, e) \/ HandleDialBegin(i, e) \/ HandleNewexten(i, e)
        \/ HandleVarset(i, e)
     /\ raced' = IF Getting(e.chan) THEN raced \cup {e.chan} ELSE raced
     /\ saved' = saved
  \/ HandleHangup(i, e)
  \/ HandleShow(i, e)
  \/ HandleComplete(i, e)

\* The loop starts a task for the next event of Asterisk's answer.
Start(i) ==
  /\ feed # <<>> /\ Free(i)
  /\ Handler(i, Head(feed))
  /\ feed' = Tail(feed)
  /\ UNCHANGED <<ast, gone, news, key, all, amilink, tick, said, mishaps, wiped>>

\* What task t waits for once a key is written.
AfterKey(t) ==
  CASE t.kind \in {"new", "state", "enter", "leave", "dialend"} -> Waits(t, "all", mem)
    [] t.kind = "dial" -> WriteOther(t)
    [] OTHER           -> NoTask

\* update_channel_state: SETEX asterisk:channel:C.
KeyWritten(i) ==
  /\ tasks[i] # NoTask /\ tasks[i].at = "key"
  /\ \/ key' = [key EXCEPT ![tasks[i].chan] = tasks[i].val[tasks[i].chan]] /\ UNCHANGED mishaps
     \/ Mishap /\ UNCHANGED key
  /\ tasks' = [tasks EXCEPT ![i] = AfterKey(tasks[i])]
  /\ heard' = IF tasks[i].kind = "dial" THEN DialedBy(tasks[i]) ELSE heard
  /\ UNCHANGED <<ast, gone, mem, news, all, feed, amilink, tick, said, raced, saved,
                 wiped>>

\* The second key of handle_dial_begin.
OtherWritten(i) ==
  /\ tasks[i] # NoTask /\ tasks[i].at = "other"
  /\ \/ LET c == Other(tasks[i].chan)
        IN  key' = [key EXCEPT ![c] = tasks[i].val[c]] /\ UNCHANGED mishaps
     \/ Mishap /\ UNCHANGED key
  /\ tasks' = [tasks EXCEPT ![i] = Waits(tasks[i], "all", mem)]
  /\ UNCHANGED <<ast, gone, mem, news, heard, all, feed, amilink, tick, said, raced,
                 saved, wiped>>

\* update_channels_state: SETEX asterisk:channels:all; the reset then sleeps.
SnapshotWritten(i) ==
  /\ tasks[i] # NoTask /\ tasks[i].at = "all"
  /\ \/ all' = tasks[i].val /\ UNCHANGED mishaps
     \/ Mishap /\ UNCHANGED all
  /\ tasks' = [tasks EXCEPT ![i] = IF tasks[i].kind = "reset"
                                   THEN Waits(tasks[i], "list", Nobody)
                                   ELSE NoTask]
  /\ UNCHANGED <<ast, gone, mem, news, heard, key, feed, amilink, tick, said, raced,
                 saved, wiped>>

\* handle_hangup goes on: the channel leaves the memory, then its key.
Forget(i) ==
  /\ tasks[i] # NoTask /\ tasks[i].at = "publish"
  /\ mem' = [mem EXCEPT ![tasks[i].chan] = Absent]
  /\ heard' = [heard EXCEPT ![tasks[i].chan] = {}]
  /\ tasks' = [tasks EXCEPT ![i] = Waits(@, "del", Nobody)]
  /\ raced' = IF Getting(tasks[i].chan) THEN raced \cup {tasks[i].chan} ELSE raced
  /\ UNCHANGED <<ast, gone, news, key, all, feed, amilink, tick, said, mishaps, saved,
                 wiped>>

KeyDeleted(i) ==
  /\ tasks[i] # NoTask /\ tasks[i].at = "del"
  /\ \/ key' = [key EXCEPT ![tasks[i].chan] = Absent] /\ UNCHANGED mishaps
     \/ Mishap /\ UNCHANGED key
  /\ tasks' = [tasks EXCEPT ![i] = Waits(@, "all", mem)]
  /\ UNCHANGED <<ast, gone, mem, news, heard, all, feed, amilink, tick, said, raced,
                 saved, wiped>>

\* Mutant of Rebuilt: _build_channel_state(event) without existing.
RebuiltFresh(t, v) == [known |-> TRUE, data |-> t.data, vars |-> FALSE]

\* Mutant of Rebuilt: the state is taken from a field the event does not have.
RebuiltBlank(t, v) == [known |-> TRUE, data |-> 2, vars |-> v]

\* _build_channel_state: the event's fields, and of the key only the variables.
Rebuilt(t, v) == [known |-> TRUE, data |-> t.data, vars |-> v]

\* handle_core_show_channel goes on with the answer of GET; without one it has no
\* variables to keep.  It does not look again whether the channel is known.
Restore(i) ==
  /\ tasks[i] # NoTask /\ tasks[i].at = "get"
  /\ LET c == tasks[i].chan
     IN  /\ \/ /\ mem' = [mem EXCEPT ![c] = Rebuilt(tasks[i], key[c].vars)]
               /\ UNCHANGED <<mishaps, saved>>
            \/ /\ Mishap
               /\ mem' = [mem EXCEPT ![c] = Rebuilt(tasks[i], FALSE)]
               /\ saved' = saved \ {c}
         /\ heard' = [heard EXCEPT ![c] = {}]
         /\ raced' = IF mem[c].known THEN raced \cup {c} ELSE raced
         /\ tasks' = [tasks EXCEPT ![i] = Waits(@, "key", Only(c, mem'[c]))]
  /\ UNCHANGED <<ast, gone, news, key, all, feed, amilink, tick, said, wiped>>

Tell(events) == feed' = IF amilink = "down" THEN feed ELSE feed \o events

\* _on_reconnected and process go on: CoreShowChannels.  Asterisk answers with the
\* channels there are, in some order; without a connection the action fails, and
\* the next reconnect asks again.  process then writes the snapshot.
List(i) ==
  /\ tasks[i] # NoTask /\ tasks[i].at = "list"
  /\ LET here == {c \in Chan : ast[c].known}
     IN  \E order \in [1 .. Cardinality(here) -> here] :
           /\ \A c \in here : \E n \in DOMAIN order : order[n] = c
           /\ Tell([n \in DOMAIN order |-> Ev("show", order[n], ast[order[n]].data)]
                   \o <<Ev("complete", tasks[i].chan, 0)>>)
  /\ tasks' = [tasks EXCEPT ![i] = IF @.kind = "start" THEN Waits(@, "all", mem)
                                   ELSE NoTask]
  /\ UNCHANGED <<ast, gone, mem, news, heard, key, all, amilink, tick, said, mishaps,
                 raced, saved, wiped>>

TaskStep(i) ==
  \/ Start(i)
  \/ KeyWritten(i)
  \/ OtherWritten(i)
  \/ SnapshotWritten(i)
  \/ Forget(i)
  \/ KeyDeleted(i)
  \/ Restore(i)
  \/ List(i)

-----------------------------------------------------------------------------
(* Asterisk.  Without a connection the listener hears nothing. *)

\* What Asterisk has told once the event of kind k about channel c is out.
Telling(k, c) ==
  [d \in Chan |-> news[d] \cup (IF d = c THEN Tells(k) ELSE {})
                          \cup (IF k = "dial" /\ d = Other(c) THEN {"dialed_by"} ELSE {})]

\* Channel c becomes r, and its event follows those Asterisk has sent before.
ChannelEvent(k, c, r) ==
  /\ said < MaxEvents
  /\ said' = said + 1
  /\ feed = <<>>
  /\ ast' = [ast EXCEPT ![c] = r]
  /\ gone' = IF r.known THEN gone ELSE gone \cup {c}
  /\ news' = Telling(k, c)
  /\ IF amilink = "down"
     THEN UNCHANGED <<mem, heard, tasks, raced>>
     ELSE \E i \in Id : Free(i) /\ Handler(i, Ev(k, c, r.data))
  /\ UNCHANGED <<key, all, feed, amilink, tick, mishaps, saved, wiped>>

Appears(c) == /\ ~ast[c].known /\ c \notin gone
              /\ ChannelEvent("new", c, [Absent EXCEPT !.known = TRUE])
Changes(c) == /\ ast[c].known
              /\ \E k \in {"state", "enter", "leave", "exten"} :
                   ChannelEvent(k, c, [ast[c] EXCEPT !.data = 1 - @])
Dials(c) == /\ ast[c].known /\ Other(c) # c /\ ast[Other(c)].known
            /\ ChannelEvent("dial", c, ast[c])
EndsDial(c) == ast[c].known /\ ChannelEvent("dialend", c, ast[c])
SetsVariable(c) == /\ ast[c].known /\ ~ast[c].vars
                   /\ ChannelEvent("var", c, [ast[c] EXCEPT !.vars = TRUE])
HangsUp(c) == ast[c].known /\ ChannelEvent("hangup", c, Absent)

-----------------------------------------------------------------------------
(* The health check, the connection and the process. *)

\* Mutant of Tick: the health check only asks Redis whether it is there.
TickWithoutWrite ==
  /\ tick = NoTick
  /\ tick' = tick
  /\ UNCHANGED <<ast, gone, mem, news, heard, key, all, feed, amilink, tasks, said,
                 mishaps, raced, saved, wiped>>

\* health_check_loop, every 30 seconds: update_channels_state.
Tick ==
  /\ tick = NoTick
  /\ tick' = [on |-> TRUE, snap |-> mem]
  /\ UNCHANGED <<ast, gone, mem, news, heard, key, all, feed, amilink, tasks, said,
                 mishaps, raced, saved, wiped>>

TickWritten ==
  /\ tick # NoTick
  /\ \/ all' = tick.snap /\ UNCHANGED mishaps
     \/ Mishap /\ UNCHANGED all
  /\ tick' = NoTick
  /\ UNCHANGED <<ast, gone, mem, news, heard, key, feed, amilink, tasks, said, raced,
                 saved, wiped>>

Drop ==
  /\ amilink # "down"
  /\ Mishap
  /\ amilink' = "down"
  /\ UNCHANGED <<ast, gone, mem, news, heard, key, all, feed, tasks, tick, said,
                 raced, saved, wiped>>

\* _reconnect_loop adds the event listener first ...
Attach ==
  /\ amilink = "down"
  /\ amilink' = "joining"
  /\ UNCHANGED <<ast, gone, mem, news, heard, key, all, feed, tasks, tick, said,
                 mishaps, raced, saved, wiped>>

\* ... and then has the loop run _on_reconnected.
Announce ==
  /\ amilink = "joining"
  /\ feed = <<>>
  /\ amilink' = "up"
  /\ \E i \in Id : \E c \in Chan : Free(i) /\ HandleReset(i, Ev("reset", c, 0))
  /\ UNCHANGED <<ast, gone, news, key, all, feed, tick, said, mishaps>>

\* The listener dies, and systemd starts it again: __init__ and process.
Crash ==
  /\ Mishap
  /\ mem' = Nobody /\ heard' = Nothing
  /\ wiped' = {c \in Chan : ast[c].known}
  /\ feed' = <<>>
  /\ amilink' = "up"
  /\ \E c \in Chan :
       tasks' = [[i \in Id |-> NoTask] EXCEPT ![1] = Waits(Ev("start", c, 0),
                                                          "list", Nobody)]
  /\ tick' = NoTick
  /\ saved' = Kept
  /\ raced' = {}
  /\ UNCHANGED <<ast, gone, news, key, all, said>>

\* A call that says nothing for two hours loses its key.
KeyExpires(c) ==
  /\ key[c].known /\ ~InFlight(c)
  /\ Mishap
  /\ key' = [key EXCEPT ![c] = Absent]
  /\ saved' = saved \ {c}
  /\ UNCHANGED <<ast, gone, mem, news, heard, all, feed, amilink, tasks, tick, said,
                 raced, wiped>>

ChannelsNext ==
  \/ \E c \in Chan : \/ Appears(c) \/ Changes(c) \/ Dials(c) \/ EndsDial(c)
                     \/ SetsVariable(c) \/ HangsUp(c) \/ KeyExpires(c)
  \/ \E i \in Id : TaskStep(i)
  \/ Tick \/ TickWritten
  \/ Drop \/ Attach \/ Announce \/ Crash

\* The loop runs every task to its end, Redis answers, the health check ticks and
\* the reconnect loop does not give up.  Nothing is assumed of Asterisk.
ChannelsFairness ==
  /\ \A i \in Id : WF_chanVars(TaskStep(i))
  /\ WF_chanVars(Tick) /\ WF_chanVars(TickWritten)
  /\ WF_chanVars(Attach) /\ WF_chanVars(Announce)

ChannelsSpec == ChannelsInit /\ [][ChannelsNext]_chanVars /\ ChannelsFairness

-----------------------------------------------------------------------------
(* Properties. *)

\* The listener is connected and has nothing left to do.
Quiet == amilink = "up" /\ feed = <<>> /\ \A i \in Id : tasks[i] = NoTask

\* When the listener is quiet, the channels in its memory are the channels in
\* Asterisk, whatever was lost while it was not connected, and what it has of them is
\* true: with the last state that a list of the channels tells, and with no variable
\* or dialling that never was.  Of a channel that has been there since before the
\* memory was last cleared, the dialling, the time of its bridge and the arguments of
\* its application may be missing (_build_channel_state); of any other channel all of
\* it is there.  Except for a channel something happened to while
\* handle_core_show_channel waited for its key (handle_core_show_channel,
\* _on_reconnected, handle_dial_begin, handle_hangup).
MemoryIsTrue ==
  Quiet => \A c \in Chan \ raced :
             /\ mem[c].known = ast[c].known
             /\ mem[c].data = ast[c].data
             /\ mem[c].vars => ast[c].vars
             /\ heard[c] \subseteq news[c]
             /\ ast[c].known /\ c \notin wiped => /\ mem[c].vars = ast[c].vars
                                                 /\ heard[c] = news[c]

\* The variables that were in a channel's key when the memory was cleared are in
\* the memory again after the reconnect or restart (_build_channel_state: "not
\* lost"), unless the key expired or could not be read.
VariablesSurvive == Quiet => \A c \in (saved \ gone) \ raced : mem[c].vars

\* In the end the snapshot the web application serves is the memory: a snapshot
\* that overtook a newer one is repaired by the health check.
SnapshotConverges == <>[](all = mem)

\* What the listener knows of the channels.
ChannelsAreTrue == MemoryIsTrue /\ VariablesSurvive
=============================================================================
