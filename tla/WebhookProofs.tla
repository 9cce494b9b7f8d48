---------------------------- MODULE WebhookProofs ----------------------------
(***************************************************************************)
(* What WebhookChain guarantees for every set of calls and webhooks, every *)
(* configuration and any number of failures.                               *)
(***************************************************************************)
EXTENDS WebhookChain, TLAPS

-----------------------------------------------------------------------------
(* Types *)

LEMMA EventsApart ==
  /\ "Newchannel" \in AmiEvent /\ "QueueCallerJoin" \in AmiEvent
  /\ "QueueCallerAbandon" \in AmiEvent /\ "AgentConnect" \in AmiEvent
  /\ "Hangup" \in AmiEvent
  /\ \A l \in Leg : l \in AmiEvent /\ Handler(l) = "dial"
  /\ \A e \in AmiEvent : /\ Handler(e) \in Op
                         /\ Handler(e) = "dial" => e \in Leg
                         /\ Handler(e) = "missed" => e = "QueueCallerAbandon"
                         /\ Handler(e) = "answered" => e = "AgentConnect"
BY WebhookAssumption DEF AmiEvent, Handler, Op

LEMMA NothingTyped == NoMarker \in Marker /\ NoInput \in Input
BY DEF NoMarker, Marker, NoInput, Input

\* The configuration in use names webhooks only.
LEMMA HooksTyped == TypeOK => DOMAIN config.hooks \subseteq Webhook
<1> SUFFICES ASSUME TypeOK PROVE DOMAIN config.hooks \subseteq Webhook
  OBVIOUS
<1>1. CASE config \in Configs
  BY <1>1, WebhookAssumption DEF IsConfig
<1>2. CASE config = NoConfig
  <2>1. config.hooks = [x \in {} |-> x]
    BY <1>2 DEF NoConfig
  <2> QED
    BY <2>1
<1> QED
  BY <1>1, <1>2 DEF TypeOK

\* One task has another state, the others are as they were.
LEMMA OneTask ==
  ASSUME TypeOK, NEW c \in Call, NEW e \in AmiEvent, NEW t \in Task,
         Becomes(c, e, t)
  PROVE  /\ task' \in [Call \X AmiEvent -> Task]
         /\ task'[c, e] = t
         /\ \A d \in Call, f \in AmiEvent :
              d # c \/ f # e => task'[d, f] = task[d, f]
BY DEF TypeOK, Becomes

LEMMA TaskTyped ==
  ASSUME TypeOK, NEW c \in Call, NEW e \in AmiEvent
  PROVE  task[c, e] \in Task
BY DEF TypeOK

LEMMA DoneTyped ==
  ASSUME NEW t \in Task
  PROVE  /\ Done(t) \in Task
         /\ Done(t).at = "done"
         /\ Done(t).op = t.op
         /\ Done(t).in = t.in
         /\ Done(t).copy = NoMarker
BY NothingTyped DEF Done, Task

LEMMA FinishTyped ==
  ASSUME NEW t \in Task, NEW e
  PROVE  /\ Finish(e, t) \in Task
         /\ Finish(e, t).at \in {"match", "done"}
         /\ Finish(e, t).op = t.op \/ (e = "Newchannel" /\ Finish(e, t).op = "outgoing")
         /\ Finish(e, t).in = t.in
         /\ Finish(e, t).copy = NoMarker
<1>1. CASE AfterIncoming(e, t.op)
  <2> DEFINE u == [Done(t) EXCEPT !.at = "match", !.op = "outgoing"]
  <2>1. Finish(e, t) = u /\ e = "Newchannel"
    BY <1>1 DEF Finish, AfterIncoming
  <2>2. /\ u \in Task /\ u.at = "match" /\ u.op = "outgoing"
        /\ u.in = Done(t).in /\ u.copy = Done(t).copy
    BY DoneTyped DEF Task, Op
  <2> QED
    BY <2>1, <2>2, DoneTyped
<1>2. CASE ~AfterIncoming(e, t.op)
  BY <1>2, DoneTyped DEF Finish
<1> QED
  BY <1>1, <1>2

LEMMA CopyTyped ==
  ASSUME NEW t \in Task, NEW m \in Marker
  PROVE  /\ WithCopy(t, m) \in Task
         /\ WithCopy(t, m).op = t.op
         /\ WithCopy(t, m).in = t.in
         /\ WithCopy(t, m).copy \in {m, NoMarker}
         /\ WithCopy(t, m).at \in {"done", "set", "del", "fire"}
         /\ WithCopy(t, m).at = "set" =>
              t.op = "dial" /\ WithCopy(t, m).copy.direction = "outbound"
         /\ WithCopy(t, m).at = "del" => t.op = "hangup"
         /\ WithCopy(t, m).at = "fire" => t.op \notin {"dial", "hangup"}
<1> DEFINE at == CASE t.op = "dial" -> "set"
                   [] t.op = "hangup" -> "del"
                   [] OTHER -> "fire"
           u == [t EXCEPT !.copy = m, !.at = at]
           quits == \/ t.op = "dial" /\ m.direction # "outbound"
                    \/ t.op = "hangup" /\ m = NoMarker
<1>1. CASE quits
  <2>1. WithCopy(t, m) = Done(t)
    BY <1>1 DEF WithCopy
  <2> QED
    BY <2>1, DoneTyped
<1>2. CASE ~quits
  <2>1. WithCopy(t, m) = u
    BY <1>2 DEF WithCopy
  <2>2. at \in {"set", "del", "fire"}
    OBVIOUS
  <2>3. /\ u \in Task /\ u.op = t.op /\ u.in = t.in /\ u.copy = m /\ u.at = at
    BY <2>2 DEF Task
  <2> QED
    BY <1>2, <2>1, <2>2, <2>3
<1> QED
  BY <1>1, <1>2

LEMMA WrittenTyped ==
  ASSUME NEW t \in Task
  PROVE  Written(t) \in Marker
BY DEF Written, Task, Marker, Op, Input

LEMMA TargetsTyped ==
  ASSUME TypeOK, NEW t \in Task
  PROVE  Targets(t) \subseteq Webhook /\ Event(t) \in EventName
<1>1. Targets(t) \subseteq Webhook
  BY DEF Targets, Subscribed, Task, Marker
<1>2. Event(t) \in EventName
  BY DEF Event, EventName, Task, Op
<1> QED
  BY <1>1, <1>2

LEMMA StoreTyped ==
  ASSUME TypeOK, NEW c \in Call, NEW m \in Marker, Store(c, m)
  PROVE  /\ marker' \in [Call -> Marker]
         /\ disturbed' \subseteq Call
         /\ faults' \in 0 .. MaxFaults
         /\ \A d \in Call : marker'[d] = marker[d] \/ (d = c /\ marker'[d] = m)
BY WebhookAssumption DEF TypeOK, Store, Fault

\* The state of a task whose event arrives, and of one that has matched.
Arrived(c, e, in) == [task[c, e] EXCEPT
  !.at = IF listener # "on" THEN "done" ELSE IF e = "Hangup" THEN "get" ELSE "match",
  !.in = in]

LEMMA ArrivedTyped ==
  ASSUME TypeOK, NEW c \in Call, NEW e \in AmiEvent, NEW in \in Input
  PROVE  LET t == task[c, e]
             u == Arrived(c, e, in)
         IN /\ u \in Task
            /\ u.at \in {"done", "get", "match"}
            /\ u.op = t.op /\ u.in = in /\ u.copy = t.copy
<1> DEFINE at == IF listener # "on" THEN "done"
                 ELSE IF e = "Hangup" THEN "get" ELSE "match"
<1>1. at \in {"done", "get", "match"}
  OBVIOUS
<1>2. Arrived(c, e, in) = [task[c, e] EXCEPT !.at = at, !.in = in]
  BY DEF Arrived
<1> HIDE DEF at
<1> QED
  BY <1>1, <1>2, TaskTyped DEF Task

LEMMA ArriveType ==
  ASSUME TypeOK, NEW c \in Call, NEW e \in AmiEvent, NEW in \in Input,
         Arrive(c, e, in),
         chan' \in [Call -> {"idle", "up", "queued", "past", "left", "gone"}]
  PROVE  TypeOK'
<1>1. task' \in [Call \X AmiEvent -> Task]
  <2>1. Becomes(c, e, Arrived(c, e, in))
    BY DEF Arrive, Arrived
  <2> QED
    BY <2>1, ArrivedTyped, OneTask
<1>2. disturbed' \subseteq Call
  BY DEF TypeOK, Arrive
<1> QED
  BY <1>1, <1>2 DEF TypeOK, Arrive

\* What Match makes of a task.
MatchOp(c, e) ==
  IF AfterIncoming(e, task[c, e].op) /\ Matching("incoming", task[c, e].in) = {}
  THEN "outgoing" ELSE task[c, e].op
Asked(c, e) ==
  [task[c, e] EXCEPT !.at = "get", !.op = MatchOp(c, e),
                     !.matched = Matching(MatchOp(c, e), task[c, e].in)]

LEMMA MatchTyped ==
  ASSUME TypeOK, NEW c \in Call, NEW e \in AmiEvent, Match(c, e)
  PROVE  /\ Done(task[c, e]) \in Task /\ Asked(c, e) \in Task
         /\ Asked(c, e).at = "get" /\ Asked(c, e).in = task[c, e].in
         /\ Asked(c, e).copy = task[c, e].copy
         /\ \/ Asked(c, e).op = task[c, e].op
            \/ e = "Newchannel" /\ Asked(c, e).op = "outgoing"
         /\ Becomes(c, e, Done(task[c, e])) \/ Becomes(c, e, Asked(c, e))
<1>1. Matching(MatchOp(c, e), task[c, e].in) \subseteq Webhook
  BY HooksTyped DEF Matching
<1>2. \/ MatchOp(c, e) = task[c, e].op
      \/ e = "Newchannel" /\ MatchOp(c, e) = "outgoing"
  BY DEF MatchOp, AfterIncoming
<1>3. MatchOp(c, e) \in Op
  BY <1>2, TaskTyped DEF Task, Op
<1>4. /\ Asked(c, e) \in Task
      /\ Asked(c, e).at = "get" /\ Asked(c, e).op = MatchOp(c, e)
      /\ Asked(c, e).in = task[c, e].in /\ Asked(c, e).copy = task[c, e].copy
  <2> HIDE DEF MatchOp, Matching
  <2> QED
    BY <1>1, <1>3, TaskTyped DEF Asked, Task
<1>5. Becomes(c, e, Done(task[c, e])) \/ Becomes(c, e, Asked(c, e))
  BY DEF Match, Asked, MatchOp
<1> QED
  BY <1>2, <1>4, <1>5, TaskTyped, DoneTyped

\* A task that has fired, and one that has written.
LEMMA FireTyped ==
  ASSUME TypeOK, NEW c \in Call, NEW e \in AmiEvent, Fire(c, e)
  PROVE  LET t == task[c, e]
             u == [t EXCEPT !.at = "set"]
         IN /\ u \in Task
            /\ u.at = "set" /\ u.op = t.op /\ u.in = t.in
            /\ u.matched = t.matched /\ u.copy = t.copy
            /\ \/ /\ Becomes(c, e, u)
                  /\ \/ t.op \in Announce /\ Targets(t) # {}
                     \/ t.op \in {"missed", "answered"}
               \/ Becomes(c, e, Finish(e, t))
<1>1. task[c, e] \in Task
  BY TaskTyped
<1> QED
  BY <1>1 DEF Fire, Task

LEMMA SetTyped ==
  ASSUME TypeOK, NEW c \in Call, NEW e \in AmiEvent, Set(c, e) \/ Del(c, e)
  PROVE  LET t == task[c, e]
             u == [t EXCEPT !.at = "fire"]
         IN /\ u \in Task
            /\ u.at = "fire" /\ u.op = t.op /\ u.in = t.in /\ u.copy = t.copy
            /\ Set(c, e) =>
                 \/ Becomes(c, e, u) /\ t.op = "dial" /\ t.in.answer
                 \/ Becomes(c, e, Finish(e, t))
            /\ Del(c, e) => Becomes(c, e, u)
<1>1. task[c, e] \in Task
  BY TaskTyped
<1> QED
  BY <1>1 DEF Set, Del, Task

\* Whatever Asterisk does, the event of one call arrives, or none.
LEMMA AsteriskArrives ==
  ASSUME TypeOK, NEW c \in Call, Asterisk(c)
  PROVE  /\ chan' \in [Call -> {"idle", "up", "queued", "past", "left", "gone"}]
         /\ \/ QueueTimeout(c) /\ UNCHANGED <<marker, task, sent>>
            \/ \E e \in AmiEvent, in \in Input : Arrive(c, e, in)
<1>q. [NoInput EXCEPT !.queues = task[c, "QueueCallerJoin"].in.queues] \in Input
  BY TaskTyped, EventsApart DEF Task, NoInput, Input
<1>1. \A x \in Context, q \in Queue, u \in Endpoint \cup {Nobody}, b \in BOOLEAN :
        /\ [NoInput EXCEPT !.contexts = {x}, !.caller = u] \in Input
        /\ [NoInput EXCEPT !.contexts = {x}, !.queues = {q}] \in Input
        /\ [NoInput EXCEPT !.answer = b] \in Input
  BY DEF NoInput, Input
<1>2. chan' \in [Call -> {"idle", "up", "queued", "past", "left", "gone"}]
  BY DEF Asterisk, Newchannel, QueueCallerJoin, QueueCallerAbandon, AgentConnect,
         QueueTimeout, Hangup, DialEnd, Move, TypeOK
<1>3. CASE Newchannel(c)
  <2>1. PICK x \in Context, u \in Endpoint \cup {Nobody} :
          Arrive(c, "Newchannel", [NoInput EXCEPT !.contexts = {x}, !.caller = u])
    BY <1>3 DEF Newchannel
  <2>2. [NoInput EXCEPT !.contexts = {x}, !.caller = u] \in Input
    BY DEF NoInput, Input
  <2> QED
    BY <1>2, <2>1, <2>2, EventsApart
<1>4. CASE QueueCallerJoin(c)
  BY <1>1, <1>2, <1>4, EventsApart DEF QueueCallerJoin
<1>5. CASE QueueCallerAbandon(c)
  BY <1>q, <1>2, <1>5, EventsApart DEF QueueCallerAbandon
<1>6. CASE AgentConnect(c)
  BY <1>q, <1>2, <1>6, EventsApart DEF AgentConnect
<1>7. CASE QueueTimeout(c)
  BY <1>2, <1>7 DEF QueueTimeout
<1>8. CASE Hangup(c)
  BY <1>2, <1>8, EventsApart, NothingTyped DEF Hangup
<1>9. ASSUME NEW l \in Leg, DialEnd(c, l)
      PROVE  \E e \in AmiEvent, in \in Input : Arrive(c, e, in)
  <2>1. PICK b \in BOOLEAN : Arrive(c, l, [NoInput EXCEPT !.answer = b])
    BY <1>9 DEF DialEnd
  <2>2. [NoInput EXCEPT !.answer = b] \in Input
    BY DEF NoInput, Input
  <2> QED
    BY <2>1, <2>2, EventsApart
<1> QED
  BY <1>2, <1>3, <1>4, <1>5, <1>6, <1>7, <1>8, <1>9 DEF Asterisk

LEMMA NextType == TypeOK /\ [Next]_vars => TypeOK'
<1> SUFFICES ASSUME TypeOK, [Next]_vars
             PROVE  TypeOK'
  OBVIOUS
<1>1. ASSUME NEW c \in Call, Asterisk(c) PROVE TypeOK'
  <2>1. CASE QueueTimeout(c)
    BY <2>1 DEF QueueTimeout, Move, TypeOK
  <2> QED
    BY <1>1, <2>1, AsteriskArrives, ArriveType
<1>2. ASSUME NEW c \in Call, NEW e \in AmiEvent, Step(c, e) PROVE TypeOK'
  <2>t. task[c, e] \in Task
    BY TaskTyped
  <2>1. CASE Match(c, e)
    <3>1. task' \in [Call \X AmiEvent -> Task]
      BY <2>1, MatchTyped, OneTask, ZenonT(40)
    <3> QED
      BY <2>1, <3>1 DEF Match, TypeOK
  <2>2. CASE Get(c, e)
    <3>1. marker[c] \in Marker
      BY DEF TypeOK
    <3>2. task' \in [Call \X AmiEvent -> Task]
      BY <2>2, <2>t, <3>1, NothingTyped, CopyTyped, OneTask DEF Get
    <3>3. UNCHANGED faults \/ Fault
      BY <2>2 DEF Get
    <3>4. faults' \in 0 .. MaxFaults
      BY <3>3, WebhookAssumption DEF Fault, TypeOK
    <3>5. disturbed' \subseteq Call
      BY <2>2 DEF Get, TypeOK
    <3> QED
      BY <2>2, <3>2, <3>4, <3>5 DEF Get, TypeOK
  <2>3. CASE Fire(c, e)
    <3>1. task' \in [Call \X AmiEvent -> Task]
      BY <2>3, <2>t, FireTyped, FinishTyped, OneTask, ZenonT(40)
    <3>2. sent' \subseteq [call : Call, by : AmiEvent, to : Webhook,
                          event : EventName, answered : BOOLEAN, missed : BOOLEAN]
      <4>1. \A w \in Targets(task[c, e]) : w \in Webhook
        BY <2>t, TargetsTyped
      <4>2. Event(task[c, e]) \in EventName
        BY <2>t, TargetsTyped
      <4> DEFINE ans == task[c, e].op = "hangup"
                        /\ (task[c, e].copy.answered \/ task[c, e].copy.member)
                 mis == task[c, e].op = "hangup" /\ task[c, e].copy.missed
      <4>3. ans \in BOOLEAN /\ mis \in BOOLEAN
        OBVIOUS
      <4> DEFINE r(w) == [call |-> c, by |-> e, to |-> w, event |-> Event(task[c, e]),
                          answered |-> ans, missed |-> mis]
      <4>4. sent' = sent \cup {r(w) : w \in Targets(task[c, e])}
        BY <2>3 DEF Fire
      <4> HIDE DEF ans, mis
      <4>5. \A w \in Webhook : r(w) \in [call : Call, by : AmiEvent, to : Webhook,
                          event : EventName, answered : BOOLEAN, missed : BOOLEAN]
        BY <4>2, <4>3
      <4>6. sent \subseteq [call : Call, by : AmiEvent, to : Webhook,
                          event : EventName, answered : BOOLEAN, missed : BOOLEAN]
        BY DEF TypeOK
      <4> DEFINE T == Targets(task[c, e])
      <4> HIDE DEF r, T
      <4> QED
        BY <4>1, <4>4, <4>5, <4>6 DEF T
    <3> QED
      BY <2>3, <3>1, <3>2 DEF Fire, TypeOK
  <2>4. CASE Set(c, e)
    <3>1. task' \in [Call \X AmiEvent -> Task]
      BY <2>4, <2>t, SetTyped, FinishTyped, OneTask, ZenonT(40)
    <3> QED
      BY <2>4, <2>t, <3>1, WrittenTyped, StoreTyped DEF Set, TypeOK
  <2>5. CASE Del(c, e)
    <3>1. task' \in [Call \X AmiEvent -> Task]
      BY <2>5, <2>t, SetTyped, OneTask
    <3> QED
      BY <2>5, <3>1, NothingTyped, StoreTyped DEF Del, TypeOK
  <2> QED
    BY <1>2, <2>1, <2>2, <2>3, <2>4, <2>5 DEF Step
<1>3. ASSUME NEW c \in Call, Expire(c) PROVE TypeOK'
  BY <1>3, NothingTyped, WebhookAssumption DEF Expire, Fault, TypeOK
<1>4. CASE load_config
  BY <1>4 DEF load_config, TypeOK
<1>5. CASE Disconnect
  BY <1>5, WebhookAssumption DEF Disconnect, Fault, TypeOK
<1>6. CASE Stop
  <2>1. \A ce \in Call \X AmiEvent : task[ce] \in Task /\ Done(task[ce]) \in Task
    BY DoneTyped DEF TypeOK
  <2> QED
    BY <1>6, <2>1, WebhookAssumption DEF Stop, Fault, TypeOK
<1>7. CASE Connect
  BY <1>7 DEF Connect, TypeOK
<1>8. CASE UNCHANGED vars
  BY <1>8 DEF vars, TypeOK
<1> QED
  BY <1>1, <1>2, <1>3, <1>4, <1>5, <1>6, <1>7, <1>8 DEF Next

LEMMA InitTask ==
  ASSUME Init, NEW c \in Call, NEW e \in AmiEvent
  PROVE  /\ task[c, e] \in Task
         /\ task[c, e].at = "none" /\ task[c, e].op = Handler(e)
         /\ task[c, e].in = NoInput /\ task[c, e].copy = NoMarker
<1> DEFINE r(o) == [at |-> "none", op |-> o, in |-> NoInput, matched |-> {},
                    copy |-> NoMarker]
<1>1. task[c, e] = r(Handler(e))
  BY DEF Init
<1>2. Handler(e) \in Op
  BY EventsApart
<1>3. \A o \in Op : /\ r(o) \in Task /\ r(o).at = "none" /\ r(o).op = o
                    /\ r(o).in = NoInput /\ r(o).copy = NoMarker
  BY NothingTyped DEF Task
<1> HIDE DEF r
<1> QED
  BY <1>1, <1>2, <1>3

LEMMA InitType == Init => TypeOK
<1> SUFFICES ASSUME Init PROVE TypeOK
  OBVIOUS
<1>1. task \in [Call \X AmiEvent -> Task]
  <2>1. DOMAIN task = Call \X AmiEvent /\ task = [ce \in Call \X AmiEvent |-> task[ce]]
    BY DEF Init
  <2>2. \A ce \in Call \X AmiEvent : task[ce] \in Task
    <3> TAKE ce \in Call \X AmiEvent
    <3>1. PICK c \in Call, e \in AmiEvent : ce = <<c, e>>
      OBVIOUS
    <3> QED
      BY <3>1, InitTask
  <2> QED
    BY <2>1, <2>2
<1> QED
  BY <1>1, NothingTyped, WebhookAssumption DEF Init, TypeOK

\* Type correctness: every variable keeps its type.
THEOREM TypeCorrect == Spec => []TypeOK
BY InitType, NextType, PTL DEF Spec

-----------------------------------------------------------------------------
(* An event that closes a chain was preceded by its beginning. *)

\* Among the sends in S there is one to w about c with one of these names.
In(S, c, w, names) ==
  \E s \in S : s.call = c /\ s.to = w /\ s.event \in names

Begun(S) ==
  \A s \in S :
    /\ s.event \in {"ended", "outgoing_answered", "outgoing_ended"} =>
         In(S, s.call, s.to, Announce)
    /\ s.event = "ended" => \E w \in Webhook : In(S, s.call, w, {"incoming"})
    /\ s.event \in {"outgoing_answered", "outgoing_ended"} =>
         \E w \in Webhook : In(S, s.call, w, {"outgoing"})

LEMMA BegunIsOnlyAnnounced == OnlyAnnounced <=> Begun(sent)
BY DEF OnlyAnnounced, Begun, Told, In

\* Whoever a marker names was told that the call began, and its direction was
\* announced to somebody.  This holds of the marker in Redis and of every copy.
Sound(S, c, m) ==
  /\ \A w \in m.webhooks : In(S, c, w, Announce)
  /\ m.webhooks # {} => m.direction # "none"
  /\ m.direction = "inbound" => \E w \in Webhook : In(S, c, w, {"incoming"})
  /\ m.direction = "outbound" => \E w \in Webhook : In(S, c, w, {"outgoing"})

\* A handler about to write an announcement has fired it.
TaskSound(S, c, t) ==
  /\ Sound(S, c, t.copy)
  /\ t.at = "set" /\ t.op \in Announce =>
       /\ \A w \in t.matched : w \in t.copy.webhooks \/ In(S, c, w, Announce)
       /\ \E w \in Webhook : In(S, c, w, {t.op})
  /\ t.at \in {"set", "fire"} /\ t.op = "dial" => t.copy.direction = "outbound"
  /\ t.at = "set" => t.op # "hangup"
  /\ t.at = "del" => t.op = "hangup"

SoundInv ==
  /\ \A c \in Call : Sound(sent, c, marker[c])
  /\ \A c \in Call, e \in AmiEvent : TaskSound(sent, c, task[c, e])
  /\ Begun(sent)

\* What was told stays told.
LEMMA StaysTold ==
  ASSUME NEW S, NEW T, S \subseteq T
  PROVE  /\ \A c, w, names : In(S, c, w, names) => In(T, c, w, names)
         /\ \A c, m : Sound(S, c, m) => Sound(T, c, m)
         /\ \A c, t : TaskSound(S, c, t) => TaskSound(T, c, t)
<1>1. \A c, w, names : In(S, c, w, names) => In(T, c, w, names)
  BY DEF In
<1>2. \A c, m : Sound(S, c, m) => Sound(T, c, m)
  BY <1>1 DEF Sound
<1>3. \A c, t : TaskSound(S, c, t) => TaskSound(T, c, t)
  BY <1>1, <1>2 DEF TaskSound
<1> QED
  BY <1>1, <1>2, <1>3

LEMMA NoMarkerSound == \A S, c : Sound(S, c, NoMarker)
BY DEF Sound, NoMarker

\* A task that is done, or goes on to its second announcement, is sound.
LEMMA IdleSound ==
  ASSUME NEW S, NEW c, NEW t \in Task, t.copy = NoMarker,
         t.at \in {"none", "match", "get", "done"}
  PROVE  TaskSound(S, c, t)
BY NoMarkerSound DEF TaskSound

\* A step of one task keeps the invariant if its new state is sound and so is
\* what it writes.
LEMMA TaskStep ==
  ASSUME TypeOK, SoundInv, NEW c \in Call, NEW e \in AmiEvent, NEW t \in Task,
         Becomes(c, e, t), sent \subseteq sent', TaskSound(sent', c, t),
         \A d \in Call : marker'[d] = marker[d] \/ Sound(sent', d, marker'[d]),
         Begun(sent')
  PROVE  SoundInv'
<1>1. \A d \in Call : Sound(sent', d, marker'[d])
  BY StaysTold DEF SoundInv
<1>o. \A d \in Call, f \in AmiEvent : d # c \/ f # e => task'[d, f] = task[d, f]
  BY DEF Becomes, TypeOK
<1>2. \A d \in Call, f \in AmiEvent : TaskSound(sent', d, task'[d, f])
  <2> TAKE d \in Call, f \in AmiEvent
  <2>1. CASE d = c /\ f = e
    BY <2>1, OneTask
  <2>2. CASE d # c \/ f # e
    <3>1. task'[d, f] = task[d, f]
      BY <1>o, <2>2
    <3>2. TaskSound(sent, d, task[d, f])
      BY DEF SoundInv
    <3>3. TaskSound(sent', d, task[d, f])
      BY <3>2, StaysTold
    <3> QED
      BY <3>1, <3>3
  <2> QED
    BY <2>1, <2>2
<1> QED
  BY <1>1, <1>2 DEF SoundInv

LEMMA ArriveSound ==
  ASSUME TypeOK, SoundInv, NEW c \in Call, NEW e \in AmiEvent, NEW in \in Input,
         Arrive(c, e, in)
  PROVE  SoundInv'
<1> DEFINE u == Arrived(c, e, in)
<1>1. /\ u \in Task /\ u.at \in {"done", "get", "match"} /\ u.op = task[c, e].op
      /\ u.copy = task[c, e].copy
  BY ArrivedTyped
<1>2. Becomes(c, e, u)
  BY DEF Arrive, Arrived
<1>3. TaskSound(sent, c, task[c, e]) /\ Begun(sent)
  BY DEF SoundInv
<1> HIDE DEF u
<1>4. TaskSound(sent, c, u)
  BY <1>1, <1>3 DEF TaskSound
<1>5. sent' = sent /\ marker' = marker
  BY DEF Arrive
<1> QED
  BY <1>1, <1>2, <1>3, <1>4, <1>5, TaskStep

\* What a sound handler writes is sound.
LEMMA WrittenSound ==
  ASSUME NEW S, NEW c \in Call, NEW t \in Task, TaskSound(S, c, t), t.at = "set"
  PROVE  Sound(S, c, Written(t))
<1>1. t.copy \in Marker /\ t.op \in Op
  BY DEF Task
<1>2. CASE t.op \in Announce
  <2>1. /\ Written(t).webhooks = t.copy.webhooks \cup t.matched
        /\ Written(t).direction = IF t.op = "incoming" THEN "inbound" ELSE "outbound"
    BY <1>1, <1>2 DEF Written, Announce, Marker
  <2>2. \A w \in Written(t).webhooks : In(S, c, w, Announce)
    BY <1>2, <2>1 DEF TaskSound, Sound
  <2>3. \E w \in Webhook : In(S, c, w, {t.op})
    BY <1>2 DEF TaskSound
  <2> QED
    BY <1>2, <2>1, <2>2, <2>3 DEF Sound, Announce
<1>3. CASE t.op \notin Announce
  <2>1. /\ Written(t).webhooks = t.copy.webhooks
        /\ Written(t).direction = t.copy.direction
    BY <1>1, <1>3 DEF Written, Announce, Marker
  <2> QED
    BY <2>1 DEF TaskSound, Sound
<1> QED
  BY <1>2, <1>3

\* Firing an announcement, or firing to those whom the marker names.
LEMMA FireSound ==
  ASSUME TypeOK, SoundInv, NEW c \in Call, NEW e \in AmiEvent, Fire(c, e)
  PROVE  SoundInv'
<1> DEFINE t == task[c, e]
           u == [t EXCEPT !.at = "set"]
           T == Targets(t)
           ev == Event(t)
<1>1. t \in Task /\ TaskSound(sent, c, t) /\ Begun(sent) /\ t.at = "fire"
  BY TaskTyped DEF SoundInv, Fire
<1>2. T \subseteq Webhook
  BY <1>1, TargetsTyped
<1>3. /\ u \in Task /\ u.at = "set" /\ u.op = t.op
      /\ u.matched = t.matched /\ u.copy = t.copy
      /\ \/ /\ Becomes(c, e, u)
            /\ \/ t.op \in Announce /\ T # {}
               \/ t.op \in {"missed", "answered"}
         \/ Becomes(c, e, Finish(e, t))
  BY FireTyped
<1>4. /\ sent \subseteq sent'
      /\ \A w \in T : \E s \in sent' : s.call = c /\ s.to = w /\ s.event = ev
      /\ \A s \in sent' : s \in sent \/ (s.call = c /\ s.to \in T /\ s.event = ev)
  <2> DEFINE r(w) == [call |-> c, by |-> e, to |-> w, event |-> ev,
                      answered |-> t.op = "hangup" /\ (t.copy.answered \/ t.copy.member),
                      missed |-> t.op = "hangup" /\ t.copy.missed]
  <2>1. sent' = sent \cup {r(w) : w \in T}
    BY DEF Fire
  <2>2. \A w : r(w).call = c /\ r(w).to = w /\ r(w).event = ev
    OBVIOUS
  <2> HIDE DEF r, T, ev, t
  <2> QED
    BY <2>1, <2>2
<1>m. marker' = marker
  BY DEF Fire
<1>5. t.op \in Announce => T = t.matched \ t.copy.webhooks /\ ev = t.op
  BY DEF Targets, Event, Announce
<1>6. t.op \in {"missed", "answered"} => ev = t.op
  BY DEF Event
<1>7. t.op \in {"dial", "hangup"} => T \subseteq t.copy.webhooks
  BY DEF Targets, Subscribed, Announce
<1>8. /\ t.op = "dial" => ev = "outgoing_answered"
      /\ t.op = "hangup" =>
           ev = IF t.copy.direction = "outbound" THEN "outgoing_ended" ELSE "ended"
  BY DEF Event
<1>9. t.copy \in Marker /\ t.op \in Op
  BY <1>1 DEF Task
<1>f. /\ Finish(e, t) \in Task /\ Finish(e, t).at \in {"match", "done"}
      /\ Finish(e, t).copy = NoMarker
  BY <1>1, FinishTyped
<1> DEFINE fin == Finish(e, t)
<1> HIDE DEF t, u, T, ev, fin
<1>10. /\ TaskSound(sent', c, t)
       /\ \A d, w, names : In(sent, d, w, names) => In(sent', d, w, names)
  BY <1>1, <1>4, StaysTold
<1>11. Begun(sent')
  <2>1. ASSUME NEW s \in sent', s.event \in {"ended", "outgoing_answered", "outgoing_ended"}
        PROVE  /\ In(sent', s.call, s.to, Announce)
               /\ s.event = "ended" => \E w \in Webhook : In(sent', s.call, w, {"incoming"})
               /\ s.event # "ended" => \E w \in Webhook : In(sent', s.call, w, {"outgoing"})
    <3>1. CASE s \in sent
      BY <1>1, <1>10, <2>1, <3>1 DEF Begun
    <3>2. CASE s \notin sent
      <4>1. s.call = c /\ s.to \in T /\ s.event = ev
        BY <1>4, <3>2
      <4>2. t.op \in {"dial", "hangup"}
        BY <1>5, <1>6, <1>9, <2>1, <4>1 DEF Op, Announce
      <4>3. s.to \in t.copy.webhooks
        BY <1>7, <4>1, <4>2
      <4>4. Sound(sent', c, t.copy)
        BY <1>10 DEF TaskSound
      <4>5. s.event # "ended" => t.copy.direction = "outbound"
        BY <1>1, <1>8, <4>1, <4>2 DEF TaskSound
      <4>6. s.event = "ended" => t.copy.direction = "inbound"
        BY <1>8, <1>9, <4>1, <4>2, <4>3, <4>4 DEF Sound, Marker
      <4> QED
        BY <4>1, <4>3, <4>4, <4>5, <4>6 DEF Sound
    <3> QED
      BY <3>1, <3>2
  <2> QED
    BY <2>1 DEF Begun
<1>12. CASE /\ Becomes(c, e, u)
            /\ \/ t.op \in Announce /\ T # {}
               \/ t.op \in {"missed", "answered"}
  <2>1. Sound(sent', c, t.copy)
    BY <1>10 DEF TaskSound
  <2>2. ASSUME t.op \in Announce
        PROVE  /\ \A w \in t.matched : w \in t.copy.webhooks \/ In(sent', c, w, Announce)
               /\ \E w \in Webhook : In(sent', c, w, {t.op})
    BY <1>2, <1>4, <1>5, <1>12, <2>2 DEF In, Announce
  <2>3. TaskSound(sent', c, u)
    BY <1>3, <1>12, <2>1, <2>2 DEF TaskSound, Announce
  <2> QED
    BY <1>3, <1>4, <1>m, <1>11, <1>12, <2>3, TaskStep
<1>13. CASE Becomes(c, e, fin)
  <2>1. TaskSound(sent', c, fin)
    BY <1>f, IdleSound DEF fin
  <2> QED
    BY <1>4, <1>m, <1>f, <1>11, <1>13, <2>1, TaskStep DEF fin
<1> QED
  BY <1>3, <1>12, <1>13 DEF fin

LEMMA MatchSound ==
  ASSUME TypeOK, SoundInv, NEW c \in Call, NEW e \in AmiEvent, Match(c, e)
  PROVE  SoundInv'
<1>1. /\ Asked(c, e) \in Task /\ Asked(c, e).at = "get"
      /\ Asked(c, e).copy = task[c, e].copy
      /\ Becomes(c, e, Done(task[c, e])) \/ Becomes(c, e, Asked(c, e))
  <2>1. Asked(c, e) \in Task
    BY MatchTyped
  <2>2. Becomes(c, e, Done(task[c, e])) \/ Becomes(c, e, Asked(c, e))
    BY MatchTyped
  <2>3. Asked(c, e).at = "get" /\ Asked(c, e).copy = task[c, e].copy
    BY TaskTyped DEF Asked, Task
  <2> QED
    BY <2>1, <2>2, <2>3
<1>2. Done(task[c, e]) \in Task /\ Done(task[c, e]).at = "done"
      /\ Done(task[c, e]).copy = NoMarker
  BY TaskTyped, DoneTyped
<1>3. Sound(sent, c, task[c, e].copy) /\ Begun(sent)
  BY DEF SoundInv, TaskSound
<1>4. sent' = sent /\ marker' = marker
  BY DEF Match
<1>5. TaskSound(sent, c, Asked(c, e)) /\ TaskSound(sent, c, Done(task[c, e]))
  BY <1>1, <1>2, <1>3, IdleSound DEF TaskSound
<1> QED
  BY <1>1, <1>2, <1>3, <1>4, <1>5, TaskStep

\* A marker that was read is sound, and so is the absence of one.
LEMMA GetSound ==
  ASSUME TypeOK, SoundInv, NEW c \in Call, NEW e \in AmiEvent, Get(c, e)
  PROVE  SoundInv'
<1>1. PICK m \in Marker : /\ Becomes(c, e, WithCopy(task[c, e], m))
                          /\ Sound(sent, c, m)
  BY NoMarkerSound, NothingTyped DEF Get, TypeOK, SoundInv
<1> DEFINE t == task[c, e]
           u == WithCopy(t, m)
<1>2. /\ u \in Task /\ u.op = t.op /\ u.copy \in {m, NoMarker}
      /\ u.at \in {"done", "set", "del", "fire"}
      /\ u.at = "set" => t.op = "dial" /\ u.copy.direction = "outbound"
      /\ u.at = "del" => t.op = "hangup"
      /\ u.at = "fire" => t.op \notin {"dial", "hangup"}
  BY TaskTyped, CopyTyped
<1>3. sent' = sent /\ marker' = marker /\ Begun(sent)
  BY DEF Get, SoundInv
<1> HIDE DEF t, u
<1>4. TaskSound(sent, c, u)
  BY <1>1, <1>2, NoMarkerSound DEF TaskSound, Announce
<1> QED
  BY <1>1, <1>2, <1>3, <1>4, TaskStep DEF t, u

LEMMA StoreSound ==
  ASSUME TypeOK, SoundInv, NEW c \in Call, NEW e \in AmiEvent, Set(c, e) \/ Del(c, e)
  PROVE  SoundInv'
<1> DEFINE t == task[c, e]
           u == [t EXCEPT !.at = "fire"]
           fin == Finish(e, t)
<1>1. /\ u \in Task /\ u.at = "fire" /\ u.op = t.op /\ u.copy = t.copy
      /\ Set(c, e) => \/ Becomes(c, e, u) /\ t.op = "dial"
                      \/ Becomes(c, e, fin)
      /\ Del(c, e) => Becomes(c, e, u)
  BY SetTyped
<1>2. t \in Task /\ TaskSound(sent, c, t) /\ Begun(sent)
  BY TaskTyped DEF SoundInv
<1>3. /\ fin \in Task /\ fin.at \in {"match", "done"} /\ fin.copy = NoMarker
  BY <1>2, FinishTyped
<1>4. sent' = sent
  BY DEF Set, Del
<1>5. \A d \in Call : marker'[d] = marker[d] \/ Sound(sent, d, marker'[d])
  <2>1. CASE Set(c, e)
    <3>1. Written(t) \in Marker /\ Sound(sent, c, Written(t))
      BY <1>2, <2>1, WrittenTyped, WrittenSound DEF Set
    <3>2. Store(c, Written(t))
      BY <2>1 DEF Set
    <3> HIDE DEF t
    <3> QED
      BY <3>1, <3>2, StoreTyped
  <2>2. CASE Del(c, e)
    BY <2>2, NothingTyped, NoMarkerSound, StoreTyped, ZenonT(40) DEF Del
  <2> QED
    BY <2>1, <2>2
<1>6. (Set(c, e) => t.at = "set") /\ (Del(c, e) => t.at = "del")
  BY DEF Set, Del
<1> HIDE DEF t, u, fin
<1>7. TaskSound(sent, c, fin)
  BY <1>3, IdleSound
<1>8. TaskSound(sent, c, u)
  BY <1>1, <1>2, <1>6 DEF TaskSound
<1> QED
  BY <1>1, <1>2, <1>3, <1>4, <1>5, <1>7, <1>8, TaskStep

LEMMA NextSound == TypeOK /\ SoundInv /\ [Next]_vars => SoundInv'
<1> SUFFICES ASSUME TypeOK, SoundInv, [Next]_vars
             PROVE  SoundInv'
  OBVIOUS
<1>1. ASSUME UNCHANGED <<marker, task, sent>> PROVE SoundInv'
  <2>1. sent' = sent /\ marker' = marker /\ task' = task
    BY <1>1
  <2> QED
    BY <2>1 DEF SoundInv
<1>2. ASSUME NEW c \in Call, Asterisk(c) PROVE SoundInv'
  <2>1. \/ UNCHANGED <<marker, task, sent>>
        \/ \E e \in AmiEvent, in \in Input : Arrive(c, e, in)
    BY <1>2, AsteriskArrives
  <2> QED
    BY <1>1, <2>1, ArriveSound
<1>3. ASSUME NEW c \in Call, NEW e \in AmiEvent, Step(c, e) PROVE SoundInv'
  BY <1>3, MatchSound, GetSound, FireSound, StoreSound DEF Step
<1>4. ASSUME NEW c \in Call, Expire(c) PROVE SoundInv'
  <2>1. \A d \in Call : marker'[d] \in {marker[d], NoMarker}
    BY <1>4 DEF Expire, TypeOK
  <2>2. sent' = sent /\ task' = task
    BY <1>4 DEF Expire
  <2> QED
    BY <2>1, <2>2, NoMarkerSound DEF SoundInv
<1>5. CASE Stop
  <2>1. sent' = sent /\ marker' = marker
    BY <1>5 DEF Stop
  <2>2. \A d \in Call, f \in AmiEvent : TaskSound(sent, d, task'[d, f])
    <3> TAKE d \in Call, f \in AmiEvent
    <3>1. task'[d, f] = task[d, f] \/ task'[d, f] = Done(task[d, f])
      BY <1>5 DEF Stop
    <3>2. TaskSound(sent, d, Done(task[d, f]))
      BY TaskTyped, DoneTyped, IdleSound
    <3> QED
      BY <3>1, <3>2 DEF SoundInv
  <2> QED
    BY <2>1, <2>2 DEF SoundInv
<1> QED
  BY <1>1, <1>2, <1>3, <1>4, <1>5 DEF Next, vars, load_config, Disconnect, Connect

LEMMA InitSound == Init => SoundInv
<1> SUFFICES ASSUME Init PROVE SoundInv
  OBVIOUS
<1>1. \A c \in Call, e \in AmiEvent : TaskSound(sent, c, task[c, e])
  BY InitTask, IdleSound
<1> QED
  BY <1>1, NoMarkerSound DEF Init, SoundInv, Begun

\* No webhook hears of an end, or of an outgoing answer, without having heard of
\* the beginning, whatever overlaps, fails or is reconfigured.
THEOREM NoEndWithoutStart == Spec => []OnlyAnnounced
<1>1. Init => TypeOK /\ SoundInv
  BY InitType, InitSound
<1>2. TypeOK /\ SoundInv /\ [Next]_vars => (TypeOK /\ SoundInv)'
  BY NextType, NextSound
<1>3. SoundInv => OnlyAnnounced
  BY BegunIsOnlyAnnounced DEF SoundInv
<1> QED
  BY <1>1, <1>2, <1>3, PTL DEF Spec

-----------------------------------------------------------------------------
(* What an end event reports is true. *)

Answered(T, c) == \/ \E l \in Leg : T[c, l].in.answer
                  \/ T[c, "AgentConnect"].at # "none"
Left(T, c) == T[c, "QueueCallerAbandon"].at # "none"

\* What a marker says of a call did happen, given the handlers T that ran.
Honest(T, c, m) ==
  /\ m.answered \/ m.member => Answered(T, c)
  /\ m.missed => Left(T, c)

\* The copy of a handler is honest, its method is the one for its event, and a
\* DialEnd that fires brought an answer.
TaskHonest(T, c, e, t) ==
  /\ Honest(T, c, t.copy)
  /\ t.op = Handler(e) \/ (e = "Newchannel" /\ t.op = "outgoing")
  /\ t.at = "none" => ~t.in.answer
  /\ t.at = "fire" /\ t.op = "dial" => t.in.answer
  /\ t.at = "set" => t.op # "hangup"
  /\ t.at = "del" => t.op = "hangup"

Reported(T, s) ==
  /\ s.answered => Answered(T, s.call)
  /\ s.missed => Left(T, s.call)
  /\ s.event = "outgoing_answered" => T[s.call, s.by].in.answer

HonestInv ==
  /\ \A c \in Call : Honest(task, c, marker[c])
  /\ \A c \in Call, e \in AmiEvent : TaskHonest(task, c, e, task[c, e])
  /\ \A s \in sent : Reported(task, s)

\* A handler that began stays begun, and remembers its event.
Remember(T, U) == \A c \in Call, e \in AmiEvent :
  T[c, e].at # "none" => U[c, e].at # "none" /\ U[c, e].in = T[c, e].in

LEMMA StaysHonest ==
  ASSUME TypeOK, HonestInv, Remember(task, task')
  PROVE  /\ \A c \in Call : \A m : Honest(task, c, m) => Honest(task', c, m)
         /\ \A c \in Call : \A e, t : TaskHonest(task, c, e, t) => TaskHonest(task', c, e, t)
         /\ \A s : s.call \in Call /\ s.by \in AmiEvent /\ Reported(task, s) =>
              Reported(task', s)
<1>1. \A c \in Call, e \in AmiEvent :
        task[c, e].in.answer => task'[c, e].in.answer
  <2> TAKE c \in Call, e \in AmiEvent
  <2>1. task[c, e].at = "none" => ~task[c, e].in.answer
    BY DEF HonestInv, TaskHonest
  <2>2. task[c, e].at # "none" => task'[c, e].in = task[c, e].in
    BY DEF Remember
  <2> QED
    BY <2>1, <2>2
<1>2. \A c \in Call : Answered(task, c) => Answered(task', c)
  BY <1>1, EventsApart DEF Answered, Remember
<1>3. \A c \in Call : Left(task, c) => Left(task', c)
  BY EventsApart DEF Left, Remember
<1>4. \A c \in Call : \A m : Honest(task, c, m) => Honest(task', c, m)
  BY <1>2, <1>3 DEF Honest
<1>5. \A c \in Call : \A e, t : TaskHonest(task, c, e, t) => TaskHonest(task', c, e, t)
  BY <1>4 DEF TaskHonest
<1>6. \A s : s.call \in Call /\ s.by \in AmiEvent /\ Reported(task, s) =>
        Reported(task', s)
  BY <1>1, <1>2, <1>3 DEF Reported
<1> QED
  BY <1>4, <1>5, <1>6

\* A step of one task, as in TaskStep.
LEMMA HonestStep ==
  ASSUME TypeOK, HonestInv, NEW c \in Call, NEW e \in AmiEvent, NEW t \in Task,
         Becomes(c, e, t), t.at # "none", TaskHonest(task, c, e, t),
         task[c, e].at # "none" => t.in = task[c, e].in,
         \A d \in Call : marker'[d] = marker[d] \/ Honest(task, d, marker'[d]),
         \A s \in sent' : \/ s \in sent
                          \/ s.call = c /\ s.by = e /\ Reported(task, s)
  PROVE  HonestInv'
<1>1. \A d \in Call, f \in AmiEvent : d # c \/ f # e => task'[d, f] = task[d, f]
  BY DEF Becomes, TypeOK
<1>2. task'[c, e] = t
  BY OneTask, ZenonT(40)
<1>3. Remember(task, task')
  BY <1>1, <1>2 DEF Remember
<1>4. /\ \A d \in Call : \A m : Honest(task, d, m) => Honest(task', d, m)
      /\ \A d \in Call : \A f, u : TaskHonest(task, d, f, u) => TaskHonest(task', d, f, u)
      /\ \A s : s.call \in Call /\ s.by \in AmiEvent /\ Reported(task, s) =>
           Reported(task', s)
  BY <1>3, StaysHonest
<1>5. \A d \in Call : Honest(task', d, marker'[d])
  BY <1>4 DEF HonestInv
<1>6. \A d \in Call, f \in AmiEvent : TaskHonest(task', d, f, task'[d, f])
  <2> TAKE d \in Call, f \in AmiEvent
  <2>1. TaskHonest(task, d, f, task[d, f])
    BY DEF HonestInv
  <2>2. CASE d = c /\ f = e
    BY <1>2, <1>4, <2>2
  <2>3. CASE d # c \/ f # e
    BY <1>1, <1>4, <2>1, <2>3
  <2> QED
    BY <2>2, <2>3
<1>7. \A s \in sent' : Reported(task', s)
  <2> TAKE s \in sent'
  <2>1. CASE s \in sent
    <3>1. s.call \in Call /\ s.by \in AmiEvent
      BY <2>1 DEF TypeOK
    <3>2. Reported(task, s)
      BY <2>1 DEF HonestInv
    <3> QED
      BY <1>4, <3>1, <3>2
  <2>2. CASE s \notin sent
    BY <1>4, <2>2
  <2> QED
    BY <2>1, <2>2
<1> QED
  BY <1>5, <1>6, <1>7 DEF HonestInv

LEMMA NoMarkerHonest == \A T, c : Honest(T, c, NoMarker)
BY DEF Honest, NoMarker

\* What a handler writes is honest if what it read was.
LEMMA WrittenHonest ==
  ASSUME NEW c \in Call, NEW e \in AmiEvent, NEW t \in Task, task[c, e] = t,
         TaskHonest(task, c, e, t), t.at = "set"
  PROVE  Honest(task, c, Written(t))
<1>1. t.copy \in Marker /\ t.op \in Op /\ t.in \in Input
  BY DEF Task
<1>2. Honest(task, c, t.copy)
  BY DEF TaskHonest
<1>3. CASE t.op \in Announce
  <2>1. /\ Written(t).answered = t.copy.answered
        /\ Written(t).member = t.copy.member
        /\ Written(t).missed = t.copy.missed
    BY <1>1, <1>3 DEF Written, Announce, Marker
  <2> QED
    BY <1>2, <2>1 DEF Honest
<1>4. CASE t.op = "missed"
  <2>1. /\ Written(t).answered = t.copy.answered
        /\ Written(t).member = t.copy.member
    BY <1>1, <1>4 DEF Written, Marker
  <2>2. Left(task, c)
    BY <1>4, EventsApart DEF TaskHonest, Left
  <2> QED
    BY <1>2, <2>1, <2>2 DEF Honest
<1>5. CASE t.op = "answered"
  <2>1. Written(t).missed = t.copy.missed
    BY <1>1, <1>5 DEF Written, Marker
  <2>2. Answered(task, c)
    BY <1>5, EventsApart DEF TaskHonest, Answered
  <2> QED
    BY <1>2, <2>1, <2>2 DEF Honest
<1>6. CASE t.op = "dial"
  <2>1. /\ Written(t).answered => t.copy.answered \/ t.in.answer
        /\ Written(t).member = t.copy.member
        /\ Written(t).missed = t.copy.missed
    BY <1>1, <1>6 DEF Written, Announce, Marker
  <2>2. t.in.answer => Answered(task, c)
    BY <1>6, EventsApart DEF TaskHonest, Answered
  <2> QED
    BY <1>2, <2>1, <2>2 DEF Honest
<1>7. t.op # "hangup"
  BY DEF TaskHonest
<1> QED
  BY <1>1, <1>3, <1>4, <1>5, <1>6, <1>7 DEF Op, Announce

LEMMA ArriveHonest ==
  ASSUME TypeOK, HonestInv, NEW c \in Call, NEW e \in AmiEvent, NEW in \in Input,
         Arrive(c, e, in)
  PROVE  HonestInv'
<1> DEFINE u == Arrived(c, e, in)
<1>1. /\ u \in Task /\ u.at \in {"done", "get", "match"} /\ u.op = task[c, e].op
      /\ u.in = in /\ u.copy = task[c, e].copy
  BY ArrivedTyped
<1>2. Becomes(c, e, u) /\ task[c, e].at = "none"
  BY DEF Arrive, Arrived
<1>3. TaskHonest(task, c, e, task[c, e])
  BY DEF HonestInv
<1> HIDE DEF u
<1>4. TaskHonest(task, c, e, u)
  BY <1>1, <1>3 DEF TaskHonest
<1>5. sent' = sent /\ marker' = marker
  BY DEF Arrive
<1> QED
  BY <1>1, <1>2, <1>4, <1>5, HonestStep

\* A task that stops, or goes on to its second announcement.
LEMMA IdleHonest ==
  ASSUME NEW c, NEW e, NEW t \in Task, TaskHonest(task, c, e, t)
  PROVE  /\ TaskHonest(task, c, e, Done(t))
         /\ TaskHonest(task, c, e, Finish(e, t))
<1>1. TaskHonest(task, c, e, Done(t))
  BY DoneTyped, NoMarkerHonest DEF TaskHonest
<1>2. TaskHonest(task, c, e, Finish(e, t))
  BY FinishTyped, NoMarkerHonest DEF TaskHonest
<1> QED
  BY <1>1, <1>2

LEMMA MatchHonest ==
  ASSUME TypeOK, HonestInv, NEW c \in Call, NEW e \in AmiEvent, Match(c, e)
  PROVE  HonestInv'
<1>1. Asked(c, e) \in Task
  BY MatchTyped
<1>2. Becomes(c, e, Done(task[c, e])) \/ Becomes(c, e, Asked(c, e))
  BY MatchTyped
<1>3. task[c, e] \in Task /\ TaskHonest(task, c, e, task[c, e])
  BY TaskTyped DEF HonestInv
<1>4. /\ Asked(c, e).at = "get" /\ Asked(c, e).copy = task[c, e].copy
      /\ Asked(c, e).in = task[c, e].in /\ Asked(c, e).op = MatchOp(c, e)
  BY <1>3 DEF Asked, Task
<1>5. \/ MatchOp(c, e) = task[c, e].op
      \/ e = "Newchannel" /\ MatchOp(c, e) = "outgoing"
  BY DEF MatchOp, AfterIncoming
<1>6. TaskHonest(task, c, e, Asked(c, e))
  BY <1>3, <1>4, <1>5 DEF TaskHonest
<1>7. /\ Done(task[c, e]) \in Task /\ Done(task[c, e]).at = "done"
      /\ Done(task[c, e]).in = task[c, e].in
  BY <1>3, DoneTyped
<1>8. TaskHonest(task, c, e, Done(task[c, e]))
  BY <1>3, IdleHonest
<1>9. sent' = sent /\ marker' = marker
  BY DEF Match
<1> QED
  BY <1>1, <1>2, <1>4, <1>6, <1>7, <1>8, <1>9, HonestStep

LEMMA GetHonest ==
  ASSUME TypeOK, HonestInv, NEW c \in Call, NEW e \in AmiEvent, Get(c, e)
  PROVE  HonestInv'
<1>1. PICK m \in Marker : /\ Becomes(c, e, WithCopy(task[c, e], m))
                          /\ Honest(task, c, m)
  BY NoMarkerHonest, NothingTyped DEF Get, TypeOK, HonestInv
<1> DEFINE t == task[c, e]
           u == WithCopy(t, m)
<1>2. /\ u \in Task /\ u.op = t.op /\ u.in = t.in /\ u.copy \in {m, NoMarker}
      /\ u.at \in {"done", "set", "del", "fire"}
      /\ u.at = "set" => t.op = "dial"
      /\ u.at = "del" => t.op = "hangup"
      /\ u.at = "fire" => t.op \notin {"dial", "hangup"}
  BY TaskTyped, CopyTyped
<1>3. TaskHonest(task, c, e, t)
  BY DEF HonestInv
<1>4. sent' = sent /\ marker' = marker
  BY DEF Get
<1> HIDE DEF t, u
<1>5. TaskHonest(task, c, e, u)
  BY <1>1, <1>2, <1>3, NoMarkerHonest DEF TaskHonest
<1> QED
  BY <1>1, <1>2, <1>4, <1>5, HonestStep DEF t, u

LEMMA FireHonest ==
  ASSUME TypeOK, HonestInv, NEW c \in Call, NEW e \in AmiEvent, Fire(c, e)
  PROVE  HonestInv'
<1> DEFINE t == task[c, e]
           u == [t EXCEPT !.at = "set"]
           fin == Finish(e, t)
<1>1. t \in Task /\ TaskHonest(task, c, e, t) /\ t.at = "fire"
  BY TaskTyped DEF HonestInv, Fire
<1>2. /\ u \in Task /\ u.at = "set" /\ u.op = t.op /\ u.in = t.in /\ u.copy = t.copy
      /\ \/ /\ Becomes(c, e, u)
            /\ t.op \in Announce \/ t.op \in {"missed", "answered"}
         \/ Becomes(c, e, fin)
  BY FireTyped
<1>3. fin \in Task /\ fin.at \in {"match", "done"} /\ fin.in = t.in
  BY <1>1, FinishTyped
<1>4. TaskHonest(task, c, e, fin)
  BY <1>1, IdleHonest
<1>5. \A s \in sent' : \/ s \in sent
                       \/ s.call = c /\ s.by = e /\ Reported(task, s)
  <2> DEFINE ans == t.op = "hangup" /\ (t.copy.answered \/ t.copy.member)
             mis == t.op = "hangup" /\ t.copy.missed
             r(w) == [call |-> c, by |-> e, to |-> w, event |-> Event(t),
                      answered |-> ans, missed |-> mis]
  <2>1. sent' = sent \cup {r(w) : w \in Targets(t)}
    BY DEF Fire
  <2>2. ans => Answered(task, c)
    BY <1>1 DEF TaskHonest, Honest
  <2>3. mis => Left(task, c)
    BY <1>1 DEF TaskHonest, Honest
  <2>4. Event(t) = "outgoing_answered" => t.op = "dial"
    BY <1>1 DEF Event, Task, Op
  <2>5. Event(t) = "outgoing_answered" => task[c, e].in.answer
    BY <1>1, <2>4 DEF TaskHonest
  <2> HIDE DEF ans, mis, t
  <2>6. \A w : /\ r(w).call = c /\ r(w).by = e /\ r(w).event = Event(t)
               /\ r(w).answered = ans /\ r(w).missed = mis
    OBVIOUS
  <2> HIDE DEF r
  <2>7. \A w : Reported(task, r(w))
    BY <2>2, <2>3, <2>5, <2>6 DEF Reported
  <2> QED
    BY <2>1, <2>6, <2>7
<1>6. marker' = marker
  BY DEF Fire
<1>7. TaskHonest(task, c, e, u) \/ ~Becomes(c, e, u)
      \/ t.op \notin Announce \cup {"missed", "answered"}
  BY <1>1, <1>2 DEF TaskHonest, Announce
<1>8. CASE Becomes(c, e, u) /\ (t.op \in Announce \/ t.op \in {"missed", "answered"})
  BY <1>2, <1>5, <1>6, <1>7, <1>8, HonestStep
<1>9. CASE Becomes(c, e, fin)
  BY <1>3, <1>4, <1>5, <1>6, <1>9, HonestStep
<1> QED
  BY <1>2, <1>8, <1>9

LEMMA StoreHonest ==
  ASSUME TypeOK, HonestInv, NEW c \in Call, NEW e \in AmiEvent, Set(c, e) \/ Del(c, e)
  PROVE  HonestInv'
<1> DEFINE t == task[c, e]
           u == [t EXCEPT !.at = "fire"]
           fin == Finish(e, t)
<1>1. /\ u \in Task /\ u.at = "fire" /\ u.op = t.op /\ u.in = t.in /\ u.copy = t.copy
      /\ Set(c, e) => \/ Becomes(c, e, u) /\ t.op = "dial" /\ t.in.answer
                      \/ Becomes(c, e, fin)
      /\ Del(c, e) => Becomes(c, e, u)
  BY SetTyped
<1>2. t \in Task /\ TaskHonest(task, c, e, t)
  BY TaskTyped DEF HonestInv
<1>3. fin \in Task /\ fin.at \in {"match", "done"} /\ fin.in = t.in
  BY <1>2, FinishTyped
<1>4. sent' = sent
  BY DEF Set, Del
<1>5. \A d \in Call : marker'[d] = marker[d] \/ Honest(task, d, marker'[d])
  <2>1. CASE Set(c, e)
    <3>1. Written(t) \in Marker /\ Honest(task, c, Written(t))
      BY <1>2, <2>1, WrittenTyped, WrittenHonest DEF Set
    <3>2. Store(c, Written(t))
      BY <2>1 DEF Set
    <3> HIDE DEF t
    <3> QED
      BY <3>1, <3>2, StoreTyped
  <2>2. CASE Del(c, e)
    BY <2>2, NothingTyped, NoMarkerHonest, StoreTyped, ZenonT(40) DEF Del
  <2> QED
    BY <2>1, <2>2
<1>6. Del(c, e) => t.at = "del"
  BY DEF Del
<1>7. TaskHonest(task, c, e, fin)
  BY <1>2, IdleHonest
<1> HIDE DEF t, u, fin
<1>8. CASE Becomes(c, e, fin)
  BY <1>3, <1>4, <1>5, <1>7, <1>8, HonestStep DEF t
<1>9. CASE Becomes(c, e, u) /\ (t.in.answer \/ t.op = "hangup")
  <2>1. TaskHonest(task, c, e, u)
    BY <1>1, <1>2, <1>9 DEF TaskHonest
  <2> QED
    BY <1>1, <1>4, <1>5, <1>9, <2>1, HonestStep DEF t
<1> QED
  BY <1>1, <1>2, <1>6, <1>8, <1>9 DEF TaskHonest

LEMMA NextHonest == TypeOK /\ HonestInv /\ [Next]_vars => HonestInv'
<1> SUFFICES ASSUME TypeOK, HonestInv, [Next]_vars
             PROVE  HonestInv'
  OBVIOUS
<1>1. ASSUME UNCHANGED <<marker, task, sent>> PROVE HonestInv'
  <2>1. sent' = sent /\ marker' = marker /\ task' = task
    BY <1>1
  <2> QED
    BY <2>1 DEF HonestInv
<1>2. ASSUME NEW c \in Call, Asterisk(c) PROVE HonestInv'
  <2>1. \/ UNCHANGED <<marker, task, sent>>
        \/ \E e \in AmiEvent, in \in Input : Arrive(c, e, in)
    BY <1>2, AsteriskArrives
  <2> QED
    BY <1>1, <2>1, ArriveHonest
<1>3. ASSUME NEW c \in Call, NEW e \in AmiEvent, Step(c, e) PROVE HonestInv'
  BY <1>3, MatchHonest, GetHonest, FireHonest, StoreHonest DEF Step
<1>4. ASSUME NEW c \in Call, Expire(c) PROVE HonestInv'
  <2>1. \A d \in Call : marker'[d] \in {marker[d], NoMarker}
    BY <1>4 DEF Expire, TypeOK
  <2>2. sent' = sent /\ task' = task
    BY <1>4 DEF Expire
  <2> QED
    BY <2>1, <2>2, NoMarkerHonest DEF HonestInv
<1>5. CASE Stop
  <2>1. sent' = sent /\ marker' = marker
    BY <1>5 DEF Stop
  <2>2. \A d \in Call, f \in AmiEvent :
          task'[d, f] = IF task[d, f].at = "none" THEN task[d, f] ELSE Done(task[d, f])
    BY <1>5 DEF Stop
  <2>3. \A d \in Call, f \in AmiEvent :
          /\ Done(task[d, f]).at = "done" /\ Done(task[d, f]).in = task[d, f].in
          /\ TaskHonest(task, d, f, Done(task[d, f]))
    BY TaskTyped, DoneTyped, IdleHonest DEF HonestInv
  <2>4. Remember(task, task')
    BY <2>2, <2>3 DEF Remember
  <2>5. /\ \A c \in Call : \A m : Honest(task, c, m) => Honest(task', c, m)
        /\ \A c \in Call : \A e, t : TaskHonest(task, c, e, t) => TaskHonest(task', c, e, t)
        /\ \A s : s.call \in Call /\ s.by \in AmiEvent /\ Reported(task, s) =>
             Reported(task', s)
    BY <2>4, StaysHonest
  <2>6. \A s \in sent : s.call \in Call /\ s.by \in AmiEvent
    BY DEF TypeOK
  <2>7. \A d \in Call, f \in AmiEvent : TaskHonest(task', d, f, task'[d, f])
    BY <2>2, <2>3, <2>5 DEF HonestInv
  <2> QED
    BY <2>1, <2>5, <2>6, <2>7 DEF HonestInv
<1> QED
  BY <1>1, <1>2, <1>3, <1>4, <1>5 DEF Next, vars, load_config, Disconnect, Connect

LEMMA InitHonest == Init => HonestInv
<1> SUFFICES ASSUME Init PROVE HonestInv
  OBVIOUS
<1>1. \A c \in Call, e \in AmiEvent : TaskHonest(task, c, e, task[c, e])
  <2> TAKE c \in Call, e \in AmiEvent
  <2>1. /\ task[c, e].at = "none" /\ task[c, e].op = Handler(e)
        /\ task[c, e].in = NoInput /\ task[c, e].copy = NoMarker
    BY InitTask
  <2>2. ~NoInput.answer
    BY DEF NoInput
  <2> QED
    BY <2>1, <2>2, NoMarkerHonest DEF TaskHonest
<1> QED
  BY <1>1, NoMarkerHonest DEF Init, HonestInv

\* An end event reports an answer or a miss only if there was one, whatever
\* overlaps, fails or is reconfigured.
THEOREM EndReportsTruth == Spec => []ReportsTruth
<1>1. Init => TypeOK /\ HonestInv
  BY InitType, InitHonest
<1>2. TypeOK /\ HonestInv /\ [Next]_vars => (TypeOK /\ HonestInv)'
  BY NextType, NextHonest
<1>3. HonestInv => ReportsTruth
  BY DEF HonestInv, ReportsTruth, Reported, Answered, Left
<1> QED
  BY <1>1, <1>2, <1>3, PTL DEF Spec

-----------------------------------------------------------------------------
(* Nothing is told twice, and what began ends. *)

\* The method of a handler decides what it sends; only an end event reports.
Sends(op) == CASE op = "incoming" -> Announce
               [] op = "dial" -> {"outgoing_answered"}
               [] op = "hangup" -> {"ended", "outgoing_ended"}
               [] OTHER -> {op}
MadeInv ==
  \A s \in sent : /\ s.event \in Sends(Handler(s.by))
                  /\ s.by # "Hangup" => ~s.answered /\ ~s.missed

\* Which events have come tells where the call is.
Before(c, e) == task[c, e].at = "none"
Ordered(c) ==
  /\ chan[c] = "idle" => /\ \A e \in AmiEvent : Before(c, e)
                         /\ \A s \in sent : s.call # c
  /\ chan[c] # "idle" => ~Before(c, "Newchannel")
  /\ ~Before(c, "QueueCallerJoin") => chan[c] \notin {"idle", "up"}
  /\ chan[c] \in {"queued", "left"} => ~Before(c, "QueueCallerJoin")
  /\ ~Before(c, "QueueCallerAbandon") \/ ~Before(c, "AgentConnect") =>
       ~Before(c, "QueueCallerJoin") /\ chan[c] \notin {"idle", "up", "queued"}
  /\ ~Before(c, "Hangup") => chan[c] = "gone" /\ task[c, "Hangup"].at # "match"
OrderInv == \A c \in Call : Ordered(c)

\* The marker is gone; nobody will announce the call any more; the announcement
\* of w is still to be written; the handler of l sends the first answer, or has.
Past(c) == task[c, "Hangup"].at \in {"fire", "done"}
Announced(c) ==
  task[c, "Newchannel"].at = "done" /\ task[c, "QueueCallerJoin"].at = "done"
Pending(c, w) == \E e \in AmiEvent : /\ task[c, e].at = "set"
                                     /\ task[c, e].op \in Announce
                                     /\ w \in task[c, e].matched
First(c, l) == \/ task[c, l].at = "fire"
               \/ \E s \in sent : s.call = c /\ s.by = l
Of(c, names) == {s \in sent : s.call = c /\ s.event \in names}
Endings == {"ended", "outgoing_ended"}

\* One handler at a time is between its read and its write.
OneHolder(c) == \A d, e \in AmiEvent :
  Holding(task[c, d]) /\ Holding(task[c, e]) => d = e
FreshCopy(c) == \A e \in AmiEvent : Holding(task[c, e]) => task[c, e].copy = marker[c]
Wrote(c) == \A e \in AmiEvent :
  \/ task[c, e].at = "set" /\ task[c, e].op \notin Announce
  \/ task[c, e].op = "hangup" /\ task[c, e].at \in {"del", "fire"}
  => task[c, e].copy # NoMarker

\* A handler that has read finds those of the earlier events at rest.
Quiet(c, e) == ~Holding(task[c, e]) /\ task[c, e].at \notin {"match", "get"}
InTurn(c) ==
  /\ \/ task[c, "QueueCallerAbandon"].at \in {"fire", "set"}
     \/ task[c, "AgentConnect"].at \in {"fire", "set"}
     => Announced(c)
  /\ task[c, "Hangup"].at \in {"del", "fire", "done"} =>
       \A e \in AmiEvent \ {"Hangup"} : Quiet(c, e)

\* What the marker knows of what was sent.
Listed(c) == ~Past(c) =>
  \A s \in Of(c, Announce) : s.to \in marker[c].webhooks \/ Pending(c, s.to)
ToldOnce(c) == \A r, s \in Of(c, Announce) : r.to = s.to => r = s
OneFirst(c) ==
  /\ \A k, l \in Leg : First(c, k) /\ First(c, l) => k = l
  /\ \A l \in Leg : First(c, l) => Past(c) \/ marker[c].answered
Noted(c) ==
  /\ Of(c, {"answered"}) # {} =>
       /\ Announced(c)
       /\ \/ Past(c) \/ marker[c] = NoMarker \/ marker[c].member
          \/ task[c, "AgentConnect"].at = "set"
  /\ Of(c, {"missed"}) # {} =>
       /\ Announced(c)
       /\ \/ Past(c) \/ marker[c] = NoMarker \/ marker[c].missed
          \/ task[c, "QueueCallerAbandon"].at = "set"

\* A report of the whole call agrees with what was sent or is about to be; who
\* was told of the call is told of its end; there is one kind of end, sent last.
Reports(c, answered, missed) ==
  /\ Of(c, {"answered"}) # {} \/ (\E l \in Leg : First(c, l)) => answered
  /\ Of(c, {"missed"}) # {} => missed
EndTold(c) ==
  \A w \in DOMAIN config.hooks :
    /\ In(sent, c, w, Announce)
    /\ \A v \in Webhook :
         /\ In(sent, c, v, {"incoming"}) => "ended" \in config.hooks[w].events
         /\ In(sent, c, v, {"outgoing"}) => "outgoing_ended" \in config.hooks[w].events
    => In(sent, c, w, Endings)
EndsOnce(c) ==
  LET t == task[c, "Hangup"] IN
  /\ Of(c, Endings) # {} => t.at = "done"
  /\ \A r, s \in Of(c, Endings) : r.answered = s.answered /\ r.missed = s.missed
  /\ \A s \in Of(c, Endings) : Reports(c, s.answered, s.missed)
  /\ t.at = "fire" =>
       /\ Reports(c, t.copy.answered \/ t.copy.member, t.copy.missed)
       /\ \A s \in Of(c, Announce) : s.to \in t.copy.webhooks
  /\ t.at = "done" => EndTold(c)

\* A call whose handlers took turns, and whose commands succeeded.
Tidy(c) ==
  /\ OneHolder(c) /\ FreshCopy(c) /\ Wrote(c) /\ InTurn(c)
  /\ Listed(c) /\ ToldOnce(c) /\ OneFirst(c) /\ Noted(c) /\ EndsOnce(c)
TidyInv == \A c \in Call \ disturbed : Tidy(c)

\* The method of a handler tells its event.
LEMMA OpTells ==
  \A T, c : \A e \in AmiEvent, t \in Task : TaskHonest(T, c, e, t) =>
    /\ t.op \in Announce <=> e \in {"Newchannel", "QueueCallerJoin"}
    /\ t.op = "missed" <=> e = "QueueCallerAbandon"
    /\ t.op = "answered" <=> e = "AgentConnect"
    /\ t.op = "hangup" <=> e = "Hangup"
    /\ t.op = "dial" <=> e \in Leg
<1> TAKE T, c
<1> TAKE e \in AmiEvent, t \in Task
<1> HAVE TaskHonest(T, c, e, t)
<1>1. t.op = Handler(e) \/ (e = "Newchannel" /\ t.op = "outgoing")
  BY DEF TaskHonest
<1> QED
  BY <1>1, WebhookAssumption DEF Handler, AmiEvent, Announce

\* Only the handler of Newchannel goes on after an announcement.
LEMMA FinishedTask ==
  ASSUME NEW t \in Task, NEW e, e # "Newchannel"
  PROVE  Finish(e, t).at = "done"
BY DoneTyped DEF Finish, AfterIncoming

\* The records of sent are told apart by their fields.
LEMMA SameRecord ==
  ASSUME TypeOK, NEW r \in sent, NEW s \in sent,
         r.call = s.call, r.by = s.by, r.to = s.to, r.event = s.event,
         r.answered = s.answered, r.missed = s.missed
  PROVE  r = s
<1>1. \A x \in sent : x = [call |-> x.call, by |-> x.by, to |-> x.to, event |-> x.event,
                          answered |-> x.answered, missed |-> x.missed]
  BY DEF TypeOK
<1> QED
  BY <1>1

\* What the records of a task report.
SaysAnswered(t) == t.op = "hangup" /\ (t.copy.answered \/ t.copy.member)
SaysMissed(t) == t.op = "hangup" /\ t.copy.missed

\* What firing does: it adds a record of the task for each of its targets.
Fired(c, e, t) ==
  /\ sent \subseteq sent'
  /\ \A s \in sent' \ sent :
       /\ s.call = c /\ s.by = e /\ s.to \in Targets(t) /\ s.event = Event(t)
       /\ s.answered = SaysAnswered(t) /\ s.missed = SaysMissed(t)
  /\ \A w \in Targets(t) :
       \E s \in sent' : s.call = c /\ s.to = w /\ s.event = Event(t)

LEMMA FireDoes ==
  ASSUME NEW c \in Call, NEW e \in AmiEvent, NEW t \in Task, task[c, e] = t,
         Fire(c, e)
  PROVE  Fired(c, e, t)
<1> DEFINE ev == Event(t)
           r(w) == [call |-> c, by |-> e, to |-> w, event |-> ev,
                    answered |-> SaysAnswered(t), missed |-> SaysMissed(t)]
           T == Targets(t)
<1>1. sent' = sent \cup {r(w) : w \in T}
  BY DEF Fire, SaysAnswered, SaysMissed
<1> HIDE DEF T, ev
<1>3. \A w : /\ r(w).call = c /\ r(w).by = e /\ r(w).to = w /\ r(w).event = ev
             /\ r(w).answered = SaysAnswered(t) /\ r(w).missed = SaysMissed(t)
  OBVIOUS
<1> HIDE DEF r
<1>4. \A s \in sent' : s \notin sent => \E w \in T : s = r(w)
  BY <1>1
<1>5. \A w \in T : r(w) \in sent'
  BY <1>1
<1>6. sent \subseteq sent'
  BY <1>1
<1>7. \A s \in sent' : s \notin sent =>
        /\ s.call = c /\ s.by = e /\ s.to \in T /\ s.event = ev
        /\ s.answered = SaysAnswered(t) /\ s.missed = SaysMissed(t)
  <2> SUFFICES ASSUME NEW s \in sent', s \notin sent
               PROVE  /\ s.call = c /\ s.by = e /\ s.to \in T /\ s.event = ev
                      /\ s.answered = SaysAnswered(t) /\ s.missed = SaysMissed(t)
    OBVIOUS
  <2>1. PICK w \in T : s = r(w)
    BY <1>4
  <2> QED
    BY <1>3, <2>1
<1>8. \A w \in T : \E s \in sent' : s.call = c /\ s.to = w /\ s.event = ev
  BY <1>3, <1>5
<1> QED
  BY <1>6, <1>7, <1>8 DEF T, ev, Fired

\* What a handler fires is among what its event may send.
LEMMA OneEvent ==
  ASSUME NEW T, NEW c, NEW e \in AmiEvent, NEW t \in Task, TaskHonest(T, c, e, t)
  PROVE  Event(t) \in Sends(Handler(e))
<1>1. t.op = Handler(e) \/ (e = "Newchannel" /\ t.op = "outgoing")
  BY DEF TaskHonest
<1> QED
  BY <1>1 DEF Event, Sends, Handler, Announce

\* Every step keeps MadeInv: only firing adds to what was sent.
LEMMA NextMade == TypeOK /\ HonestInv /\ MadeInv /\ [Next]_vars => MadeInv'
<1> SUFFICES ASSUME TypeOK, HonestInv, MadeInv, [Next]_vars
             PROVE  MadeInv'
  OBVIOUS
<1>1. CASE sent' = sent
  BY <1>1 DEF MadeInv
<1>2. ASSUME NEW c \in Call, NEW e \in AmiEvent, Fire(c, e) PROVE MadeInv'
  <2>t. task[c, e] \in Task
    BY TaskTyped
  <2>1. PICK t \in Task : task[c, e] = t
    BY <2>t
  <2>2. TaskHonest(task, c, e, t)
    BY <2>1 DEF HonestInv
  <2>3. /\ Event(t) \in Sends(Handler(e))
        /\ e # "Hangup" => t.op # "hangup"
    BY <2>2, OneEvent, OpTells
  <2>4. \A s \in sent' : s \notin sent =>
          /\ s.by = e /\ s.event = Event(t)
          /\ s.answered = SaysAnswered(t) /\ s.missed = SaysMissed(t)
    <3>1. Fired(c, e, t)
      BY <1>2, <2>1, FireDoes
    <3> QED
      BY <3>1 DEF Fired
  <2>5. e # "Hangup" => ~SaysAnswered(t) /\ ~SaysMissed(t)
    BY <2>3 DEF SaysAnswered, SaysMissed
  <2> QED
    BY <2>3, <2>4, <2>5 DEF MadeInv
<1>3. sent' = sent \/ \E c \in Call, e \in AmiEvent : Fire(c, e)
  <2>1. ASSUME NEW c \in Call, Asterisk(c) PROVE sent' = sent
    BY <2>1, AsteriskArrives DEF Arrive
  <2> QED
    BY <2>1, ZenonT(40) DEF Next, vars, Expire, Step, Match, Get, Set, Del, load_config,
                Disconnect, Stop, Connect
<1> QED
  BY <1>1, <1>2, <1>3

\* What the arrival of an event does to the tasks.
Came(c, e) ==
  /\ task[c, e].at = "none"
  /\ task'[c, e].at \in {"done", "get", "match"}
  /\ e = "Hangup" => task'[c, e].at # "match"
  /\ task'[c, e].at = "done" => c \in disturbed'
  /\ \A d \in Call, f \in AmiEvent : d # c \/ f # e => task'[d, f] = task[d, f]
  /\ sent' = sent /\ marker' = marker /\ config' = config
  /\ disturbed \subseteq disturbed'

\* Arrive, seen through what the other lemmas need of it.
LEMMA ArriveCame ==
  ASSUME TypeOK, NEW c \in Call, NEW e \in AmiEvent, \E in : Arrive(c, e, in)
  PROVE  Came(c, e)
<1>1. PICK in : Arrive(c, e, in)
  OBVIOUS
<1> DEFINE at == IF listener # "on" THEN "done"
                 ELSE IF e = "Hangup" THEN "get" ELSE "match"
<1>2. task' = [task EXCEPT ![<<c, e>>] = [task[c, e] EXCEPT !.at = at, !.in = in]]
  BY <1>1 DEF Arrive, Becomes
<1>3. /\ at \in {"done", "get", "match"}
      /\ e = "Hangup" => at # "match"
      /\ at = "done" => listener # "on"
  OBVIOUS
<1>4. listener # "on" => c \in disturbed'
  BY <1>1 DEF Arrive
<1> HIDE DEF at
<1>5. task[c, e] \in Task
  BY TaskTyped
<1>6. [task[c, e] EXCEPT !.at = at, !.in = in].at = at
  BY <1>5 DEF Task
<1>7. task'[c, e].at = at
  BY <1>2, <1>6 DEF TypeOK
<1>8. \A d \in Call, f \in AmiEvent : d # c \/ f # e => task'[d, f] = task[d, f]
  BY <1>2 DEF TypeOK
<1>9. /\ task[c, e].at = "none" /\ sent' = sent /\ marker' = marker
      /\ config' = config /\ disturbed \subseteq disturbed'
  BY <1>1 DEF Arrive
<1> QED
  BY <1>3, <1>4, <1>7, <1>8, <1>9 DEF Came

\* The call moves, and an event of it comes.
Goes(c, e, from, to) ==
  /\ Came(c, e)
  /\ chan[c] \in from /\ chan'[c] = to

\* Each event moves its call; nothing else does but the queue's timeout.
LEMMA AsteriskDoes ==
  ASSUME TypeOK, NEW c \in Call, Asterisk(c)
  PROVE  /\ \A d \in Call : d # c => chan'[d] = chan[d]
         /\ \/ /\ UNCHANGED <<config, marker, task, sent, disturbed>>
               /\ chan[c] = "queued" /\ chan'[c] = "past"
            \/ Goes(c, "Newchannel", {"idle"}, "up")
            \/ Goes(c, "QueueCallerJoin", {"up"}, "queued")
            \/ Goes(c, "QueueCallerAbandon", {"queued"}, "left")
            \/ Goes(c, "AgentConnect", {"queued"}, "past")
            \/ Goes(c, "Hangup", {"up", "past", "left"}, "gone")
            \/ \E l \in Leg : Goes(c, l, {"up", "queued", "past"}, chan[c])
<1>1. \A from, to : Move(c, from, to) =>
        /\ chan[c] \in from /\ chan'[c] = to
        /\ \A d \in Call : d # c => chan'[d] = chan[d]
  BY DEF Move, TypeOK
<1>2. CASE Newchannel(c)
  <2>1. \E in : Arrive(c, "Newchannel", in)
    BY <1>2 DEF Newchannel
  <2> QED
    BY <1>1, <1>2, <2>1, ArriveCame, EventsApart DEF Newchannel, Goes
<1>3. CASE QueueCallerJoin(c)
  <2>1. \E in : Arrive(c, "QueueCallerJoin", in)
    BY <1>3 DEF QueueCallerJoin
  <2> QED
    BY <1>1, <1>3, <2>1, ArriveCame, EventsApart DEF QueueCallerJoin, Goes
<1>4. CASE QueueCallerAbandon(c)
  <2>1. \E in : Arrive(c, "QueueCallerAbandon", in)
    BY <1>4 DEF QueueCallerAbandon
  <2> QED
    BY <1>1, <1>4, <2>1, ArriveCame, EventsApart DEF QueueCallerAbandon, Goes
<1>5. CASE AgentConnect(c)
  <2>1. \E in : Arrive(c, "AgentConnect", in)
    BY <1>5 DEF AgentConnect
  <2> QED
    BY <1>1, <1>5, <2>1, ArriveCame, EventsApart DEF AgentConnect, Goes
<1>6. CASE QueueTimeout(c)
  BY <1>1, <1>6 DEF QueueTimeout
<1>7. CASE Hangup(c)
  <2>1. \E in : Arrive(c, "Hangup", in)
    BY <1>7 DEF Hangup
  <2> QED
    BY <1>1, <1>7, <2>1, ArriveCame, EventsApart DEF Hangup, Goes
<1>8. ASSUME NEW l \in Leg, DialEnd(c, l)
      PROVE  Goes(c, l, {"up", "queued", "past"}, chan[c]) /\ chan' = chan
  <2>1. \E in : Arrive(c, l, in)
    BY <1>8 DEF DialEnd
  <2>2. Came(c, l)
    BY <2>1, ArriveCame, EventsApart
  <2> QED
    BY <1>8, <2>2 DEF DialEnd, Goes
<1> QED
  BY <1>2, <1>3, <1>4, <1>5, <1>6, <1>7, <1>8 DEF Asterisk

\* What a step of a handler does to the tasks.
Stepped(c, e) ==
  /\ task[c, e].at \notin {"none", "done"} /\ task'[c, e].at # "none"
  /\ e = "Hangup" /\ task[c, e].at # "match" => task'[c, e].at # "match"
  /\ \A d \in Call, f \in AmiEvent : d # c \/ f # e => task'[d, f] = task[d, f]
  /\ \A d \in Call : d # c => marker'[d] = marker[d]
  /\ \A s \in sent' : s \in sent \/ s.call = c
  /\ sent \subseteq sent'
  /\ chan' = chan /\ config' = config
  /\ disturbed \subseteq disturbed'

\* Whatever step a handler takes, its effect is confined to its call.
LEMMA StepDoes ==
  ASSUME TypeOK, HonestInv, NEW c \in Call, NEW e \in AmiEvent, Step(c, e)
  PROVE  Stepped(c, e)
<1>t. task[c, e] \in Task
  BY TaskTyped
<1>1. PICK t \in Task : task[c, e] = t
  BY <1>t
<1>2. /\ TaskHonest(task, c, e, t)
      /\ t.op = "hangup" <=> e = "Hangup"
  BY <1>1, OpTells, ZenonT(40) DEF HonestInv
<1>3. e = "Hangup" => Finish(e, t).at = "done"
  BY FinishedTask
<1>4. CASE Match(c, e)
  <2>1. Becomes(c, e, Done(t)) \/ Becomes(c, e, Asked(c, e))
    BY <1>1, <1>4, MatchTyped
  <2>2. Done(t) \in Task /\ Done(t).at = "done"
    BY DoneTyped
  <2>3. Asked(c, e) \in Task /\ Asked(c, e).at = "get"
    <3>1. Asked(c, e) \in Task
      BY <1>4, MatchTyped
    <3> QED
      BY <1>t, <3>1 DEF Asked, Task
  <2>4. /\ task'[c, e].at \in {"done", "get"}
        /\ \A d \in Call, f \in AmiEvent : d # c \/ f # e => task'[d, f] = task[d, f]
    BY <2>1, <2>2, <2>3, OneTask, ZenonT(40)
  <2> QED
    BY <1>4, <2>4 DEF Stepped, Match
<1>5. CASE Get(c, e)
  <2>1. marker[c] \in Marker
    BY DEF TypeOK
  <2>2. PICK m \in Marker : Becomes(c, e, WithCopy(t, m))
    BY <1>1, <1>5, <2>1, NothingTyped DEF Get
  <2>3. WithCopy(t, m) \in Task /\ WithCopy(t, m).at \in {"done", "set", "del", "fire"}
    BY CopyTyped
  <2>4. /\ task'[c, e].at \in {"done", "set", "del", "fire"}
        /\ \A d \in Call, f \in AmiEvent : d # c \/ f # e => task'[d, f] = task[d, f]
    BY <2>2, <2>3, OneTask, ZenonT(40)
  <2> QED
    BY <1>5, <2>4 DEF Stepped, Get
<1>6. CASE Fire(c, e)
  <2>1. [t EXCEPT !.at = "set"] \in Task /\ [t EXCEPT !.at = "set"].at = "set"
    BY DEF Task
  <2>2. Finish(e, t) \in Task /\ Finish(e, t).at \in {"match", "done"}
    BY FinishTyped
  <2>3. Becomes(c, e, [t EXCEPT !.at = "set"]) \/ Becomes(c, e, Finish(e, t))
    BY <1>1, <1>6, FireTyped
  <2>4. /\ task'[c, e].at \in {"match", "done", "set"}
        /\ e = "Hangup" => task'[c, e].at # "match"
        /\ \A d \in Call, f \in AmiEvent : d # c \/ f # e => task'[d, f] = task[d, f]
    BY <1>3, <2>1, <2>2, <2>3, OneTask, ZenonT(40)
  <2>5. Fired(c, e, t)
    BY <1>1, <1>6, FireDoes
  <2> QED
    BY <1>6, <2>4, <2>5 DEF Stepped, Fire, Fired
<1>7. CASE Set(c, e) \/ Del(c, e)
  <2>1. [t EXCEPT !.at = "fire"] \in Task /\ [t EXCEPT !.at = "fire"].at = "fire"
    BY DEF Task
  <2>2. Finish(e, t) \in Task /\ Finish(e, t).at \in {"match", "done"}
    BY FinishTyped
  <2>3. Becomes(c, e, [t EXCEPT !.at = "fire"]) \/ Becomes(c, e, Finish(e, t))
    BY <1>1, <1>7, SetTyped
  <2>4. /\ task'[c, e].at \in {"match", "done", "fire"}
        /\ e = "Hangup" => task'[c, e].at # "match"
        /\ \A d \in Call, f \in AmiEvent : d # c \/ f # e => task'[d, f] = task[d, f]
    BY <1>3, <2>1, <2>2, <2>3, OneTask, ZenonT(40)
  <2>5. PICK m \in Marker : Store(c, m)
    BY <1>1, <1>7, WrittenTyped, NothingTyped DEF Set, Del
  <2>6. \A d \in Call : d # c => marker'[d] = marker[d]
    BY <2>5, StoreTyped
  <2>7. disturbed \subseteq disturbed'
    BY <2>5 DEF Store
  <2> QED
    BY <1>7, <2>4, <2>6, <2>7 DEF Stepped, Set, Del
<1> QED
  BY <1>4, <1>5, <1>6, <1>7 DEF Step

\* The named events.
LEMMA NamesIn ==
  {"Newchannel", "QueueCallerJoin", "QueueCallerAbandon", "AgentConnect", "Hangup"}
    \subseteq AmiEvent
BY DEF AmiEvent

\* A call that stays where it is keeps its order.
LEMMA OrderKept ==
  ASSUME NEW c \in Call, Ordered(c), chan'[c] = chan[c],
         \A e \in AmiEvent : task'[c, e].at = "none" <=> task[c, e].at = "none",
         task'[c, "Hangup"].at = "match" => task[c, "Hangup"].at = "match",
         \A s \in sent' : s.call = c => s \in sent \/ chan[c] # "idle"
  PROVE  Ordered(c)'
BY EventsApart DEF Ordered, Before

\* Every step keeps OrderInv.
LEMMA NextOrder == TypeOK /\ HonestInv /\ OrderInv /\ [Next]_vars => OrderInv'
<1> SUFFICES ASSUME TypeOK, HonestInv, OrderInv, [Next]_vars, NEW d \in Call
             PROVE  Ordered(d)'
  BY DEF OrderInv
<1>o. Ordered(d)
  BY DEF OrderInv
<1>1. ASSUME NEW c \in Call, Asterisk(c) PROVE Ordered(d)'
  <2>0. \A f \in Call : f # c => chan'[f] = chan[f]
    BY <1>1, AsteriskDoes
  <2>1. CASE UNCHANGED <<config, marker, task, sent, disturbed>>
             /\ chan[c] = "queued" /\ chan'[c] = "past"
    BY <1>o, <2>0, <2>1 DEF Ordered, Before
  <2>2. ASSUME NEW e \in AmiEvent, Came(c, e), d # c PROVE Ordered(d)'
    <3>1. \A f \in AmiEvent : task'[d, f] = task[d, f]
      BY <2>2 DEF Came
    <3>2. sent' = sent
      BY <2>2 DEF Came
    <3> QED
      BY <1>o, <2>0, <2>2, <3>1, <3>2, OrderKept, EventsApart
  <2>3. ASSUME NEW e \in AmiEvent, Came(c, e), d = c
        PROVE  /\ task'[d, e].at # "none" /\ task[d, e].at = "none"
               /\ e = "Hangup" => task'[d, e].at # "match"
               /\ \A f \in AmiEvent \ {e} : task'[d, f] = task[d, f]
               /\ sent' = sent
    BY <2>3 DEF Came
  <2>4. CASE Goes(c, "Newchannel", {"idle"}, "up")
    <3>1. Came(c, "Newchannel") /\ chan[c] \in {"idle"} /\ chan'[c] = "up"
      BY <2>4 DEF Goes
    <3>2. CASE d # c
      BY <2>2, <3>1, <3>2, EventsApart
    <3>3. CASE d = c
      <4>1. /\ task'[d, "Newchannel"].at # "none" /\ task[d, "Newchannel"].at = "none"
            /\ \A f \in AmiEvent \ {"Newchannel"} : task'[d, f] = task[d, f]
            /\ sent' = sent
        BY <2>3, <3>1, <3>3, EventsApart
      <4> QED
        BY <1>o, <3>1, <3>3, <4>1, NamesIn, ZenonT(40) DEF Ordered, Before
    <3> QED
      BY <3>2, <3>3
  <2>5. CASE Goes(c, "QueueCallerJoin", {"up"}, "queued")
    <3>1. Came(c, "QueueCallerJoin") /\ chan[c] \in {"up"} /\ chan'[c] = "queued"
      BY <2>5 DEF Goes
    <3>2. CASE d # c
      BY <2>2, <3>1, <3>2, EventsApart
    <3>3. CASE d = c
      <4>1. /\ task'[d, "QueueCallerJoin"].at # "none" /\ task[d, "QueueCallerJoin"].at = "none"
            /\ \A f \in AmiEvent \ {"QueueCallerJoin"} : task'[d, f] = task[d, f]
            /\ sent' = sent
        BY <2>3, <3>1, <3>3, EventsApart
      <4> QED
        BY <1>o, <3>1, <3>3, <4>1, NamesIn DEF Ordered, Before
    <3> QED
      BY <3>2, <3>3
  <2>6. CASE Goes(c, "QueueCallerAbandon", {"queued"}, "left")
    <3>1. Came(c, "QueueCallerAbandon") /\ chan[c] \in {"queued"} /\ chan'[c] = "left"
      BY <2>6 DEF Goes
    <3>2. CASE d # c
      BY <2>2, <3>1, <3>2, EventsApart
    <3>3. CASE d = c
      <4>1. /\ task'[d, "QueueCallerAbandon"].at # "none" /\ task[d, "QueueCallerAbandon"].at = "none"
            /\ \A f \in AmiEvent \ {"QueueCallerAbandon"} : task'[d, f] = task[d, f]
            /\ sent' = sent
        BY <2>3, <3>1, <3>3, EventsApart
      <4> QED
        BY <1>o, <3>1, <3>3, <4>1, NamesIn DEF Ordered, Before
    <3> QED
      BY <3>2, <3>3
  <2>7. CASE Goes(c, "AgentConnect", {"queued"}, "past")
    <3>1. Came(c, "AgentConnect") /\ chan[c] \in {"queued"} /\ chan'[c] = "past"
      BY <2>7 DEF Goes
    <3>2. CASE d # c
      BY <2>2, <3>1, <3>2, EventsApart
    <3>3. CASE d = c
      <4>1. /\ task'[d, "AgentConnect"].at # "none" /\ task[d, "AgentConnect"].at = "none"
            /\ \A f \in AmiEvent \ {"AgentConnect"} : task'[d, f] = task[d, f]
            /\ sent' = sent
        BY <2>3, <3>1, <3>3, EventsApart
      <4> QED
        BY <1>o, <3>1, <3>3, <4>1, NamesIn DEF Ordered, Before
    <3> QED
      BY <3>2, <3>3
  <2>8. CASE Goes(c, "Hangup", {"up", "past", "left"}, "gone")
    <3>1. Came(c, "Hangup") /\ chan[c] \in {"up", "past", "left"} /\ chan'[c] = "gone"
      BY <2>8 DEF Goes
    <3>2. CASE d # c
      BY <2>2, <3>1, <3>2, EventsApart
    <3>3. CASE d = c
      <4>1. /\ task'[d, "Hangup"].at # "none" /\ task[d, "Hangup"].at = "none"
            /\ task'[d, "Hangup"].at # "match"
            /\ \A f \in AmiEvent \ {"Hangup"} : task'[d, f] = task[d, f]
            /\ sent' = sent
        BY <2>3, <3>1, <3>3, EventsApart
      <4> QED
        BY <1>o, <3>1, <3>3, <4>1, NamesIn DEF Ordered, Before
    <3> QED
      BY <3>2, <3>3
  <2>9. ASSUME NEW l \in Leg, Goes(c, l, {"up", "queued", "past"}, chan[c])
        PROVE  Ordered(d)'
    <3>1. l \in AmiEvent /\ l \notin {"Newchannel", "QueueCallerJoin",
                                      "QueueCallerAbandon", "AgentConnect", "Hangup"}
      BY WebhookAssumption DEF AmiEvent
    <3>2. Came(c, l) /\ chan[c] \in {"up", "queued", "past"} /\ chan'[c] = chan[c]
      BY <2>9 DEF Goes
    <3>3. CASE d # c
      BY <2>2, <3>1, <3>2, <3>3
    <3>4. CASE d = c
      <4>1. /\ task'[d, l].at # "none"
            /\ \A f \in AmiEvent \ {l} : task'[d, f] = task[d, f]
            /\ sent' = sent
        BY <2>3, <3>1, <3>2, <3>4
      <4> QED
        BY <1>o, <3>1, <3>2, <3>4, <4>1, NamesIn DEF Ordered, Before
    <3> QED
      BY <3>3, <3>4
  <2> QED
    BY <1>1, <2>1, <2>4, <2>5, <2>6, <2>7, <2>8, <2>9, AsteriskDoes
<1>2. ASSUME NEW c \in Call, NEW e \in AmiEvent, Step(c, e) PROVE Ordered(d)'
  <2>1. Stepped(c, e)
    BY <1>2, StepDoes
  <2>2. \A f \in AmiEvent : task'[d, f].at = "none" <=> task[d, f].at = "none"
    BY <2>1 DEF Stepped
  <2>3. task'[d, "Hangup"].at = "match" => task[d, "Hangup"].at = "match"
    BY <2>1, EventsApart DEF Stepped
  <2>4. c = d => chan[d] # "idle"
    BY <1>o, <2>1 DEF Stepped, Ordered, Before
  <2>5. chan' = chan /\ \A s \in sent' : s \in sent \/ s.call = c
    BY <2>1 DEF Stepped
  <2> QED
    BY <1>o, <2>2, <2>3, <2>4, <2>5, OrderKept
<1>3. CASE Stop
  <2>1. \A f \in AmiEvent :
          task'[d, f] = IF task[d, f].at = "none" THEN task[d, f] ELSE Done(task[d, f])
    BY <1>3 DEF Stop
  <2>2. \A f \in AmiEvent : Done(task[d, f]).at = "done"
    BY TaskTyped, DoneTyped
  <2> QED
    BY <1>3, <1>o, <2>1, <2>2, OrderKept, EventsApart DEF Stop
<1>4. CASE UNCHANGED <<chan, task, sent>>
  BY <1>4, <1>o DEF Ordered, Before
<1> QED
  BY <1>1, <1>2, <1>3, <1>4 DEF Next, vars, Expire, load_config, Disconnect, Connect

\* No record of the call is added.
SameSent(c) == \A s : s.call = c => (s \in sent' <=> s \in sent)
\* Only the task of e moves.
Alone(c, e) == \A f \in AmiEvent \ {e} : task'[c, f] = task[c, f]

\* What was sent of a call is the same if no record of it was added.
LEMMA SentKept ==
  ASSUME NEW c \in Call, SameSent(c)
  PROVE  /\ \A N : Of(c, N)' = Of(c, N)
         /\ \A w, N : In(sent', c, w, N) <=> In(sent, c, w, N)
<1>1. \A N : Of(c, N)' = Of(c, N)
  BY DEF SameSent, Of
<1>2. \A w, N : In(sent', c, w, N) <=> In(sent, c, w, N)
  BY DEF SameSent, In
<1> QED
  BY <1>1, <1>2

\* Where nothing happens to a call, it stays tidy.
LEMMA TidyKept ==
  ASSUME NEW c \in Call, Tidy(c), SameSent(c), \A f \in AmiEvent : task'[c, f] = task[c, f],
         marker'[c] = marker[c], config' = config
  PROVE  Tidy(c)'
<1>1. /\ \A N : Of(c, N)' = Of(c, N)
      /\ \A w, N : In(sent', c, w, N) <=> In(sent, c, w, N)
  BY SentKept
<1>2. OneHolder(c)' /\ FreshCopy(c)' /\ Wrote(c)' /\ InTurn(c)'
  BY NamesIn DEF Tidy, OneHolder, FreshCopy, Wrote, InTurn, Quiet, Announced
<1>3. \A l \in Leg : First(c, l)' <=> First(c, l)
  BY DEF SameSent, First, AmiEvent
<1>4. \A w : Pending(c, w) => Pending(c, w)'
  BY DEF Pending
<1>5. Past(c)' <=> Past(c)
  BY NamesIn DEF Past
<1>6. Listed(c)' /\ ToldOnce(c)' /\ OneFirst(c)'
  BY <1>1, <1>3, <1>4, <1>5 DEF Tidy, Listed, ToldOnce, OneFirst
<1>7. Noted(c)'
  BY <1>1, <1>5, NamesIn DEF Tidy, Noted, Announced
<1>8. EndTold(c)' <=> EndTold(c)
  BY <1>1 DEF EndTold
<1>9. \A a, m : Reports(c, a, m)' <=> Reports(c, a, m)
  BY <1>1, <1>3 DEF Reports
<1>10. EndsOnce(c)'
  BY <1>1, <1>8, <1>9, NamesIn DEF Tidy, EndsOnce
<1> QED
  BY <1>2, <1>6, <1>7, <1>10 DEF Tidy

\* Nothing has happened to a call that has not begun.
IdleIsTidy == \A c \in Call : Ordered(c) /\ chan[c] = "idle" => Tidy(c)

LEMMA TidyIdle == IdleIsTidy
<1> SUFFICES ASSUME NEW c \in Call, Ordered(c), chan[c] = "idle" PROVE Tidy(c)
  BY DEF IdleIsTidy
<1>1. (\A e \in AmiEvent : task[c, e].at = "none") /\ \A s \in sent : s.call # c
  BY DEF Ordered, Before
<1>2. \A N : Of(c, N) = {}
  BY <1>1 DEF Of
<1>3. OneHolder(c) /\ FreshCopy(c) /\ Wrote(c) /\ InTurn(c)
  BY <1>1, NamesIn DEF OneHolder, FreshCopy, Wrote, InTurn, Holding
<1>4. \A l \in Leg : ~First(c, l)
  BY <1>1 DEF First, AmiEvent
<1>5. Listed(c) /\ ToldOnce(c) /\ OneFirst(c) /\ Noted(c)
  BY <1>2, <1>4 DEF Listed, ToldOnce, OneFirst, Noted
<1>6. EndsOnce(c)
  BY <1>1, <1>2, NamesIn DEF EndsOnce
<1> QED
  BY <1>3, <1>5, <1>6 DEF Tidy

\* A handler that is still to read the marker, or is done without.
LEMMA TidyWaits ==
  ASSUME NEW c \in Call, NEW e \in AmiEvent, Tidy(c), Alone(c, e), SameSent(c),
         marker'[c] = marker[c], config' = config,
         task[c, e].at \in {"none", "match", "get"},
         task'[c, e].at \in {"match", "get", "done"},
         e = "Hangup" => task'[c, e].at # "done",
         e # "Hangup" => task[c, "Hangup"].at \notin {"del", "fire", "done"}
  PROVE  Tidy(c)'
<1>1. /\ \A N : Of(c, N)' = Of(c, N)
      /\ \A w, N : In(sent', c, w, N) <=> In(sent, c, w, N)
  BY SentKept
<1>2. \A f \in AmiEvent : task'[c, f].at \in {"fire", "set", "del"} => task'[c, f] = task[c, f]
  BY DEF Alone
<1>3. OneHolder(c)' /\ FreshCopy(c)' /\ Wrote(c)'
  BY <1>2, ZenonT(40) DEF Tidy, OneHolder, FreshCopy, Wrote, Holding
<1>4. Announced(c) => Announced(c)'
  BY NamesIn DEF Announced, Alone
<1>5. task'[c, "Hangup"].at \notin {"del", "fire", "done"}
  BY NamesIn DEF Alone
<1>6. task[c, "Hangup"].at \notin {"del", "fire", "done"}
  BY DEF Alone
<1>7. InTurn(c)'
  BY <1>2, <1>4, <1>5, NamesIn DEF Tidy, InTurn
<1>8. \A l \in Leg : First(c, l)' <=> First(c, l)
  BY <1>2 DEF SameSent, First, AmiEvent, Alone
<1>9. \A w : Pending(c, w) => Pending(c, w)'
  BY DEF Pending, Alone
<1>10. ~Past(c)' /\ ~Past(c)
  BY <1>5, <1>6 DEF Past
<1>11. Listed(c)' /\ ToldOnce(c)' /\ OneFirst(c)'
  BY <1>1, <1>8, <1>9, <1>10 DEF Tidy, Listed, ToldOnce, OneFirst
<1>12. \A f \in AmiEvent : task[c, f].at = "set" => task'[c, f].at = "set"
  BY DEF Alone
<1>13. Noted(c)'
  BY <1>1, <1>4, <1>10, <1>12, NamesIn DEF Tidy, Noted
<1>14. EndsOnce(c)'
  BY <1>1, <1>5, <1>6 DEF Tidy, EndsOnce
<1> QED
  BY <1>3, <1>7, <1>11, <1>13, <1>14 DEF Tidy

\* What a handler finds that reads the marker undisturbed.
LEMMA NoRivals ==
  ASSUME NEW c \in Call, NEW e \in AmiEvent, Rivals(c, e) = {}
  PROVE  /\ \A f \in AmiEvent \ {e} : ~Holding(task[c, f])
         /\ e = "Hangup" => \A f \in AmiEvent \ {e} : Quiet(c, f)
         /\ e \in {"QueueCallerAbandon", "AgentConnect"} =>
              \A f \in {"Newchannel", "QueueCallerJoin"} : Quiet(c, f)
<1>1. \A f \in AmiEvent \ {e} : ~Holding(task[c, f])
  BY DEF Rivals
<1>2. \A f \in AmiEvent \ {e} : Rank(f) < Rank(e) => Quiet(c, f)
  BY DEF Rivals, Quiet
<1>3. \A f \in AmiEvent \ {"Hangup"} : Rank(f) < Rank("Hangup")
  BY DEF Rank
<1>4. \A f \in {"Newchannel", "QueueCallerJoin"}, g \in {"QueueCallerAbandon", "AgentConnect"} :
        Rank(f) < Rank(g)
  BY DEF Rank
<1> QED
  BY <1>1, <1>2, <1>3, <1>4, NamesIn

\* OpTells, of the tasks of a state.
LEMMA OpOf ==
  ASSUME TypeOK, HonestInv, NEW c \in Call, NEW e \in AmiEvent
  PROVE  /\ task[c, e].op \in Announce <=> e \in {"Newchannel", "QueueCallerJoin"}
         /\ task[c, e].op = "missed" <=> e = "QueueCallerAbandon"
         /\ task[c, e].op = "answered" <=> e = "AgentConnect"
         /\ task[c, e].op = "hangup" <=> e = "Hangup"
         /\ task[c, e].op = "dial" <=> e \in Leg
<1>1. task[c, e] \in Task /\ TaskHonest(task, c, e, task[c, e])
  BY TaskTyped DEF HonestInv
<1>2. PICK t \in Task : task[c, e] = t
  BY <1>1
<1>3. TaskHonest(task, c, e, t)
  BY <1>1, <1>2
<1>4. /\ t.op \in Announce <=> e \in {"Newchannel", "QueueCallerJoin"}
      /\ t.op = "missed" <=> e = "QueueCallerAbandon"
      /\ t.op = "answered" <=> e = "AgentConnect"
      /\ t.op = "hangup" <=> e = "Hangup"
      /\ t.op = "dial" <=> e \in Leg
  BY <1>3, OpTells
<1> QED
  BY <1>2, <1>4

\* A handler reads the marker, and will go on to write or to fire.
LEMMA TidyReads ==
  ASSUME TypeOK, HonestInv, NEW c \in Call, NEW e \in AmiEvent,
         Ordered(c), Tidy(c), Alone(c, e), sent' = sent,
         marker'[c] = marker[c], config' = config, Rivals(c, e) = {},
         task[c, e].at = "get", task'[c, e].at \in {"set", "del", "fire"},
         task'[c, e].copy = marker[c], task'[c, e].op = task[c, e].op,
         task'[c, e].at = "set" => e \in Leg /\ marker[c].direction = "outbound",
         task'[c, e].at = "del" <=> e = "Hangup",
         task'[c, e].at = "del" => marker[c] # NoMarker,
         task'[c, e].at = "fire" => e \notin Leg
  PROVE  Tidy(c)'
<1>0. SameSent(c)
  BY DEF SameSent
<1>1. /\ \A N : Of(c, N)' = Of(c, N)
      /\ \A w, N : In(sent', c, w, N) <=> In(sent, c, w, N)
  BY <1>0, SentKept
<1>2. \A f \in AmiEvent \ {e} : ~Holding(task[c, f]) /\ ~Holding(task'[c, f])
  BY NoRivals DEF Alone
<1>3. OneHolder(c)' /\ FreshCopy(c)'
  BY <1>2 DEF OneHolder, FreshCopy
<1>4. task[c, e].op = "hangup" <=> e = "Hangup"
  BY OpOf, ZenonT(40)
<1>5. Wrote(c)'
  <2>1. marker[c].direction = "outbound" => marker[c] # NoMarker
    <3>1. NoMarker.direction = "none"
      BY DEF NoMarker
    <3> QED
      BY <3>1
  <2> QED
    BY <1>4, <2>1 DEF Tidy, Wrote, Alone
<1>6. e # "Hangup" => /\ task[c, "Hangup"].at \notin {"del", "fire", "done"}
                      /\ task'[c, "Hangup"] = task[c, "Hangup"]
  BY NamesIn DEF Tidy, InTurn, Quiet, Alone
<1>7. Announced(c) => Announced(c)'
  BY NamesIn DEF Announced, Alone
<1>8. e \in {"QueueCallerAbandon", "AgentConnect"} => Announced(c)
  <2> SUFFICES ASSUME e \in {"QueueCallerAbandon", "AgentConnect"},
                      NEW f \in {"Newchannel", "QueueCallerJoin"}
               PROVE  task[c, f].at = "done"
    BY DEF Announced
  <2>1. task[c, f].at # "none"
    BY DEF Ordered, Before
  <2>2. Quiet(c, f)
    BY NoRivals
  <2>3. f \in AmiEvent
    BY NamesIn
  <2>4. task[c, f] \in Task /\ task[c, f].op \in Announce
    BY <2>3, TaskTyped, OpOf
  <2> QED
    BY <2>1, <2>2, <2>4 DEF Quiet, Holding, Task, Announce
<1>9. InTurn(c)'
  <2>1. \A f \in {"QueueCallerAbandon", "AgentConnect"} :
          task'[c, f].at \in {"fire", "set"} => Announced(c)'
    <3> TAKE f \in {"QueueCallerAbandon", "AgentConnect"}
    <3>1. CASE f = e
      BY <1>7, <1>8, <3>1
    <3>2. CASE f # e
      BY <1>7, <3>2, NamesIn DEF Tidy, InTurn, Alone
    <3> QED
      BY <3>1, <3>2
  <2>2. task'[c, "Hangup"].at \in {"del", "fire", "done"} =>
          \A f \in AmiEvent \ {"Hangup"} : Quiet(c, f)'
    <3>1. e = "Hangup" => \A f \in AmiEvent \ {e} : Quiet(c, f)
      BY NoRivals
    <3> QED
      BY <1>6, <3>1 DEF Quiet, Alone
  <2> QED
    BY <2>1, <2>2 DEF InTurn
<1>10. \A l \in Leg : First(c, l)' <=> First(c, l)
  BY DEF First, AmiEvent, Alone
<1>11. \A w : Pending(c, w) => Pending(c, w)'
  BY DEF Pending, Alone
<1>12. /\ task[c, "Hangup"].at \notin {"fire", "done"}
       /\ task'[c, "Hangup"].at \notin {"fire", "done"}
  BY <1>6
<1>13. ~Past(c)' /\ ~Past(c)
  BY <1>12 DEF Past
<1>14. Listed(c)' /\ ToldOnce(c)' /\ OneFirst(c)'
  BY <1>1, <1>10, <1>11, <1>13 DEF Tidy, Listed, ToldOnce, OneFirst
<1>15. \A f \in AmiEvent : task[c, f].at = "set" => task'[c, f].at = "set"
  BY DEF Alone
<1>16. Noted(c)'
  BY <1>1, <1>7, <1>13, <1>15, NamesIn DEF Tidy, Noted
<1>17. EndsOnce(c)'
  BY <1>1, <1>12 DEF Tidy, EndsOnce
<1> QED
  BY <1>3, <1>5, <1>9, <1>14, <1>16, <1>17 DEF Tidy

\* A hangup that finds no marker: nobody was told of the call.
LEMMA TidyUntold ==
  ASSUME NEW c \in Call, Tidy(c), Alone(c, "Hangup"), sent' = sent,
         marker'[c] = marker[c], config' = config, Rivals(c, "Hangup") = {},
         task[c, "Hangup"].at = "get", task'[c, "Hangup"].at = "done",
         marker[c] = NoMarker
  PROVE  Tidy(c)'
<1>0. SameSent(c)
  BY DEF SameSent
<1>1. /\ \A N : Of(c, N)' = Of(c, N)
      /\ \A w, N : In(sent', c, w, N) <=> In(sent, c, w, N)
  BY <1>0, SentKept
<1>2. \A f \in AmiEvent \ {"Hangup"} : Quiet(c, f) /\ Quiet(c, f)'
  <2>1. \A f \in AmiEvent \ {"Hangup"} : Quiet(c, f)
    BY NoRivals, NamesIn
  <2> QED
    BY <2>1 DEF Quiet, Alone
<1>3. \A f \in AmiEvent : ~Holding(task'[c, f])
  BY <1>2 DEF Quiet, Holding
<1>4. \A f \in AmiEvent : task'[c, f].at \notin {"set", "del"} /\ task[c, f].at # "set"
  BY <1>2, <1>3 DEF Quiet, Holding
<1>5. Wrote(c)'
  <2>1. \A f \in AmiEvent : task'[c, f].at = "fire" => task'[c, f] = task[c, f]
    BY DEF Alone
  <2> QED
    BY <1>4, <2>1 DEF Tidy, Wrote
<1>6. OneHolder(c)' /\ FreshCopy(c)'
  BY <1>3 DEF OneHolder, FreshCopy
<1>7. Announced(c) <=> Announced(c)'
  BY NamesIn DEF Announced, Alone
<1>8. InTurn(c)'
  BY <1>2, <1>7, NamesIn DEF Tidy, InTurn, Alone
<1>9. \A l \in Leg : First(c, l)' <=> First(c, l)
  BY DEF First, AmiEvent, Alone
<1>10. Past(c)' /\ ~Past(c)
  BY DEF Past
<1>11. Listed(c)' /\ ToldOnce(c)' /\ OneFirst(c)'
  BY <1>1, <1>9, <1>10 DEF Tidy, Listed, ToldOnce, OneFirst
<1>12. Noted(c)'
  BY <1>1, <1>7, <1>10 DEF Tidy, Noted
<1>13. EndsOnce(c)'
  <2>1. Of(c, Endings) = {}
    BY DEF Tidy, EndsOnce
  <2>2. \A w : ~Pending(c, w)
    BY <1>4 DEF Pending
  <2>3. Of(c, Announce) = {}
    <3>1. NoMarker.webhooks = {}
      BY DEF NoMarker
    <3> QED
      BY <1>10, <2>2, <3>1 DEF Tidy, Listed
  <2>4. \A w : ~In(sent, c, w, Announce)
    BY <2>3 DEF In, Of
  <2>5. EndTold(c)'
    BY <1>1, <2>4 DEF EndTold
  <2> QED
    BY <1>1, <2>1, <2>5 DEF EndsOnce
<1> QED
  BY <1>5, <1>6, <1>8, <1>11, <1>12, <1>13 DEF Tidy

\* The records of one firing differ only in whom they are for.
LEMMA FiredAlike ==
  ASSUME TypeOK', NEW c, NEW e, NEW t, Fired(c, e, t)
  PROVE  \A r, s \in sent' \ sent : r.to = s.to => r = s
<1>1. \A x \in sent' : x = [call |-> x.call, by |-> x.by, to |-> x.to, event |-> x.event,
                           answered |-> x.answered, missed |-> x.missed]
  BY DEF TypeOK
<1>2. \A x \in sent' \ sent :
        /\ x.call = c /\ x.by = e /\ x.event = Event(t)
        /\ x.answered = SaysAnswered(t) /\ x.missed = SaysMissed(t)
  BY DEF Fired
<1> QED
  BY <1>1, <1>2

\* What firing adds to the records of a call.
LEMMA FiredOf ==
  ASSUME NEW c \in Call, NEW e, NEW t, Fired(c, e, t)
  PROVE  /\ \A N : Event(t) \notin N => Of(c, N)' = Of(c, N)
         /\ \A w, N : Event(t) \notin N => (In(sent', c, w, N) <=> In(sent, c, w, N))
         /\ \A l : l # e /\ task'[c, l] = task[c, l] => (First(c, l)' <=> First(c, l))
<1>1. sent \subseteq sent' /\ \A s \in sent' \ sent : s.event = Event(t) /\ s.by = e
  BY DEF Fired
<1>2. \A N : Event(t) \notin N => Of(c, N)' = Of(c, N)
  BY <1>1 DEF Of
<1>3. \A w, N : Event(t) \notin N => (In(sent', c, w, N) <=> In(sent, c, w, N))
  BY <1>1 DEF In
<1>4. \A l : l # e /\ task'[c, l] = task[c, l] => (First(c, l)' <=> First(c, l))
  BY <1>1 DEF First
<1> QED
  BY <1>2, <1>3, <1>4

\* A handler announces the call to those who have not heard of it.
LEMMA TidyAnnounces ==
  ASSUME TypeOK', NEW c \in Call, NEW e \in {"Newchannel", "QueueCallerJoin"},
         NEW t \in Task, task[c, e] = t, t.at = "fire", t.op \in Announce,
         Tidy(c), Fired(c, e, t), Alone(c, e),
         marker'[c] = marker[c], config' = config,
         task'[c, e].at \in {"match", "done"} \/ task'[c, e] = [t EXCEPT !.at = "set"],
         Targets(t) # {} => task'[c, e] = [t EXCEPT !.at = "set"]
  PROVE  Tidy(c)'
<1>0. [t EXCEPT !.at = "set"].at = "set" /\ [t EXCEPT !.at = "set"].op = t.op
      /\ [t EXCEPT !.at = "set"].matched = t.matched
      /\ [t EXCEPT !.at = "set"].copy = t.copy
  BY DEF Task
<1>e. e \in AmiEvent /\ e \notin Leg
      /\ e \notin {"Hangup", "QueueCallerAbandon", "AgentConnect"}
  BY NamesIn, WebhookAssumption
<1>1. Event(t) = t.op /\ Targets(t) = t.matched \ t.copy.webhooks
  BY DEF Event, Targets, Announce
<1>2. Holding(task[c, e]) /\ t.copy = marker[c]
  BY <1>e DEF Holding, Announce, Tidy, FreshCopy
<1>3. \A f \in AmiEvent \ {e} : ~Holding(task[c, f])
  BY <1>2, <1>e DEF Tidy, OneHolder
<1>4. \A f \in AmiEvent : Holding(task'[c, f]) => f = e /\ task'[c, e].copy = t.copy
  BY <1>0, <1>3, ZenonT(40) DEF Alone, Holding
<1>5. OneHolder(c)' /\ FreshCopy(c)'
  BY <1>2, <1>4 DEF OneHolder, FreshCopy
<1>6. Wrote(c)'
  <2>1. \A f \in AmiEvent \ {e} : task'[c, f] = task[c, f]
    BY DEF Alone
  <2>2. \/ task'[c, e].at \in {"match", "done"}
        \/ task'[c, e].at = "set" /\ task'[c, e].op \in Announce
    BY <1>0
  <2> QED
    BY <2>1, <2>2, ZenonT(40) DEF Tidy, Wrote
<1>7. ~Announced(c)
  BY DEF Announced
<1>8. /\ task[c, "Hangup"].at \notin {"del", "fire", "done"}
      /\ task'[c, "Hangup"].at \notin {"del", "fire", "done"}
  BY <1>2, <1>e, NamesIn DEF Tidy, InTurn, Quiet, Alone
<1>9. InTurn(c)'
  BY <1>7, <1>8, <1>e, NamesIn DEF Tidy, InTurn, Alone
<1>10. ~Past(c) /\ ~Past(c)'
  BY <1>8 DEF Past
<1>11. \A w : ~Pending(c, w)
  BY <1>3 DEF Pending, Holding
<1>12. \A s \in Of(c, Announce) : s.to \in marker[c].webhooks
  BY <1>10, <1>11 DEF Tidy, Listed
<1>13. \A s \in Of(c, Announce)' : s \in Of(c, Announce) \/ s \in sent' \ sent
  BY DEF Of
<1>14. \A s \in sent' \ sent : s.to \in t.matched \ marker[c].webhooks
  BY <1>1, <1>2 DEF Fired
<1>15. Listed(c)'
  <2>1. \A s \in sent' \ sent : Pending(c, s.to)'
    BY <1>0, <1>1, <1>2, <1>14, <1>e DEF Pending
  <2> QED
    BY <1>12, <1>13, <2>1 DEF Listed
<1>16. ToldOnce(c)'
  BY <1>12, <1>13, <1>14, FiredAlike DEF Tidy, ToldOnce
<1>17. \A l \in Leg : First(c, l)' <=> First(c, l)
  BY <1>e, FiredOf DEF Alone, AmiEvent
<1>18. OneFirst(c)'
  BY <1>10, <1>17 DEF Tidy, OneFirst
<1>19. /\ Of(c, {"answered"})' = Of(c, {"answered"})
       /\ Of(c, {"missed"})' = Of(c, {"missed"})
       /\ Of(c, Endings)' = Of(c, Endings)
  <2>1. \A N : Event(t) \notin N => Of(c, N)' = Of(c, N)
    BY FiredOf
  <2>2. Event(t) \notin {"answered"} /\ Event(t) \notin {"missed"} /\ Event(t) \notin Endings
    BY <1>1 DEF Announce, Endings
  <2> QED
    BY <2>1, <2>2
<1>20. Noted(c)'
  BY <1>7, <1>19 DEF Tidy, Noted
<1>21. EndsOnce(c)'
  BY <1>8, <1>19, ZenonT(40) DEF Tidy, EndsOnce
<1> QED
  BY <1>5, <1>6, <1>9, <1>15, <1>16, <1>18, <1>20, <1>21 DEF Tidy

\* A handler tells of a miss, or of the agent who answered.
LEMMA TidyTells ==
  ASSUME NEW c \in Call, NEW e \in {"QueueCallerAbandon", "AgentConnect"},
         NEW t \in Task, task[c, e] = t, t.at = "fire",
         t.op = "missed" <=> e = "QueueCallerAbandon",
         t.op = "answered" <=> e = "AgentConnect",
         Tidy(c), Fired(c, e, t), Alone(c, e),
         marker'[c] = marker[c], config' = config,
         t.copy # NoMarker => task'[c, e] = [t EXCEPT !.at = "set"],
         t.copy = NoMarker => task'[c, e].at = "done"
  PROVE  Tidy(c)'
<1>0. [t EXCEPT !.at = "set"].at = "set" /\ [t EXCEPT !.at = "set"].op = t.op
      /\ [t EXCEPT !.at = "set"].copy = t.copy
  BY DEF Task
<1>e. e \in AmiEvent /\ e \notin Leg
      /\ e \notin {"Hangup", "Newchannel", "QueueCallerJoin"}
  BY NamesIn, WebhookAssumption
<1>1. Event(t) = t.op /\ t.op \in {"missed", "answered"}
  BY DEF Event
<1>2. Holding(task[c, e]) /\ t.copy = marker[c]
  BY <1>1, <1>e DEF Holding, Tidy, FreshCopy
<1>3. \A f \in AmiEvent \ {e} : ~Holding(task[c, f])
  BY <1>2, <1>e DEF Tidy, OneHolder
<1>4. \A f \in AmiEvent : Holding(task'[c, f]) => f = e /\ task'[c, e].copy = t.copy
  BY <1>0, <1>3, ZenonT(40) DEF Alone, Holding
<1>5. OneHolder(c)' /\ FreshCopy(c)'
  BY <1>2, <1>4 DEF OneHolder, FreshCopy
<1>6. Wrote(c)'
  <2>1. \A f \in AmiEvent \ {e} : task'[c, f] = task[c, f]
    BY DEF Alone
  <2>2. task'[c, e].at # "done" => task'[c, e].at = "set" /\ task'[c, e].copy # NoMarker
    BY <1>0
  <2> QED
    BY <2>1, <2>2, ZenonT(40) DEF Tidy, Wrote
<1>7. Announced(c) /\ Announced(c)'
  BY <1>e, NamesIn DEF Tidy, InTurn, Announced, Alone
<1>8. /\ task[c, "Hangup"].at \notin {"del", "fire", "done"}
      /\ task'[c, "Hangup"].at \notin {"del", "fire", "done"}
  BY <1>2, <1>e, NamesIn DEF Tidy, InTurn, Quiet, Alone
<1>9. InTurn(c)'
  BY <1>7, <1>8 DEF InTurn
<1>10. ~Past(c) /\ ~Past(c)'
  BY <1>8 DEF Past
<1>11. \A w : ~Pending(c, w)
  BY <1>3 DEF Pending, Holding
<1>12. /\ Of(c, Announce)' = Of(c, Announce)
       /\ Of(c, Endings)' = Of(c, Endings)
       /\ e # "AgentConnect" => Of(c, {"answered"})' = Of(c, {"answered"})
       /\ e # "QueueCallerAbandon" => Of(c, {"missed"})' = Of(c, {"missed"})
  <2>1. \A N : Event(t) \notin N => Of(c, N)' = Of(c, N)
    BY FiredOf, ZenonT(40)
  <2>2. /\ Event(t) \notin Announce /\ Event(t) \notin Endings
        /\ e # "AgentConnect" => Event(t) \notin {"answered"}
        /\ e # "QueueCallerAbandon" => Event(t) \notin {"missed"}
    BY <1>1 DEF Announce, Endings
  <2> QED
    BY <2>1, <2>2
<1>13. Listed(c)' /\ ToldOnce(c)'
  BY <1>11, <1>12, <1>10, ZenonT(40) DEF Tidy, Listed, ToldOnce
<1>14. \A l \in Leg : First(c, l)' <=> First(c, l)
  BY <1>e, FiredOf DEF Alone, AmiEvent
<1>15. OneFirst(c)'
  BY <1>10, <1>14 DEF Tidy, OneFirst
<1>16. task'[c, e].at = "set" \/ marker'[c] = NoMarker
  BY <1>0, <1>2
<1>17. \A f \in AmiEvent : task[c, f].at = "set" => task'[c, f].at = "set"
  BY DEF Alone
<1>18. Noted(c)'
  <2>1. CASE e = "AgentConnect"
    BY <1>7, <1>10, <1>12, <1>16, <1>17, <2>1, NamesIn DEF Tidy, Noted
  <2>2. CASE e = "QueueCallerAbandon"
    BY <1>7, <1>10, <1>12, <1>16, <1>17, <2>2, NamesIn DEF Tidy, Noted
  <2> QED
    BY <2>1, <2>2
<1>19. EndsOnce(c)'
  BY <1>8, <1>12 DEF Tidy, EndsOnce
<1> QED
  BY <1>5, <1>6, <1>9, <1>13, <1>15, <1>18, <1>19 DEF Tidy

\* The first answer of an outbound call is told.
LEMMA TidyAnswers ==
  ASSUME NEW c \in Call, NEW e \in Leg, NEW t \in Task, task[c, e] = t,
         t.at = "fire", t.op = "dial", Tidy(c), Fired(c, e, t), Alone(c, e),
         marker'[c] = marker[c], config' = config, task'[c, e].at = "done"
  PROVE  Tidy(c)'
<1>e. e \in AmiEvent /\ e \notin {"Hangup", "Newchannel", "QueueCallerJoin",
                                  "QueueCallerAbandon", "AgentConnect"}
  BY WebhookAssumption DEF AmiEvent
<1>1. Event(t) = "outgoing_answered"
  BY DEF Event
<1>2. /\ \A N \in {Announce, Endings, {"answered"}, {"missed"}} : Of(c, N)' = Of(c, N)
      /\ \A w : \A N \in {Announce, Endings, {"incoming"}, {"outgoing"}} :
           In(sent', c, w, N) <=> In(sent, c, w, N)
  <2>1. /\ \A N : Event(t) \notin N => Of(c, N)' = Of(c, N)
        /\ \A w, N : Event(t) \notin N => (In(sent', c, w, N) <=> In(sent, c, w, N))
    BY FiredOf
  <2>2. \A N \in {Announce, Endings, {"answered"}, {"missed"}, {"incoming"}, {"outgoing"}} :
          Event(t) \notin N
    BY <1>1 DEF Announce, Endings
  <2> QED
    BY <2>1, <2>2
<1>3. \A f \in AmiEvent : Holding(task'[c, f]) => f # e /\ task'[c, f] = task[c, f]
  BY DEF Alone, Holding
<1>4. OneHolder(c)' /\ FreshCopy(c)'
  BY <1>3 DEF Tidy, OneHolder, FreshCopy
<1>5. \A f \in AmiEvent \ {e} : task'[c, f] = task[c, f]
  BY DEF Alone
<1>6. Wrote(c)'
  BY <1>5 DEF Tidy, Wrote
<1>7. Announced(c)' <=> Announced(c)
  BY <1>5, <1>e, NamesIn DEF Announced
<1>8. \A f \in AmiEvent : Quiet(c, f) => Quiet(c, f)'
  BY <1>5 DEF Quiet, Holding
<1>9. task'[c, "Hangup"] = task[c, "Hangup"]
  BY <1>5, <1>e, NamesIn
<1>10. InTurn(c)'
  BY <1>5, <1>7, <1>8, <1>9, <1>e, NamesIn DEF Tidy, InTurn
<1>11. Past(c)' <=> Past(c)
  BY <1>9 DEF Past
<1>12. \A w : Pending(c, w) => Pending(c, w)'
  BY <1>5 DEF Pending
<1>13. Listed(c)' /\ ToldOnce(c)'
  BY <1>2, <1>11, <1>12 DEF Tidy, Listed, ToldOnce
<1>14. \A l \in Leg : First(c, l)' => First(c, l)
  <2>1. First(c, e)
    BY DEF First
  <2>2. \A l \in Leg : l # e => (First(c, l)' <=> First(c, l))
    BY <1>5, FiredOf DEF AmiEvent
  <2> QED
    BY <2>1, <2>2
<1>15. OneFirst(c)'
  BY <1>11, <1>14 DEF Tidy, OneFirst
<1>16. Noted(c)'
  BY <1>2, <1>5, <1>7, <1>11, <1>e, NamesIn DEF Tidy, Noted
<1>17. \A a, m : Reports(c, a, m) => Reports(c, a, m)'
  BY <1>2, <1>14 DEF Reports
<1>18. EndTold(c) => EndTold(c)'
  BY <1>2 DEF EndTold
<1>19. EndsOnce(c)'
  BY <1>2, <1>9, <1>17, <1>18 DEF Tidy, EndsOnce
<1> QED
  BY <1>4, <1>6, <1>10, <1>13, <1>15, <1>16, <1>19 DEF Tidy

\* Whoever was told of the call is told of its end.
LEMMA TidyEnds ==
  ASSUME NEW c \in Call, NEW t \in Task, task[c, "Hangup"] = t,
         t.at = "fire", t.op = "hangup", Tidy(c), Sound(sent, c, t.copy),
         Fired(c, "Hangup", t), Alone(c, "Hangup"),
         marker'[c] = marker[c], config' = config, task'[c, "Hangup"].at = "done"
  PROVE  Tidy(c)'
<1>1. /\ Event(t) \in Endings
      /\ Targets(t) = Subscribed(t.copy, Event(t))
      /\ t.copy.direction = "outbound" => Event(t) = "outgoing_ended"
      /\ t.copy.direction # "outbound" => Event(t) = "ended"
  BY DEF Event, Endings, Targets, Announce
<1>2. /\ \A N \in {Announce, {"answered"}, {"missed"}} : Of(c, N)' = Of(c, N)
      /\ \A w : \A N \in {Announce, {"incoming"}, {"outgoing"}} :
           In(sent', c, w, N) <=> In(sent, c, w, N)
  <2>1. /\ \A N : Event(t) \notin N => Of(c, N)' = Of(c, N)
        /\ \A w, N : Event(t) \notin N => (In(sent', c, w, N) <=> In(sent, c, w, N))
    BY FiredOf
  <2>2. \A N \in {Announce, {"answered"}, {"missed"}, {"incoming"}, {"outgoing"}} :
          Event(t) \notin N
    BY <1>1 DEF Announce, Endings
  <2> QED
    BY <2>1, <2>2
<1>3. \A f \in AmiEvent : Holding(task'[c, f]) => f # "Hangup" /\ task'[c, f] = task[c, f]
  BY DEF Alone, Holding
<1>4. OneHolder(c)' /\ FreshCopy(c)'
  BY <1>3 DEF Tidy, OneHolder, FreshCopy
<1>5. \A f \in AmiEvent \ {"Hangup"} : task'[c, f] = task[c, f]
  BY DEF Alone
<1>6. Wrote(c)'
  BY <1>5 DEF Tidy, Wrote
<1>7. Announced(c)' <=> Announced(c)
  BY <1>5, NamesIn DEF Announced
<1>8. InTurn(c)'
  <2>1. \A f \in AmiEvent \ {"Hangup"} : Quiet(c, f)'
    BY <1>5 DEF Tidy, InTurn, Quiet
  <2> QED
    BY <1>5, <1>7, <2>1, NamesIn DEF Tidy, InTurn
<1>9. Past(c)' /\ Past(c)
  BY DEF Past
<1>10. Listed(c)' /\ ToldOnce(c)'
  BY <1>2, <1>9 DEF Tidy, Listed, ToldOnce
<1>11. \A l \in Leg : First(c, l)' <=> First(c, l)
  BY <1>5, FiredOf, WebhookAssumption DEF AmiEvent
<1>12. OneFirst(c)'
  BY <1>9, <1>11 DEF Tidy, OneFirst
<1>13. Noted(c)'
  BY <1>2, <1>7, <1>9 DEF Tidy, Noted
<1>14. \A s \in Of(c, Endings)' : s.answered = SaysAnswered(t) /\ s.missed = SaysMissed(t)
  <2>1. Of(c, Endings) = {}
    BY DEF Tidy, EndsOnce
  <2>2. \A s \in sent' : s \in sent
          \/ (s.answered = SaysAnswered(t) /\ s.missed = SaysMissed(t))
    BY DEF Fired
  <2> QED
    BY <2>1, <2>2 DEF Of
<1>15. \A s \in Of(c, Endings)' : Reports(c, s.answered, s.missed)'
  <2>1. Reports(c, t.copy.answered \/ t.copy.member, t.copy.missed)
    BY DEF Tidy, EndsOnce
  <2>2. Reports(c, SaysAnswered(t), SaysMissed(t))'
    BY <1>2, <1>11, <2>1 DEF Reports, SaysAnswered, SaysMissed
  <2> QED
    BY <1>14, <2>2 DEF Reports
<1>16. EndTold(c)'
  <2> SUFFICES ASSUME NEW w \in DOMAIN config.hooks, In(sent, c, w, Announce),
        \A v \in Webhook :
          /\ In(sent, c, v, {"incoming"}) => "ended" \in config.hooks[w].events
          /\ In(sent, c, v, {"outgoing"}) => "outgoing_ended" \in config.hooks[w].events
               PROVE  In(sent', c, w, Endings)
    BY <1>2 DEF EndTold
  <2>1. w \in t.copy.webhooks
    BY DEF Tidy, EndsOnce, In, Of
  <2>2. t.copy.direction \in {"inbound", "outbound"}
    BY <2>1 DEF Sound, Task, Marker
  <2>3. Event(t) \in config.hooks[w].events
    BY <1>1, <2>2 DEF Sound
  <2>4. w \in Targets(t)
    BY <1>1, <2>1, <2>3 DEF Subscribed
  <2> QED
    BY <1>1, <2>4 DEF Fired, In
<1>17. EndsOnce(c)'
  BY <1>14, <1>15, <1>16 DEF EndsOnce
<1> QED
  BY <1>4, <1>6, <1>8, <1>10, <1>12, <1>13, <1>17 DEF Tidy

\* A handler that writes is the only one that holds a copy, and it is fresh.
LEMMA HoldsAlone ==
  ASSUME NEW c \in Call, NEW e \in AmiEvent, Tidy(c), Alone(c, e), Holding(task[c, e])
  PROVE  /\ task[c, e].copy = marker[c]
         /\ \A f \in AmiEvent \ {e} : ~Holding(task[c, f]) /\ ~Holding(task'[c, f])
         /\ \A f \in AmiEvent \ {e} : task'[c, f].at \notin {"set", "del"}
         /\ e # "Hangup" => /\ task[c, "Hangup"].at \notin {"del", "fire", "done"}
                            /\ task'[c, "Hangup"].at \notin {"del", "fire", "done"}
                            /\ ~Past(c) /\ ~Past(c)'
<1>1. \A f \in AmiEvent \ {e} : ~Holding(task[c, f]) /\ ~Holding(task'[c, f])
  BY DEF Tidy, OneHolder, Alone
<1>2. e # "Hangup" => /\ task[c, "Hangup"].at \notin {"del", "fire", "done"}
                      /\ task'[c, "Hangup"].at \notin {"del", "fire", "done"}
  BY NamesIn DEF Tidy, InTurn, Quiet, Alone
<1> QED
  BY <1>1, <1>2 DEF Tidy, FreshCopy, Holding, Past

\* An announcement is written.
LEMMA TidyListed ==
  ASSUME NEW c \in Call, NEW e \in {"Newchannel", "QueueCallerJoin"},
         NEW t \in Task, task[c, e] = t, t.at = "set", t.op \in Announce,
         Tidy(c), Alone(c, e), sent' = sent, config' = config,
         marker'[c].webhooks = t.copy.webhooks \cup t.matched,
         marker'[c].answered = t.copy.answered,
         task'[c, e].at \in {"match", "done"}
  PROVE  Tidy(c)'
<1>e. e \in AmiEvent /\ e \notin Leg
      /\ e \notin {"Hangup", "QueueCallerAbandon", "AgentConnect"}
  BY NamesIn, WebhookAssumption
<1>0. SameSent(c)
  BY DEF SameSent
<1>1. \A N : Of(c, N)' = Of(c, N)
  BY <1>0, SentKept
<1>2. Holding(task[c, e])
  BY DEF Holding
<1>3. /\ t.copy = marker[c]
      /\ \A f \in AmiEvent \ {e} : ~Holding(task[c, f]) /\ ~Holding(task'[c, f])
      /\ task[c, "Hangup"].at \notin {"del", "fire", "done"}
      /\ task'[c, "Hangup"].at \notin {"del", "fire", "done"}
      /\ ~Past(c) /\ ~Past(c)'
  BY <1>2, <1>e, HoldsAlone
<1>4. \A f \in AmiEvent : ~Holding(task'[c, f])
  BY <1>3 DEF Holding
<1>5. OneHolder(c)' /\ FreshCopy(c)'
  BY <1>4 DEF OneHolder, FreshCopy
<1>6. Wrote(c)'
  <2>1. \A f \in AmiEvent \ {e} : task'[c, f] = task[c, f]
    BY DEF Alone
  <2> QED
    BY <2>1 DEF Tidy, Wrote
<1>7. ~Announced(c)
  BY DEF Announced
<1>8. InTurn(c)'
  BY <1>3, <1>7, <1>e, NamesIn DEF Tidy, InTurn, Alone
<1>9. \A w : Pending(c, w) => w \in t.matched
  BY <1>3 DEF Pending, Holding
<1>10. Listed(c)' /\ ToldOnce(c)'
  <2>1. ToldOnce(c)'
    BY <1>1, ZenonT(40) DEF Tidy, ToldOnce
  <2>2. ASSUME NEW s \in Of(c, Announce)
        PROVE  s.to \in marker'[c].webhooks
    <3>1. s.to \in marker[c].webhooks \/ Pending(c, s.to)
      BY <1>3 DEF Tidy, Listed
    <3>2. s.to \in t.copy.webhooks \cup t.matched
      BY <1>3, <1>9, <3>1
    <3> QED
      BY <3>2
  <2>3. Listed(c)'
    BY <1>1, <2>2 DEF Listed
  <2> QED
    BY <2>1, <2>3
<1>11. \A l \in Leg : First(c, l)' <=> First(c, l)
  BY <1>0, <1>e DEF SameSent, First, Alone, AmiEvent
<1>12. OneFirst(c)'
  BY <1>3, <1>11 DEF Tidy, OneFirst
<1>13. Noted(c)'
  BY <1>1, <1>7 DEF Tidy, Noted
<1>14. EndsOnce(c)'
  BY <1>1, <1>3 DEF Tidy, EndsOnce
<1> QED
  BY <1>5, <1>6, <1>8, <1>10, <1>12, <1>13, <1>14 DEF Tidy

\* A miss or an agent's answer is written.
LEMMA TidyNotes ==
  ASSUME NEW c \in Call, NEW e \in {"QueueCallerAbandon", "AgentConnect"},
         NEW t \in Task, task[c, e] = t, t.at = "set", t.op \notin Announce,
         Tidy(c), Alone(c, e), sent' = sent, config' = config,
         marker'[c].webhooks = t.copy.webhooks,
         marker'[c].answered = t.copy.answered,
         e = "AgentConnect" => marker'[c].member /\ (t.copy.missed => marker'[c].missed),
         e = "QueueCallerAbandon" => marker'[c].missed /\ (t.copy.member => marker'[c].member),
         task'[c, e].at = "done"
  PROVE  Tidy(c)'
<1>e. e \in AmiEvent /\ e \notin Leg
      /\ e \notin {"Hangup", "Newchannel", "QueueCallerJoin"}
  BY NamesIn, WebhookAssumption
<1>0. SameSent(c)
  BY DEF SameSent
<1>1. \A N : Of(c, N)' = Of(c, N)
  BY <1>0, SentKept
<1>2. Holding(task[c, e])
  BY DEF Holding
<1>3. /\ t.copy = marker[c]
      /\ \A f \in AmiEvent \ {e} : ~Holding(task[c, f]) /\ ~Holding(task'[c, f])
      /\ task[c, "Hangup"].at \notin {"del", "fire", "done"}
      /\ task'[c, "Hangup"].at \notin {"del", "fire", "done"}
      /\ ~Past(c) /\ ~Past(c)'
  BY <1>2, <1>e, HoldsAlone
<1>4. \A f \in AmiEvent : ~Holding(task'[c, f])
  BY <1>3 DEF Holding
<1>5. OneHolder(c)' /\ FreshCopy(c)'
  BY <1>4 DEF OneHolder, FreshCopy
<1>6. Wrote(c)' /\ marker[c] # NoMarker
  <2>1. \A f \in AmiEvent \ {e} : task'[c, f] = task[c, f]
    BY DEF Alone
  <2> QED
    BY <1>3, <1>e, <2>1 DEF Tidy, Wrote
<1>7. Announced(c) /\ Announced(c)'
  BY <1>e, NamesIn DEF Tidy, InTurn, Announced, Alone
<1>8. InTurn(c)'
  BY <1>3, <1>7 DEF InTurn
<1>9. \A w : ~Pending(c, w)
  BY <1>3 DEF Pending, Holding
<1>10. Listed(c)' /\ ToldOnce(c)'
  BY <1>1, <1>3, <1>9 DEF Tidy, Listed, ToldOnce
<1>11. \A l \in Leg : First(c, l)' <=> First(c, l)
  BY <1>0, <1>e DEF SameSent, First, Alone, AmiEvent
<1>12. OneFirst(c)'
  BY <1>3, <1>11 DEF Tidy, OneFirst
<1>13. \A f \in AmiEvent \ {e} : task[c, f].at # "set"
  BY <1>3 DEF Holding
<1>14. Noted(c)'
  <2>1. CASE e = "AgentConnect"
    BY <1>1, <1>3, <1>6, <1>7, <1>13, <2>1, NamesIn DEF Tidy, Noted
  <2>2. CASE e = "QueueCallerAbandon"
    BY <1>1, <1>3, <1>6, <1>7, <1>13, <2>2, NamesIn DEF Tidy, Noted
  <2> QED
    BY <2>1, <2>2
<1>15. EndsOnce(c)'
  BY <1>1, <1>3 DEF Tidy, EndsOnce
<1> QED
  BY <1>5, <1>6, <1>8, <1>10, <1>12, <1>14, <1>15 DEF Tidy

\* An answer is written; the first of a call is still to be told.
LEMMA TidyFirst ==
  ASSUME NEW c \in Call, NEW e \in Leg, NEW t \in Task, task[c, e] = t,
         t.at = "set", t.op = "dial", Tidy(c), Alone(c, e), sent' = sent, config' = config,
         marker'[c].webhooks = t.copy.webhooks,
         t.copy.answered => marker'[c].answered,
         t.copy.member => marker'[c].member, t.copy.missed => marker'[c].missed,
         \/ task'[c, e].at = "done"
         \/ /\ task'[c, e].at = "fire" /\ task'[c, e].op = "dial"
            /\ ~t.copy.answered /\ marker'[c].answered
  PROVE  Tidy(c)'
<1>e. e \in AmiEvent /\ e \notin {"Hangup", "Newchannel", "QueueCallerJoin",
                                  "QueueCallerAbandon", "AgentConnect"}
  BY WebhookAssumption DEF AmiEvent
<1>0. SameSent(c)
  BY DEF SameSent
<1>1. \A N : Of(c, N)' = Of(c, N)
  BY <1>0, SentKept
<1>2. Holding(task[c, e])
  BY DEF Holding
<1>3. /\ t.copy = marker[c]
      /\ \A f \in AmiEvent \ {e} : ~Holding(task[c, f]) /\ ~Holding(task'[c, f])
      /\ task[c, "Hangup"].at \notin {"del", "fire", "done"}
      /\ task'[c, "Hangup"].at \notin {"del", "fire", "done"}
      /\ ~Past(c) /\ ~Past(c)'
  BY <1>2, <1>e, HoldsAlone
<1>4. \A f \in AmiEvent : ~Holding(task'[c, f])
  BY <1>3 DEF Holding
<1>5. OneHolder(c)' /\ FreshCopy(c)'
  BY <1>4 DEF OneHolder, FreshCopy
<1>a. \A f \in AmiEvent \ {e} : task'[c, f] = task[c, f]
  BY DEF Alone
<1>6. Wrote(c)' /\ marker[c] # NoMarker
  <2>1. marker[c] # NoMarker
    BY <1>3, <1>e DEF Tidy, Wrote, Announce
  <2>2. task'[c, e].at # "set" /\ ~(task'[c, e].op = "hangup" /\ task'[c, e].at \in {"del", "fire"})
    OBVIOUS
  <2> QED
    BY <1>a, <2>1, <2>2 DEF Tidy, Wrote
<1>7. Announced(c)' <=> Announced(c)
  BY <1>a, <1>e, NamesIn DEF Announced
<1>8. InTurn(c)'
  BY <1>3, <1>7, <1>a, <1>e, NamesIn DEF Tidy, InTurn
<1>9. \A w : ~Pending(c, w)
  BY <1>3 DEF Pending, Holding, Announce
<1>10. Listed(c)' /\ ToldOnce(c)'
  BY <1>1, <1>3, <1>9 DEF Tidy, Listed, ToldOnce
<1>11. \A l \in Leg : l # e => (First(c, l)' <=> First(c, l))
  BY <1>0, <1>a DEF SameSent, First, AmiEvent
<1>12. First(c, e)' => task'[c, e].at = "fire" \/ First(c, e)
  BY <1>0 DEF SameSent, First
<1>13. task'[c, e].at = "fire" => \A l \in Leg : ~First(c, l)
  BY <1>3 DEF Tidy, OneFirst
<1>14. OneFirst(c)'
  <2>1. CASE task'[c, e].at = "fire"
    <3>1. \A l \in Leg : First(c, l)' => l = e
      BY <1>11, <1>13, <2>1
    <3> QED
      BY <2>1, <3>1 DEF OneFirst
  <2>2. CASE task'[c, e].at # "fire"
    <3>1. \A l \in Leg : First(c, l)' => First(c, l)
      BY <1>11, <1>12, <2>2
    <3> QED
      BY <1>3, <3>1 DEF Tidy, OneFirst
  <2> QED
    BY <2>1, <2>2
<1>15. \A f \in AmiEvent \ {e} : task[c, f].at # "set"
  BY <1>3 DEF Holding
<1>16. Noted(c)'
  BY <1>1, <1>3, <1>6, <1>7, <1>15, <1>e, NamesIn DEF Tidy, Noted
<1>17. EndsOnce(c)'
  BY <1>1, <1>3 DEF Tidy, EndsOnce
<1> QED
  BY <1>5, <1>6, <1>8, <1>10, <1>14, <1>16, <1>17 DEF Tidy

\* The marker is deleted; the end is still to be told, from the copy.
LEMMA TidyClears ==
  ASSUME NEW c \in Call, NEW t \in Task, task[c, "Hangup"] = t,
         t.at = "del", t.op = "hangup", Tidy(c), Alone(c, "Hangup"),
         sent' = sent, config' = config,
         task'[c, "Hangup"] = [t EXCEPT !.at = "fire"]
  PROVE  Tidy(c)'
<1>0. SameSent(c) /\ "Hangup" \in AmiEvent /\ "Hangup" \notin Leg
  BY NamesIn, WebhookAssumption DEF SameSent
<1>1. \A N : Of(c, N)' = Of(c, N)
  BY <1>0, SentKept
<1>t. [t EXCEPT !.at = "fire"].at = "fire" /\ [t EXCEPT !.at = "fire"].copy = t.copy
      /\ [t EXCEPT !.at = "fire"].op = "hangup"
  BY DEF Task
<1>2. Holding(task[c, "Hangup"])
  BY DEF Holding
<1>3. /\ t.copy = marker[c]
      /\ \A f \in AmiEvent \ {"Hangup"} : ~Holding(task[c, f]) /\ ~Holding(task'[c, f])
  BY <1>0, <1>2, HoldsAlone
<1>4. \A f \in AmiEvent : ~Holding(task'[c, f])
  BY <1>3, <1>t, ZenonT(40) DEF Holding
<1>5. OneHolder(c)' /\ FreshCopy(c)'
  BY <1>4 DEF OneHolder, FreshCopy
<1>a. \A f \in AmiEvent \ {"Hangup"} : task'[c, f] = task[c, f]
  BY DEF Alone
<1>6. Wrote(c)' /\ marker[c] # NoMarker
  <2>1. t.copy # NoMarker
    BY <1>0 DEF Tidy, Wrote
  <2> QED
    BY <1>3, <1>a, <1>t, <2>1, ZenonT(40) DEF Tidy, Wrote
<1>7. Announced(c)' <=> Announced(c)
  BY <1>a, NamesIn, ZenonT(40) DEF Announced
<1>8. InTurn(c)'
  <2>1. \A f \in AmiEvent \ {"Hangup"} : Quiet(c, f)'
    BY <1>a DEF Tidy, InTurn, Quiet
  <2> QED
    BY <1>7, <1>a, <2>1, NamesIn DEF Tidy, InTurn
<1>9. (\A w : ~Pending(c, w)) /\ ~Past(c) /\ Past(c)'
  BY <1>3, <1>t DEF Pending, Holding, Past
<1>10. Listed(c)' /\ ToldOnce(c)'
  BY <1>1, <1>9, ZenonT(40) DEF Tidy, Listed, ToldOnce
<1>11. \A l \in Leg : First(c, l)' <=> First(c, l)
  BY <1>0, <1>a DEF SameSent, First, AmiEvent
<1>12. OneFirst(c)'
  BY <1>9, <1>11 DEF Tidy, OneFirst
<1>13. Noted(c)'
  BY <1>1, <1>7, <1>9 DEF Tidy, Noted
<1>14. \A f \in AmiEvent \ {"Hangup"} : task[c, f].at # "set"
  BY <1>3 DEF Holding
<1>15. Of(c, Endings) = {}
  BY DEF Tidy, EndsOnce
<1>16. Reports(c, t.copy.answered \/ t.copy.member, t.copy.missed)
  BY <1>3, <1>6, <1>9, <1>14, NamesIn DEF Tidy, Noted, OneFirst, Reports
<1>17. \A s \in Of(c, Announce) : s.to \in t.copy.webhooks
  BY <1>3, <1>9 DEF Tidy, Listed
<1>18. EndsOnce(c)'
  BY <1>1, <1>11, <1>15, <1>16, <1>17, <1>t, ZenonT(40) DEF EndsOnce, Reports
<1> QED
  BY <1>5, <1>6, <1>8, <1>10, <1>12, <1>13, <1>18 DEF Tidy

\* A step of a handler moves no other task of the call.
LEMMA AloneStep ==
  ASSUME NEW c \in Call, NEW e \in AmiEvent, Stepped(c, e)
  PROVE  Alone(c, e)
BY DEF Stepped, Alone

\* A handler that has not read yet finds the hangup not further.
LEMMA NotPast ==
  ASSUME NEW c \in Call, NEW e \in AmiEvent, Tidy(c), task[c, e].at \in {"match", "get"},
         e # "Hangup"
  PROVE  task[c, "Hangup"].at \notin {"del", "fire", "done"}
BY DEF Tidy, InTurn, Quiet

\* A handler that looks for webhooks leaves its call tidy.
LEMMA MatchTidy ==
  ASSUME TypeOK, HonestInv, NEW c \in Call, NEW e \in AmiEvent,
         Ordered(c), Tidy(c), Match(c, e), Stepped(c, e)
  PROVE  Tidy(c)'
<1>1. task[c, e].at = "match" /\ sent' = sent /\ marker' = marker /\ config' = config
  BY DEF Match
<1>2. e # "Hangup"
  BY <1>1 DEF Ordered, Before
<1>3. PICK t \in Task : task[c, e] = t
  BY TaskTyped
<1>4. task'[c, e].at \in {"get", "done"}
  <2>1. Becomes(c, e, Done(t)) \/ Becomes(c, e, Asked(c, e))
    BY <1>3, MatchTyped
  <2>2. Done(t) \in Task /\ Done(t).at = "done"
    BY DoneTyped
  <2>3. Asked(c, e) \in Task
    BY MatchTyped
  <2>4. Asked(c, e).at = "get"
    BY <1>3 DEF Asked, Task
  <2> QED
    BY <2>1, <2>2, <2>3, <2>4, OneTask
<1>5. SameSent(c)
  BY <1>1 DEF SameSent
<1> QED
  BY <1>1, <1>2, <1>4, <1>5, AloneStep, NotPast, TidyWaits

\* So does one that reads the marker without rivals and without a fault.
LEMMA GetTidy ==
  ASSUME TypeOK, HonestInv, NEW c \in Call, NEW e \in AmiEvent,
         Ordered(c), Tidy(c), Get(c, e), Stepped(c, e), c \notin disturbed'
  PROVE  Tidy(c)'
<1>1. /\ task[c, e].at = "get" /\ sent' = sent /\ marker' = marker /\ config' = config
      /\ SameSent(c) /\ marker[c] \in Marker
  BY DEF Get, SameSent, TypeOK
<1>2. PICK t \in Task : task[c, e] = t
  BY TaskTyped
<1>3. PICK m \in Marker : marker[c] = m
  BY <1>1
<1>4. Rivals(c, e) = {} /\ faults' = faults
  BY DEF Get
<1>5. Becomes(c, e, WithCopy(t, m))
  <2>1. ~Fault
    BY <1>4, WebhookAssumption DEF Fault, TypeOK
  <2> QED
    BY <1>2, <1>3, <2>1 DEF Get
<1>6. Alone(c, e)
  BY AloneStep
<1>7. t.op = "hangup" <=> e = "Hangup"
  BY <1>2, OpOf
<1>8. t.op = "dial" <=> e \in Leg
  BY <1>2, OpOf, ZenonT(40)
<1>9. CASE t.op = "dial" /\ m.direction # "outbound"
  <2>1. WithCopy(t, m) = Done(t) /\ Done(t) \in Task /\ Done(t).at = "done"
    BY <1>9, DoneTyped DEF WithCopy
  <2>2. task'[c, e].at = "done"
    BY <1>5, <2>1, OneTask, ZenonT(40)
  <2>3. e # "Hangup"
    BY <1>7, <1>9
  <2> QED
    BY <1>1, <1>6, <2>2, <2>3, NotPast, TidyWaits
<1>10. CASE t.op = "hangup" /\ m = NoMarker
  <2>1. WithCopy(t, m) = Done(t) /\ Done(t) \in Task /\ Done(t).at = "done"
    BY <1>10, DoneTyped DEF WithCopy
  <2>2. task'[c, e].at = "done"
    BY <1>5, <2>1, OneTask, ZenonT(40)
  <2>3. e = "Hangup"
    BY <1>7, <1>10
  <2>4. Alone(c, "Hangup") /\ Rivals(c, "Hangup") = {}
        /\ task[c, "Hangup"].at = "get" /\ task'[c, "Hangup"].at = "done"
    BY <1>1, <1>4, <1>6, <2>2, <2>3
  <2> QED
    BY <1>1, <1>3, <1>10, <2>4, TidyUntold
<1>11. CASE /\ ~(t.op = "dial" /\ m.direction # "outbound")
            /\ ~(t.op = "hangup" /\ m = NoMarker)
  <2> DEFINE at == CASE t.op = "dial" -> "set"
                     [] t.op = "hangup" -> "del"
                     [] OTHER -> "fire"
             u == [t EXCEPT !.copy = m, !.at = at]
  <2>1. WithCopy(t, m) = u
    BY <1>11 DEF WithCopy
  <2>2. /\ at \in {"set", "del", "fire"}
        /\ at = "set" <=> t.op = "dial"
        /\ at = "del" <=> t.op = "hangup"
    OBVIOUS
  <2> HIDE DEF at
  <2>3. u \in Task /\ u.at = at /\ u.copy = m /\ u.op = t.op
    BY <2>2 DEF Task
  <2>4. task'[c, e].at = at /\ task'[c, e].copy = m /\ task'[c, e].op = t.op
    <3>1. PICK v \in Task : v = u
      BY <2>3
    <3>2. Becomes(c, e, v)
      BY <1>5, <2>1, <3>1
    <3>3. task'[c, e] = v
      BY <3>2, OneTask
    <3> QED
      BY <2>3, <3>1, <3>3
  <2>5. /\ task'[c, e].at \in {"set", "del", "fire"}
        /\ task'[c, e].copy = marker[c] /\ task'[c, e].op = task[c, e].op
        /\ task'[c, e].at = "set" => e \in Leg /\ marker[c].direction = "outbound"
        /\ task'[c, e].at = "del" <=> e = "Hangup"
        /\ task'[c, e].at = "del" => marker[c] # NoMarker
        /\ task'[c, e].at = "fire" => e \notin Leg
    BY <1>2, <1>3, <1>7, <1>8, <1>11, <2>2, <2>4
  <2> QED
    BY <1>1, <1>4, <1>6, <2>5, TidyReads
<1> QED
  BY <1>9, <1>10, <1>11

\* So does one that fires.
LEMMA FireTidy ==
  ASSUME TypeOK, TypeOK', HonestInv, SoundInv, NEW c \in Call, NEW e \in AmiEvent,
         Tidy(c), Fire(c, e), Stepped(c, e)
  PROVE  Tidy(c)'
<1>1. task[c, e].at = "fire" /\ marker' = marker /\ config' = config
  BY DEF Fire
<1>2. PICK t \in Task : task[c, e] = t
  BY TaskTyped
<1>3. Fired(c, e, t) /\ Alone(c, e)
  BY <1>2, FireDoes, AloneStep
<1> DEFINE u == [t EXCEPT !.at = "set"]
           writes == IF t.op \in Announce THEN Targets(t) # {}
                     ELSE t.op \in {"missed", "answered"} /\ t.copy # NoMarker
<1>4. u \in Task /\ Finish(e, t) \in Task /\ Finish(e, t).at \in {"match", "done"}
  BY FinishTyped DEF Task
<1>5. Becomes(c, e, IF writes THEN u ELSE Finish(e, t))
  BY <1>2 DEF Fire
<1>6. task'[c, e] = IF writes THEN u ELSE Finish(e, t)
  BY <1>4, <1>5, OneTask, ZenonT(40)
<1>7. /\ t.op \in Announce <=> e \in {"Newchannel", "QueueCallerJoin"}
      /\ t.op = "missed" <=> e = "QueueCallerAbandon"
      /\ t.op = "answered" <=> e = "AgentConnect"
      /\ t.op = "hangup" <=> e = "Hangup"
      /\ t.op = "dial" <=> e \in Leg
  BY <1>2, OpOf, ZenonT(40)
<1>8. e # "Newchannel" => Finish(e, t).at = "done"
  BY FinishedTask
<1>9. CASE t.op \in Announce
  <2>1. /\ task'[c, e].at \in {"match", "done"} \/ task'[c, e] = u
        /\ Targets(t) # {} => task'[c, e] = u
    BY <1>4, <1>6, <1>9
  <2>2. e \in {"Newchannel", "QueueCallerJoin"} /\ marker'[c] = marker[c] /\ t.at = "fire"
    BY <1>1, <1>2, <1>7, <1>9
  <2> QED
    BY <1>1, <1>2, <1>3, <1>9, <2>1, <2>2, TidyAnnounces
<1>10. CASE t.op \in {"missed", "answered"}
  <2>1. e \in {"QueueCallerAbandon", "AgentConnect"} /\ marker'[c] = marker[c] /\ t.at = "fire"
    BY <1>1, <1>2, <1>7, <1>10
  <2>2. /\ t.copy # NoMarker => task'[c, e] = u
        /\ t.copy = NoMarker => task'[c, e].at = "done"
    BY <1>6, <1>8, <1>10, <2>1 DEF Announce
  <2> QED
    BY <1>1, <1>2, <1>3, <1>7, <2>1, <2>2, TidyTells
<1>11. CASE t.op = "dial"
  <2>1. e \in Leg /\ e # "Newchannel" /\ marker'[c] = marker[c] /\ t.at = "fire"
    BY <1>1, <1>2, <1>7, <1>11, WebhookAssumption
  <2>2. task'[c, e].at = "done"
    BY <1>6, <1>8, <1>11, <2>1 DEF Announce
  <2> QED
    BY <1>1, <1>2, <1>3, <1>11, <2>1, <2>2, TidyAnswers
<1>12. CASE t.op = "hangup"
  <2>1. e = "Hangup" /\ marker'[c] = marker[c] /\ t.at = "fire"
    BY <1>1, <1>2, <1>7, <1>12
  <2>2. task'[c, e].at = "done"
    BY <1>6, <1>8, <1>12, <2>1 DEF Announce
  <2>3. Sound(sent, c, t.copy)
    BY <1>2 DEF SoundInv, TaskSound
  <2>4. /\ task[c, "Hangup"] = t /\ task'[c, "Hangup"].at = "done"
        /\ Fired(c, "Hangup", t) /\ Alone(c, "Hangup")
    BY <1>2, <1>3, <2>1, <2>2
  <2> QED
    BY <1>1, <1>12, <2>1, <2>3, <2>4, TidyEnds
<1> QED
  BY <1>9, <1>10, <1>11, <1>12 DEF Task, Op, Announce

\* So does one whose write succeeds.
LEMMA SetTidy ==
  ASSUME TypeOK, HonestInv, NEW c \in Call, NEW e \in AmiEvent,
         Tidy(c), Set(c, e), Stepped(c, e), c \notin disturbed'
  PROVE  Tidy(c)'
<1>1. task[c, e].at = "set" /\ sent' = sent /\ config' = config
  BY DEF Set
<1>2. PICK t \in Task : task[c, e] = t
  BY TaskTyped
<1>3. Alone(c, e) /\ t.copy \in Marker /\ t.in \in Input
  BY AloneStep DEF Task
<1>4. marker'[c] = Written(t)
  <2>1. marker' = [marker EXCEPT ![c] = Written(t)]
    BY <1>2 DEF Set, Store
  <2> QED
    BY <2>1 DEF TypeOK
<1> DEFINE u == [t EXCEPT !.at = "fire"]
           first == t.op = "dial" /\ t.in.answer /\ ~t.copy.answered
<1>5. u \in Task /\ u.at = "fire" /\ u.op = t.op
      /\ Finish(e, t) \in Task /\ Finish(e, t).at \in {"match", "done"}
  BY FinishTyped DEF Task
<1>6. Becomes(c, e, IF first THEN u ELSE Finish(e, t))
  BY <1>2 DEF Set
<1>7. task'[c, e] = IF first THEN u ELSE Finish(e, t)
  BY <1>5, <1>6, OneTask, ZenonT(40)
<1>8. /\ t.op \in Announce <=> e \in {"Newchannel", "QueueCallerJoin"}
      /\ t.op = "missed" <=> e = "QueueCallerAbandon"
      /\ t.op = "answered" <=> e = "AgentConnect"
      /\ t.op = "hangup" <=> e = "Hangup"
      /\ t.op = "dial" <=> e \in Leg
  BY <1>2, OpOf, ZenonT(40)
<1>9. e # "Newchannel" => Finish(e, t).at = "done"
  BY FinishedTask
<1>10. CASE t.op \in Announce
  <2>1. task'[c, e].at \in {"match", "done"}
    BY <1>5, <1>7, <1>10 DEF Announce
  <2>2. /\ Written(t).webhooks = t.copy.webhooks \cup t.matched
        /\ Written(t).answered = t.copy.answered
    BY <1>3, <1>10 DEF Written, Announce, Marker
  <2>3. e \in {"Newchannel", "QueueCallerJoin"} /\ t.at = "set"
    BY <1>1, <1>2, <1>8, <1>10
  <2> QED
    BY <1>1, <1>2, <1>3, <1>4, <1>10, <2>1, <2>2, <2>3, TidyListed
<1>11. CASE t.op \in {"missed", "answered"}
  <2>1. e \in {"QueueCallerAbandon", "AgentConnect"} /\ t.at = "set" /\ t.op \notin Announce
    BY <1>1, <1>2, <1>8, <1>11 DEF Announce
  <2>2. task'[c, e].at = "done"
    BY <1>7, <1>9, <1>11, <2>1
  <2>3. /\ Written(t).webhooks = t.copy.webhooks
        /\ Written(t).answered = t.copy.answered
        /\ t.op = "answered" => Written(t).member /\ Written(t).missed = t.copy.missed
        /\ t.op = "missed" => Written(t).missed /\ Written(t).member = t.copy.member
    BY <1>3, <1>11 DEF Written, Marker
  <2>4. /\ e = "AgentConnect" => marker'[c].member /\ (t.copy.missed => marker'[c].missed)
        /\ e = "QueueCallerAbandon" =>
             marker'[c].missed /\ (t.copy.member => marker'[c].member)
    BY <1>4, <1>8, <2>3
  <2> QED
    BY <1>1, <1>2, <1>3, <1>4, <2>1, <2>2, <2>3, <2>4, TidyNotes
<1>12. CASE t.op = "dial"
  <2>1. e \in Leg /\ e # "Newchannel" /\ t.at = "set"
    BY <1>1, <1>2, <1>8, <1>12, WebhookAssumption
  <2>2. /\ Written(t).webhooks = t.copy.webhooks
        /\ Written(t).answered = (t.copy.answered \/ t.in.answer)
        /\ Written(t).member = t.copy.member /\ Written(t).missed = t.copy.missed
    BY <1>3, <1>12 DEF Written, Marker
  <2>3. \/ task'[c, e].at = "done"
        \/ /\ task'[c, e].at = "fire" /\ task'[c, e].op = "dial"
           /\ ~t.copy.answered /\ marker'[c].answered
    BY <1>4, <1>5, <1>7, <1>9, <1>12, <2>1, <2>2
  <2>4. /\ marker'[c].webhooks = t.copy.webhooks
        /\ t.copy.answered => marker'[c].answered
        /\ t.copy.member => marker'[c].member
        /\ t.copy.missed => marker'[c].missed
    BY <1>4, <2>2
  <2> QED
    BY <1>1, <1>2, <1>3, <1>12, <2>1, <2>3, <2>4, TidyFirst
<1>13. t.op # "hangup"
  BY <1>1, <1>2 DEF HonestInv, TaskHonest
<1> QED
  BY <1>10, <1>11, <1>12, <1>13 DEF Task, Op, Announce

\* So does a hangup that deletes the marker.
LEMMA DelTidy ==
  ASSUME TypeOK, HonestInv, NEW c \in Call, NEW e \in AmiEvent,
         Tidy(c), Del(c, e), Stepped(c, e)
  PROVE  Tidy(c)'
<1>1. task[c, e].at = "del" /\ sent' = sent /\ config' = config
  BY DEF Del
<1>2. PICK t \in Task : task[c, e] = t
  BY TaskTyped
<1>3. t.op = "hangup"
  BY <1>1, <1>2 DEF HonestInv, TaskHonest
<1>4. e = "Hangup"
  BY <1>2, <1>3, OpOf
<1>5. [t EXCEPT !.at = "fire"] \in Task
  BY DEF Task
<1>6. Becomes(c, e, [t EXCEPT !.at = "fire"])
  BY <1>2 DEF Del
<1>7. task'[c, e] = [t EXCEPT !.at = "fire"]
  BY <1>5, <1>6, OneTask, ZenonT(40)
<1>8. Alone(c, e)
  BY AloneStep
<1>9. /\ task[c, "Hangup"] = t /\ t.at = "del" /\ Alone(c, "Hangup")
      /\ task'[c, "Hangup"] = [t EXCEPT !.at = "fire"]
  BY <1>1, <1>2, <1>4, <1>7, <1>8
<1> QED
  BY <1>1, <1>3, <1>9, TidyClears

\* Every step keeps TidyInv.
LEMMA NextTidy ==
  TypeOK /\ SoundInv /\ HonestInv /\ OrderInv /\ TidyInv /\ [Next]_vars
  => TidyInv'
<1> SUFFICES ASSUME TypeOK, SoundInv, HonestInv, OrderInv, TidyInv, [Next]_vars,
                    NEW c \in Call, c \notin disturbed'
             PROVE  Tidy(c)'
  BY DEF TidyInv
<1>o. TypeOK' /\ OrderInv'
  BY NextType, NextOrder
<1>t. c \notin disturbed => Tidy(c)
  BY DEF TidyInv
<1>r. Ordered(c)
  BY DEF OrderInv
<1>k. ASSUME c \notin disturbed, \A f \in AmiEvent : task'[c, f] = task[c, f],
             marker'[c] = marker[c], config' = config, SameSent(c)
      PROVE  Tidy(c)'
  BY <1>t, <1>k, TidyKept
<1>i. ASSUME chan'[c] = "idle" PROVE Tidy(c)'
  <2>1. IdleIsTidy'
    BY TidyIdle, PTL
  <2> QED
    BY <1>o, <1>i, <2>1 DEF OrderInv, IdleIsTidy
<1>1. ASSUME NEW d \in Call, Asterisk(d) PROVE Tidy(c)'
  <2>1. CASE UNCHANGED <<config, marker, task, sent, disturbed>>
    BY <1>k, <2>1 DEF SameSent
  <2>2. ASSUME NEW e \in AmiEvent, Came(d, e), d # c PROVE Tidy(c)'
    BY <1>k, <2>2 DEF Came, SameSent
  <2>3. ASSUME NEW e \in AmiEvent, Came(c, e), chan[c] # "gone" PROVE Tidy(c)'
    <3>1. /\ c \notin disturbed /\ Alone(c, e) /\ SameSent(c)
          /\ marker'[c] = marker[c] /\ config' = config
          /\ task[c, e].at = "none" /\ task'[c, e].at \in {"get", "match"}
      BY <2>3 DEF Came, Alone, SameSent
    <3>2. task[c, "Hangup"].at = "none"
      BY <1>r, <2>3 DEF Ordered, Before
    <3> QED
      BY <1>t, <3>1, <3>2, TidyWaits
  <2>4. ASSUME NEW e \in AmiEvent, NEW from, NEW to, Goes(d, e, from, to), "gone" \notin from
        PROVE  Tidy(c)'
    BY <2>2, <2>3, <2>4 DEF Goes
  <2> QED
    BY <1>1, <2>1, <2>4, AsteriskDoes, EventsApart
<1>2. ASSUME NEW d \in Call, NEW e \in AmiEvent, Step(d, e) PROVE Tidy(c)'
  <2>1. Stepped(d, e)
    BY <1>2, StepDoes
  <2>2. c \notin disturbed
    BY <2>1 DEF Stepped
  <2>3. CASE d # c
    BY <1>k, <2>1, <2>2, <2>3 DEF Stepped, SameSent
  <2>4. CASE d = c
    <3>1. Step(c, e) /\ Stepped(c, e) /\ Tidy(c)
      BY <1>2, <1>t, <2>1, <2>2, <2>4
    <3> QED
      BY <1>o, <1>r, <3>1, MatchTidy, GetTidy, FireTidy, SetTidy, DelTidy DEF Step
  <2> QED
    BY <2>3, <2>4
<1>3. ASSUME NEW d \in Call, Expire(d) PROVE Tidy(c)'
  BY <1>3, <1>k DEF Expire, SameSent, TypeOK
<1>4. CASE load_config
  <2>1. CASE config' = config
    BY <1>4, <1>k, <2>1 DEF load_config, SameSent
  <2>2. CASE config' # config
    BY <1>4, <1>i, <2>2 DEF load_config
  <2> QED
    BY <2>1, <2>2
<1>5. CASE Stop
  BY <1>5, <1>i DEF Stop
<1>6. CASE UNCHANGED <<config, marker, task, sent, disturbed>>
  BY <1>6, <1>k DEF SameSent
<1> QED
  BY <1>1, <1>2, <1>3, <1>4, <1>5, <1>6 DEF Next, vars, Disconnect, Connect

\* All of it holds initially.
LEMMA InitTidy == Init => MadeInv /\ OrderInv /\ TidyInv
<1> SUFFICES ASSUME Init PROVE MadeInv /\ OrderInv /\ TidyInv
  OBVIOUS
<1>1. MadeInv
  BY DEF Init, MadeInv
<1>2. \A c \in Call : Ordered(c) /\ chan[c] = "idle"
  <2> TAKE c \in Call
  <2>1. \A e \in AmiEvent : task[c, e].at = "none"
    BY InitTask
  <2>2. chan[c] = "idle" /\ sent = {}
    BY DEF Init
  <2> QED
    BY <2>1, <2>2, NamesIn DEF Ordered, Before
<1>3. OrderInv /\ TidyInv
  BY <1>2, TidyIdle DEF OrderInv, TidyInv, IdleIsTidy
<1> QED
  BY <1>1, <1>3

\* What the invariant says of the records of an undisturbed call.
LEMMA TidyTwice == TypeOK /\ MadeInv /\ TidyInv => NothingTwice
<1> SUFFICES ASSUME TypeOK, MadeInv, TidyInv, NEW r \in sent, NEW s \in sent,
                    r.call = s.call, r.to = s.to, r.call \notin disturbed,
                    r.event = s.event \/ {r.event, s.event} \subseteq Announce
             PROVE  r = s
  BY DEF NothingTwice
<1> DEFINE c == r.call
<1>1. c \in Call /\ Tidy(c) /\ r.by \in AmiEvent /\ s.by \in AmiEvent
  BY DEF TidyInv, TypeOK
<1>2. /\ r.event \in Sends(Handler(r.by)) /\ s.event \in Sends(Handler(s.by))
      /\ r.by # "Hangup" => r.answered = FALSE /\ r.missed = FALSE
      /\ s.by # "Hangup" => s.answered = FALSE /\ s.missed = FALSE
  BY DEF MadeInv, TypeOK
<1>3. CASE r.event \in Announce /\ s.event \in Announce
  BY <1>1, <1>3 DEF Tidy, ToldOnce, Of
<1>4. CASE r.event = s.event /\ r.event \notin Announce
  <2>1. \A e \in AmiEvent : \A v \in Sends(Handler(e)) : v \notin Announce =>
          /\ v = "missed" <=> e = "QueueCallerAbandon"
          /\ v = "answered" <=> e = "AgentConnect"
          /\ v = "outgoing_answered" <=> e \in Leg
          /\ v \in Endings <=> e = "Hangup"
    BY WebhookAssumption DEF Sends, Handler, AmiEvent, Announce, Endings
  <2>2. CASE r.by \notin Leg /\ r.by # "Hangup"
    <3>1. r.event \in {"missed", "answered"}
      BY <1>1, <1>2, <1>4, <2>2 DEF Sends, Handler, AmiEvent
    <3>2. r.by = s.by /\ s.by # "Hangup"
      BY <1>1, <1>2, <1>4, <2>1, <3>1
    <3> QED
      BY <1>2, <1>4, <2>2, <3>2, SameRecord
  <2>3. CASE r.by \in Leg
    <3>1. s.by \in Leg /\ r.by # "Hangup" /\ s.by # "Hangup"
      BY <1>1, <1>2, <1>4, <2>1, <2>3, WebhookAssumption
    <3>2. First(c, r.by) /\ First(c, s.by)
      BY DEF First
    <3>3. r.by = s.by
      BY <1>1, <2>3, <3>1, <3>2 DEF Tidy, OneFirst
    <3> QED
      BY <1>2, <1>4, <3>1, <3>3, SameRecord
  <2>4. CASE r.by = "Hangup"
    <3>1. s.by = "Hangup" /\ r \in Of(c, Endings) /\ s \in Of(c, Endings)
      BY <1>1, <1>2, <1>4, <2>1, <2>4 DEF Of
    <3>2. r.answered = s.answered /\ r.missed = s.missed
      BY <1>1, <3>1 DEF Tidy, EndsOnce
    <3> QED
      BY <1>4, <2>4, <3>1, <3>2, SameRecord
  <2> QED
    BY <2>2, <2>3, <2>4
<1> QED
  BY <1>3, <1>4

\* And what it says of their ends.
LEMMA TidyComplete == TypeOK /\ MadeInv /\ TidyInv => EndIsComplete
<1> SUFFICES ASSUME TypeOK, MadeInv, TidyInv, NEW c \in Call \ disturbed,
                    task[c, "Hangup"].at = "done"
             PROVE
    /\ \A w \in DOMAIN config.hooks :
         /\ Told(c, w, Announce)
         /\ \A v \in Webhook :
              /\ Told(c, v, {"incoming"}) => "ended" \in config.hooks[w].events
              /\ Told(c, v, {"outgoing"}) => "outgoing_ended" \in config.hooks[w].events
         => Told(c, w, {"ended", "outgoing_ended"})
    /\ \A s \in sent : s.call = c /\ s.event \in {"ended", "outgoing_ended"} =>
         \A r \in sent : r.call = c =>
           /\ r.event \in {"answered", "outgoing_answered"} => s.answered
           /\ r.event = "missed" => s.missed
  BY DEF EndIsComplete
<1>1. EndsOnce(c)
  BY DEF TidyInv, Tidy
<1>2. EndTold(c)
  BY <1>1 DEF EndsOnce
<1>3. ASSUME NEW s \in sent, s.call = c, s.event \in Endings,
             NEW r \in sent, r.call = c
      PROVE  /\ r.event \in {"answered", "outgoing_answered"} => s.answered
             /\ r.event = "missed" => s.missed
  <2>1. Reports(c, s.answered, s.missed)
    BY <1>1, <1>3 DEF EndsOnce, Of
  <2>2. CASE r.event \in {"answered", "missed"}
    BY <1>3, <2>1, <2>2 DEF Reports, Of
  <2>3. CASE r.event = "outgoing_answered"
    <3>1. r.by \in AmiEvent /\ "outgoing_answered" \in Sends(Handler(r.by))
      BY <2>3 DEF MadeInv, TypeOK
    <3>2. r.by \in Leg
      BY <3>1 DEF Sends, Handler, AmiEvent, Announce
    <3>3. First(c, r.by)
      BY <1>3 DEF First
    <3> QED
      BY <2>1, <2>3, <3>2, <3>3 DEF Reports
  <2> QED
    BY <2>2, <2>3
<1> QED
  BY <1>2, <1>3 DEF EndTold, Told, In, Endings

\* The inductive invariant behind the next two theorems.
LEMMA TidyAlways ==
  Spec => [](TypeOK /\ SoundInv /\ HonestInv /\ MadeInv /\ OrderInv /\ TidyInv)
<1> DEFINE I == TypeOK /\ SoundInv /\ HonestInv /\ MadeInv /\ OrderInv /\ TidyInv
<1>1. Init => I
  BY InitType, InitSound, InitHonest, InitTidy
<1>2. I /\ [Next]_vars => I'
  BY NextType, NextSound, NextHonest, NextMade, NextOrder, NextTidy
<1> QED
  BY <1>1, <1>2, PTL DEF Spec

\* No webhook is told the same thing of an undisturbed call twice, nor of its
\* beginning in both chains.
THEOREM ToldOnceAlways == Spec => []NothingTwice
BY TidyAlways, TidyTwice, PTL

\* After the hangup of an undisturbed call whoever was told of it was told of its
\* end, with the answer and the miss that were told before.
THEOREM EndsAreComplete == Spec => []EndIsComplete
BY TidyAlways, TidyComplete, PTL
=============================================================================
