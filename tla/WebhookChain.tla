----------------------------- MODULE WebhookChain -----------------------------
(***************************************************************************)
(* What the dashboard listener tells CRM systems about calls               *)
(* (services/dashboard/webhook_sender.py).  Two chains of events:          *)
(*   inbound   incoming -> answered / missed -> ended                      *)
(*   outbound  outgoing -> outgoing_answered -> outgoing_ended             *)
(* The marker webhook:notified:U in Redis remembers who was told that call *)
(* U began, and what happened to it since.  Every AMI event is handled by  *)
(* an asyncio task of its own, which reads the marker, fires webhooks and  *)
(* writes the marker back; the tasks of a call overtake each other at      *)
(* every await.  One action is one Redis command of a task, or what it     *)
(* does between two of them.  Firing hands an event to a delivery task;    *)
(* the delivery itself is not modelled.  Asterisk and Redis are external.  *)
(***************************************************************************)
EXTENDS Naturals

CONSTANTS
  Call,       \* calls, by the uniqueid of their channel
  Leg,        \* dialled legs of a call; bound: each ends at most once
  Webhook,    \* names of webhooks
  Context, Queue, Table,
  Endpoint,   \* endpoints of SIP users
  Nobody,     \* the channel is no user's, or its exten is not a dialled number
  Configs,    \* what load_config may find
  MaxFaults   \* bound: failed commands, expired markers and outages

EventName == {"incoming", "answered", "missed", "ended",
              "outgoing", "outgoing_answered", "outgoing_ended"}
Hook == [events : SUBSET EventName,
         contexts : SUBSET Context, queues : SUBSET Queue,
         routing_tables : SUBSET Table]

\* The active webhooks by name, and the routing tables of the SIP users.
IsConfig(k) ==
  /\ DOMAIN k.hooks \subseteq Webhook
  /\ k.hooks \in [DOMAIN k.hooks -> Hook]
  /\ DOMAIN k.sip_users \subseteq Endpoint
  /\ k.sip_users \in [DOMAIN k.sip_users -> Table]
NoConfig == LET none == [x \in {} |-> x] IN [hooks |-> none, sip_users |-> none]

AmiEvent == {"Newchannel", "QueueCallerJoin", "QueueCallerAbandon",
             "AgentConnect", "Hangup"} \cup Leg

ASSUME WebhookAssumption ==
  /\ Leg \cap {"Newchannel", "QueueCallerJoin", "QueueCallerAbandon",
               "AgentConnect", "Hangup"} = {}
  /\ Nobody \notin Endpoint
  /\ \A k \in Configs : IsConfig(k)
  /\ MaxFaults \in Nat

VARIABLES
  chan,       \* where a call is in Asterisk
  listener,   \* running, cut off from the AMI, or not running
  config,     \* self.webhooks and self.sip_users
  marker,     \* webhook:notified:U
  task,       \* the handlers of AMI events
  sent,       \* history: what was fired
  disturbed,  \* history: calls whose handlers or commands got in trouble
  faults

vars == <<chan, listener, config, marker, task, sent, disturbed, faults>>

\* No key.  An absent field of the JSON reads as "none" or FALSE.
NoMarker == [webhooks |-> {}, direction |-> "none", answered |-> FALSE,
             member |-> FALSE, missed |-> FALSE]
Marker == [webhooks : SUBSET Webhook, direction : {"none", "inbound", "outbound"},
           answered : BOOLEAN,   \* answered_at
           member : BOOLEAN,     \* answered_by_member
           missed : BOOLEAN]

\* What an AMI event brings: contexts and queues it may match, the endpoint of
\* the channel, DialStatus = "ANSWER".
Input == [contexts : SUBSET Context, queues : SUBSET Queue,
          caller : Endpoint \cup {Nobody}, answer : BOOLEAN]
NoInput == [contexts |-> {}, queues |-> {}, caller |-> Nobody, answer |-> FALSE]

Op == {"incoming", "outgoing", "missed", "answered", "dial", "hangup"}
Announce == {"incoming", "outgoing"}
Task == [at : {"none", "match", "get", "fire", "set", "del", "done"},
         op : Op, in : Input, matched : SUBSET Webhook, copy : Marker]

\* One invariant for the types of the variables.
TypeOK ==
  /\ chan \in [Call -> {"idle", "up", "queued", "past", "left", "gone"}]
  /\ listener \in {"on", "deaf", "off"}
  /\ config \in Configs \cup {NoConfig}
  /\ marker \in [Call -> Marker]
  /\ task \in [Call \X AmiEvent -> Task]
  /\ sent \subseteq [call : Call, by : AmiEvent, to : Webhook, event : EventName,
                     answered : BOOLEAN, missed : BOOLEAN]
  /\ disturbed \subseteq Call
  /\ faults \in 0 .. MaxFaults

\* The method of WebhookManager that the handler of an event calls first.
Handler(e) == CASE e \in {"Newchannel", "QueueCallerJoin"} -> "incoming"
                [] e = "QueueCallerAbandon" -> "missed"
                [] e = "AgentConnect" -> "answered"
                [] e = "Hangup" -> "hangup"
                [] OTHER -> "dial"

Init ==
  /\ chan = [c \in Call |-> "idle"]
  /\ listener = "on"
  /\ config = NoConfig
  /\ marker = [c \in Call |-> NoMarker]
  /\ task = [ce \in Call \X AmiEvent |->
               [at |-> "none", op |-> Handler(ce[2]), in |-> NoInput,
                matched |-> {}, copy |-> NoMarker]]
  /\ sent = {}
  /\ disturbed = {}
  /\ faults = 0

Becomes(c, e, t) == task' = [task EXCEPT ![<<c, e>>] = t]

Fault ==
  /\ faults < MaxFaults
  /\ faults' = faults + 1

-----------------------------------------------------------------------------
(* Asterisk.  The listener has a task for every event it hears. *)

Arrive(c, e, in) ==
  /\ task[c, e].at = "none"
  /\ Becomes(c, e, [task[c, e] EXCEPT
       !.at = IF listener # "on" THEN "done"
              ELSE IF e = "Hangup" THEN "get" ELSE "match",
       !.in = in])
  /\ disturbed' = IF listener = "on" THEN disturbed ELSE disturbed \cup {c}
  /\ UNCHANGED <<listener, config, marker, sent, faults>>

Move(c, from, to) ==
  /\ chan[c] \in from
  /\ chan' = [chan EXCEPT ![c] = to]

Newchannel(c) ==
  /\ Move(c, {"idle"}, "up")
  /\ \E x \in Context, u \in Endpoint \cup {Nobody} :
       Arrive(c, "Newchannel", [NoInput EXCEPT !.contexts = {x}, !.caller = u])

\* Bound: a call joins one queue once.
QueueCallerJoin(c) ==
  /\ Move(c, {"up"}, "queued")
  /\ \E x \in Context, q \in Queue :
       Arrive(c, "QueueCallerJoin", [NoInput EXCEPT !.contexts = {x}, !.queues = {q}])

QueueCallerAbandon(c) ==
  /\ Move(c, {"queued"}, "left")
  /\ Arrive(c, "QueueCallerAbandon",
            [NoInput EXCEPT !.queues = task[c, "QueueCallerJoin"].in.queues])

AgentConnect(c) ==
  /\ Move(c, {"queued"}, "past")
  /\ Arrive(c, "AgentConnect",
            [NoInput EXCEPT !.queues = task[c, "QueueCallerJoin"].in.queues])

\* The queue gives up; handle_queue_caller_leave tells no webhook.
QueueTimeout(c) ==
  /\ Move(c, {"queued"}, "past")
  /\ UNCHANGED <<listener, config, marker, task, sent, disturbed, faults>>

DialEnd(c, l) ==
  /\ chan[c] \in {"up", "queued", "past"}
  /\ \E b \in BOOLEAN : Arrive(c, l, [NoInput EXCEPT !.answer = b])
  /\ UNCHANGED chan

Hangup(c) ==
  /\ Move(c, {"up", "past", "left"}, "gone")
  /\ Arrive(c, "Hangup", NoInput)

-----------------------------------------------------------------------------
(* The steps of a handler. *)

Enabled == DOMAIN config.hooks # {}

\* The names of the webhooks that _match returns for a task.
Matching(op, in) ==
  {w \in DOMAIN config.hooks :
     /\ op \in config.hooks[w].events
     /\ IF op = "outgoing"
        THEN /\ in.caller \in DOMAIN config.sip_users
             /\ config.sip_users[in.caller] \in config.hooks[w].routing_tables
        ELSE \/ op = "incoming" /\ in.contexts \cap config.hooks[w].contexts # {}
             \/ in.queues \cap config.hooks[w].queues # {}}

\* Mutant of Subscribed: whoever subscribes to the event, told of the call or not.
Subscribed_anyone(m, key) == {w \in DOMAIN config.hooks : key \in config.hooks[w].events}

\* The webhooks in a marker that are still configured and want an event.
Subscribed(m, key) ==
  {w \in m.webhooks \cap DOMAIN config.hooks : key \in config.hooks[w].events}

\* The handler of Newchannel announces a call as incoming, then as outgoing.
AfterIncoming(e, op) == e = "Newchannel" /\ op = "incoming"
Done(t) == [t EXCEPT !.at = "done", !.matched = {}, !.copy = NoMarker]
Finish(e, t) == IF AfterIncoming(e, t.op)
                THEN [Done(t) EXCEPT !.at = "match", !.op = "outgoing"]
                ELSE Done(t)

\* Leave a handler that is disabled or has nobody to tell, or ask for the marker.
Match(c, e) ==
  LET t == task[c, e]
      op == IF AfterIncoming(e, t.op) /\ Matching("incoming", t.in) = {}
            THEN "outgoing" ELSE t.op
      m == Matching(op, t.in)
  IN /\ t.at = "match"
     /\ Becomes(c, e, IF Enabled /\ (op \in Announce => m # {})
                      THEN [t EXCEPT !.at = "get", !.op = op, !.matched = m]
                      ELSE Done(t))
     /\ UNCHANGED <<chan, listener, config, marker, sent, disturbed, faults>>

\* Handlers whose write is still to come, and those of earlier events that have
\* not read the marker yet.
Rank(e) == CASE e = "Newchannel" -> 0
             [] e = "QueueCallerJoin" -> 1
             [] e = "Hangup" -> 3
             [] OTHER -> 2
Holding(t) == \/ t.at \in {"set", "del"}
              \/ t.at = "fire" /\ t.op \notin {"dial", "hangup"}
Rivals(c, e) == {r \in AmiEvent \ {e} :
  \/ Holding(task[c, r])
  \/ task[c, r].at \in {"match", "get"} /\ Rank(r) < Rank(e)}

\* What a handler does with the marker it has read: nothing, if it is a DialEnd
\* that finds no outbound call or a Hangup that finds none.
WithCopy(t, m) ==
  IF \/ t.op = "dial" /\ m.direction # "outbound"
     \/ t.op = "hangup" /\ m = NoMarker
  THEN Done(t)
  ELSE [t EXCEPT !.copy = m, !.at = CASE t.op = "dial" -> "set"
                                      [] t.op = "hangup" -> "del"
                                      [] OTHER -> "fire"]

\* GET: a command that fails reads as an absent marker.
Get(c, e) ==
  /\ task[c, e].at = "get"
  /\ \/ Becomes(c, e, WithCopy(task[c, e], marker[c])) /\ UNCHANGED faults
     \/ Becomes(c, e, WithCopy(task[c, e], NoMarker)) /\ Fault
  /\ disturbed' = IF Rivals(c, e) # {} \/ faults' # faults
                  THEN disturbed \cup {c} ELSE disturbed
  /\ UNCHANGED <<chan, listener, config, marker, sent>>

\* Mutants of Written: the event's name as direction; any DialEnd counts as an
\* answer; an announcement lists only the webhooks it has just told.
Written_named(t) ==
  CASE t.op \in Announce -> [t.copy EXCEPT !.webhooks = @ \cup t.matched,
                                           !.direction = t.op]
    [] t.op = "missed" -> [t.copy EXCEPT !.missed = TRUE]
    [] t.op = "answered" -> [t.copy EXCEPT !.member = TRUE]
    [] OTHER -> [t.copy EXCEPT !.answered = @ \/ t.in.answer]
Written_anyDialEnd(t) ==
  CASE t.op \in Announce -> [t.copy EXCEPT !.webhooks = @ \cup t.matched,
         !.direction = IF t.op = "incoming" THEN "inbound" ELSE "outbound"]
    [] t.op = "missed" -> [t.copy EXCEPT !.missed = TRUE]
    [] t.op = "answered" -> [t.copy EXCEPT !.member = TRUE]
    [] OTHER -> [t.copy EXCEPT !.answered = TRUE]
Written_forgetful(t) ==
  CASE t.op \in Announce -> [t.copy EXCEPT !.webhooks = t.matched \ @,
         !.direction = IF t.op = "incoming" THEN "inbound" ELSE "outbound"]
    [] t.op = "missed" -> [t.copy EXCEPT !.missed = TRUE]
    [] t.op = "answered" -> [t.copy EXCEPT !.member = TRUE]
    [] OTHER -> [t.copy EXCEPT !.answered = @ \/ t.in.answer]

\* The marker that a handler writes over the one it has read.
Written(t) ==
  CASE t.op = "incoming" -> [t.copy EXCEPT !.webhooks = @ \cup t.matched,
                                           !.direction = "inbound"]
    [] t.op = "outgoing" -> [t.copy EXCEPT !.webhooks = @ \cup t.matched,
                                           !.direction = "outbound"]
    [] t.op = "missed" -> [t.copy EXCEPT !.missed = TRUE]
    [] t.op = "answered" -> [t.copy EXCEPT !.member = TRUE]
    [] OTHER -> [t.copy EXCEPT !.answered = @ \/ t.in.answer]

\* The event a handler fires, and the webhooks it fires it for.
Event(t) ==
  CASE t.op = "dial" -> "outgoing_answered"
    [] t.op = "hangup" -> IF t.copy.direction = "outbound"
                          THEN "outgoing_ended" ELSE "ended"
    [] OTHER -> t.op
\* Mutant of Targets: an announcement goes to every webhook that matches.
Targets_again(t) ==
  IF t.op \in Announce \cup {"missed", "answered"} THEN t.matched
  ELSE Subscribed(t.copy, Event(t))
Targets(t) ==
  CASE t.op \in Announce -> t.matched \ t.copy.webhooks
    [] t.op \in {"missed", "answered"} -> t.matched
    [] OTHER -> Subscribed(t.copy, Event(t))

Fire(c, e) ==
  LET t == task[c, e]
      writes == IF t.op \in Announce THEN Targets(t) # {}
                ELSE t.op \in {"missed", "answered"} /\ t.copy # NoMarker
  IN /\ t.at = "fire"
     /\ sent' = sent \cup
          {[call |-> c, by |-> e, to |-> w, event |-> Event(t),
            answered |-> t.op = "hangup" /\ (t.copy.answered \/ t.copy.member),
            missed |-> t.op = "hangup" /\ t.copy.missed] : w \in Targets(t)}
     /\ Becomes(c, e, IF writes THEN [t EXCEPT !.at = "set"] ELSE Finish(e, t))
     /\ UNCHANGED <<chan, listener, config, marker, disturbed, faults>>

\* SETEX or DEL of the marker: done, or failed and logged.
Store(c, m) ==
  \/ /\ marker' = [marker EXCEPT ![c] = m]
     /\ UNCHANGED <<disturbed, faults>>
  \/ /\ Fault
     /\ disturbed' = disturbed \cup {c}
     /\ UNCHANGED marker

\* The first answer of an outbound call is still to be fired.
Set(c, e) ==
  LET t == task[c, e] IN
  /\ t.at = "set"
  /\ Store(c, Written(t))
  /\ Becomes(c, e, IF t.op = "dial" /\ t.in.answer /\ ~t.copy.answered
                   THEN [t EXCEPT !.at = "fire"] ELSE Finish(e, t))
  /\ UNCHANGED <<chan, listener, config, sent>>

Del(c, e) ==
  /\ task[c, e].at = "del"
  /\ Store(c, NoMarker)
  /\ Becomes(c, e, [task[c, e] EXCEPT !.at = "fire"])
  /\ UNCHANGED <<chan, listener, config, sent>>

-----------------------------------------------------------------------------
(* Configuration, expiry, outages. *)

\* What the key holds is the CRM administrator's affair; an unreadable or
\* unchanged value leaves the configuration as it is.
load_config ==
  /\ listener # "off"
  /\ config' \in Configs
  /\ disturbed' = IF config' = config THEN disturbed
                  ELSE disturbed \cup {c \in Call : chan[c] # "idle"}
  /\ UNCHANGED <<chan, listener, marker, task, sent, faults>>

\* NOTIFIED_TTL has passed since the last write.
Expire(c) ==
  /\ marker[c] # NoMarker
  /\ Fault
  /\ marker' = [marker EXCEPT ![c] = NoMarker]
  /\ disturbed' = disturbed \cup {c}
  /\ UNCHANGED <<chan, listener, config, task, sent>>

\* The AMI connection is lost: events are missed, tasks go on.
Disconnect ==
  /\ listener = "on"
  /\ Fault
  /\ listener' = "deaf"
  /\ UNCHANGED <<chan, config, marker, task, sent, disturbed>>

\* The process ends, and its tasks with it.
Stop ==
  /\ listener # "off"
  /\ Fault
  /\ listener' = "off"
  /\ config' = NoConfig
  /\ task' = [ce \in Call \X AmiEvent |->
               IF task[ce].at = "none" THEN task[ce]
               ELSE Done(task[ce])]
  /\ disturbed' = disturbed \cup {c \in Call : chan[c] # "idle"}
  /\ UNCHANGED <<chan, marker, sent>>

\* Reconnect, or start; then load_config.
Connect ==
  /\ listener # "on"
  /\ listener' = "on"
  /\ UNCHANGED <<chan, config, marker, task, sent, disturbed, faults>>

-----------------------------------------------------------------------------
Asterisk(c) ==
  \/ Newchannel(c) \/ QueueCallerJoin(c) \/ QueueCallerAbandon(c)
  \/ AgentConnect(c) \/ QueueTimeout(c) \/ Hangup(c)
  \/ \E l \in Leg : DialEnd(c, l)

Step(c, e) == Match(c, e) \/ Get(c, e) \/ Fire(c, e) \/ Set(c, e) \/ Del(c, e)

Next ==
  \/ \E c \in Call : Asterisk(c) \/ Expire(c)
  \/ \E c \in Call, e \in AmiEvent : Step(c, e)
  \/ load_config \/ Disconnect \/ Stop \/ Connect

Spec == Init /\ [][Next]_vars

-----------------------------------------------------------------------------
(* Properties. *)

Told(c, w, names) ==
  \E s \in sent : s.call = c /\ s.to = w /\ s.event \in names

\* A webhook is told that a call has ended, or that an outgoing call is answered,
\* only if it was told that the call began; and an event that closes a chain is
\* sent only for a call that was announced in that chain, if to another webhook.
\* Handlers may overlap, commands fail and configurations change in any way.
OnlyAnnounced ==
  \A s \in sent :
    /\ s.event \in {"ended", "outgoing_answered", "outgoing_ended"} =>
         Told(s.call, s.to, Announce)
    /\ s.event = "ended" => \E w \in Webhook : Told(s.call, w, {"incoming"})
    /\ s.event \in {"outgoing_answered", "outgoing_ended"} =>
         \E w \in Webhook : Told(s.call, w, {"outgoing"})

\* What an end event reports did happen: "answered" only if a leg answered or an
\* agent was connected, "missed" only if the caller left the queue; and
\* outgoing_answered is sent by the handler of an answered leg.
ReportsTruth ==
  \A s \in sent :
    /\ s.answered => \/ \E l \in Leg : task[s.call, l].in.answer
                     \/ task[s.call, "AgentConnect"].at # "none"
    /\ s.missed => task[s.call, "QueueCallerAbandon"].at # "none"
    /\ s.event = "outgoing_answered" => task[s.call, s.by].in.answer

\* If the handlers of a call ran one after the other in the order of their events
\* and no command failed, then after the hangup every webhook that was told of
\* the call has been told of its end, unless it does not want the end event of a
\* chain the call was announced in; and the end event reports the answer and the
\* miss that were announced before it.
EndIsComplete ==
  \A c \in Call \ disturbed : task[c, "Hangup"].at = "done" =>
    /\ \A w \in DOMAIN config.hooks :
         /\ Told(c, w, Announce)
         /\ \A v \in Webhook :
              /\ Told(c, v, {"incoming"}) => "ended" \in config.hooks[w].events
              /\ Told(c, v, {"outgoing"}) => "outgoing_ended" \in config.hooks[w].events
         => Told(c, w, {"ended", "outgoing_ended"})
    /\ \A s \in sent : s.call = c /\ s.event \in {"ended", "outgoing_ended"} =>
         \A r \in sent : r.call = c =>
           /\ r.event \in {"answered", "outgoing_answered"} => s.answered
           /\ r.event = "missed" => s.missed

\* Under the same conditions no webhook is told the same thing twice, whether two
\* AMI events announce the call or two legs of it answer; and none is told of the
\* beginning in both chains.
NothingTwice ==
  \A r, s \in sent :
    /\ r.call = s.call /\ r.to = s.to /\ r.call \notin disturbed
    /\ r.event = s.event \/ {r.event, s.event} \subseteq Announce
    => r = s

\* A call in the outbound chain ends with outgoing_ended, never with ended
\* (docs/en/crm-integration.md:53).
OutgoingNeverEndsInbound ==
  \A s \in sent : s.event = "ended" => ~Told(s.call, s.to, {"outgoing"})

=============================================================================
