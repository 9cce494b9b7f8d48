----------------------------- MODULE MCDashboard -----------------------------
(* Instances of the five parts of the dashboard listener for TLC.  They share no
   state, so a behaviour is one of one of them, and the others stay as they are. *)
EXTENDS ListenerChannels, ListenerQueues, MissedCalls, AmiReconnect,
  WebhookDelivery

CONSTANTS c1, c2

\* There is room for the trouble that is over when a start says so.
ASSUME DashboardAssumption == MaxTroubles > 0

VARIABLE part     \* the part that runs

Two == {c1, c2}

\* The service has been up for a while: one channel is known everywhere, with its
\* variables.
OneUp == [c \in Chan |-> IF c = c1 THEN [known |-> TRUE, data |-> 0, vars |-> TRUE]
                         ELSE Absent]

ChannelsStart == ChannelsFrom(OneUp)

\* Two troubles when the callers have been and gone, one while they may come.
QueuesStart == QueuesFrom(Caller, 0) \/ QueuesFrom({}, 1)

QueuesQuiet ==
  /\ QueuesInit
  /\ aliased = {} /\ paused = [m \in Member |-> FALSE]

allVars == <<part, chanVars, queueVars, missVars, amiVars, deliveryVars>>

DashboardInit ==
  /\ part \in {"channels", "queues", "missed", "reconnect", "delivery"}
  /\ IF part = "queues" THEN QueuesStart ELSE QueuesQuiet
  /\ ChannelsStart /\ MissInit /\ ReconnectInit /\ DeliveryInit

Rest(v) == UNCHANGED part /\ UNCHANGED v

Channels(A) == part = "channels" /\ A /\ Rest(<<queueVars, missVars, amiVars, deliveryVars>>)
Queues(A) == part = "queues" /\ A /\ Rest(<<chanVars, missVars, amiVars, deliveryVars>>)
Missed(A) == part = "missed" /\ A /\ Rest(<<chanVars, queueVars, amiVars, deliveryVars>>)
Reconnect(A) == part = "reconnect" /\ A /\ Rest(<<chanVars, queueVars, missVars, deliveryVars>>)
Delivery(A) == part = "delivery" /\ A /\ Rest(<<chanVars, queueVars, missVars, amiVars>>)

DashboardNext ==
  \/ Channels(ChannelsNext)
  \/ Queues(QueuesNext)
  \/ Missed(MissNext)
  \/ Reconnect(ReconnectNext)
  \/ Delivery(DeliveryNext)

\* The fairness of each part, where that part runs.
DashboardFairness ==
  /\ \A i \in Id : WF_allVars(Channels(TaskStep(i)))
  /\ WF_allVars(Channels(Tick)) /\ WF_allVars(Channels(TickWritten))
  /\ WF_allVars(Channels(Attach)) /\ WF_allVars(Channels(Announce))
  /\ WF_allVars(Missed(Flush)) /\ WF_allVars(Missed(Posted))
  /\ WF_allVars(Missed(Stopped))
  /\ WF_allVars(Reconnect(Connect)) /\ WF_allVars(Reconnect(Feed))
  /\ WF_allVars(Reconnect(LeaveLoop))
  /\ WF_allVars(Reconnect(PingStart)) /\ WF_allVars(Reconnect(PingEnd))
  /\ \A e \in Events : WF_allVars(Delivery(GoesOn(e)))

DashboardSpec == DashboardInit /\ [][DashboardNext]_allVars /\ DashboardFairness

\* The queues alone.
QueuesOnlySpec == DashboardInit /\ part = "queues" /\ [][DashboardNext]_allVars

\* The type invariants of the parts.
DashboardTypeOK ==
  ChannelsTypeOK /\ QueuesTypeOK /\ MissTypeOK /\ ReconnectTypeOK /\ DeliveryTypeOK

\* Whatever was under way comes to its end: the snapshot is the memory's, the missed
\* calls are told, the listener is connected, the webhooks are sent or given up.
EverythingSettles ==
  SnapshotConverges /\ MissesAreReported /\ ComesBack /\ EveryEventSettles
=============================================================================
