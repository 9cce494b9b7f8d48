--------------------------- MODULE MCWebhookChain ---------------------------
(* Instances of WebhookChain for TLC. *)
EXTENDS WebhookChain, TLC

CONSTANTS c1, l1, l2, crm, office, trunk, internal, support, staff, alice

OneCall == {c1}
OneLeg == {l1}
TwoLegs == {l1, l2}
Webhooks == {crm, office}
OneContext == {trunk}
TwoContexts == {trunk, internal}
Queues == {support}
Tables == {staff}
Users == {alice}
Symmetry == Permutations(TwoLegs)

Users2Tables == alice :> staff
Inbound == {"incoming", "answered", "missed", "ended"}

\* crm is told of inbound calls by context and queue, office of everything by
\* queue and of employees' calls by routing table.
Crm == [events |-> Inbound, contexts |-> {trunk}, queues |-> {support},
        routing_tables |-> {}]
Office == [events |-> EventName, contexts |-> {}, queues |-> {support},
           routing_tables |-> {staff}]
Both == [hooks |-> crm :> Crm @@ office :> Office, sip_users |-> Users2Tables]

\* Bound: a call that joins a queue has at most one dialled leg.
SecondLegOrQueue ==
  \A c \in Call : task[c, "QueueCallerJoin"].at # "none" =>
    \E l \in Leg : task[c, l].at = "none"

Fixed == {Both}
Removable == {Both, NoConfig}
=============================================================================
