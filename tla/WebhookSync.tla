------------------------------ MODULE WebhookSync ------------------------------
(***************************************************************************)
(* How the webhooks come from the database to the key webhooks:config that *)
(* the dashboard listener reads (apps/webhooks: models.py, admin.py,       *)
(* signals.py, sync.py).  Signals serialize the whole configuration        *)
(* whenever a webhook or a SIP user is saved or deleted: inside the        *)
(* transaction in the admin, after the commit in the API.  Requests        *)
(* overlap, so a configuration that was read earlier may be written later; *)
(* names, queues and transports change without a signal.                   *)
(***************************************************************************)
EXTENDS Naturals, FiniteSets, Functions, Maps

CONSTANTS
  Editor,     \* requests that are being served
  Webhook, User,
  Context, RoutingTable, Queue, SipTransport,
  Form,        \* what staff submits for a webhook: [events, keys]
  MaxChanges   \* bound: changes

Key == Context \cup RoutingTable \cup Queue

Inbound == {"incoming", "ended", "missed", "answered"}
Outgoing == {"outgoing", "outgoing_answered", "outgoing_ended"}
Forms == [events : SUBSET (Inbound \cup Outgoing), keys : SUBSET Key]

ASSUME SyncAssumption == Form \subseteq Forms /\ MaxChanges \in Nat

VARIABLES
  db,       \* what is committed
  redis,    \* webhooks:config
  change,   \* what each request is about to commit
  pc,       \* where it is: "idle", "saved", "read", "written"
  stage,    \* of a webhook: its row, then its filters
  snapshot, \* what it has serialized
  stale,     \* whether another request has committed since it read
  changes,  \* how many changes were made
  excuse    \* history: why redis may differ from the database

syncVars == <<db, redis, change, pc, stage, snapshot, stale, changes, excuse>>

NoChange == [op |-> "none"]
Ops ==
  {[op |-> "webhook", row |-> w, form |-> f] : w \in Webhook, f \in Form}
    \cup {[op |-> "unhook", row |-> w] : w \in Webhook}
    \cup {[op |-> "user", row |-> u, table |-> t, transport |-> x]
            : u \in User, t \in RoutingTable, x \in SipTransport}
    \cup {[op |-> "leave", row |-> u] : u \in User}

\* WebhookAdminForm.clean.
FormAccepts(f) ==
  /\ f.keys # {}
  /\ f.events \cap Inbound # {} => f.keys \cap (Context \cup Queue) # {}
  /\ f.events \cap Outgoing # {} => f.keys \cap RoutingTable # {}
  /\ "ended" \in f.events => "incoming" \in f.events
  /\ f.events \cap {"missed", "answered"} # {} => f.keys \cap Queue # {}
  /\ f.events \cap {"outgoing_answered", "outgoing_ended"} # {} => "outgoing" \in f.events

-----------------------------------------------------------------------------

KeysOf(d, w) == IF w \in DOMAIN d.webhooks THEN d.webhooks[w].keys ELSE {}

\* The database with a request's change; a webhook's row comes before its filters.
Applied(d, c, s) ==
  CASE c.op = "webhook" ->
         [d EXCEPT !.webhooks = With(@, c.row,
            [events |-> c.form.events,
             keys |-> IF s = 1 THEN KeysOf(d, c.row) ELSE c.form.keys])]
    [] c.op = "unhook" -> [d EXCEPT !.webhooks = Without(@, c.row)]
    [] c.op = "user" ->
         [d EXCEPT !.users = With(@, c.row, [table |-> c.table, transport |-> c.transport])]
    [] c.op = "leave" -> [d EXCEPT !.users = Without(@, c.row)]
    [] OTHER -> d

\* The database as a request's transaction has it.
View(r) == Applied(db, change[r], stage[r])

\* Mutant of Seen: the configuration is read outside the transaction.
SeenCommitted(r) == db

\* What the signal handler reads: it runs in the request's transaction.
Seen(r) == View(r)

\* serialize_webhooks: the active webhooks with the names in their filters, the
\* table of each user, and the users on wss.
Serialized(d) ==
  [webhooks |-> [w \in DOMAIN d.webhooks |->
                   [events |-> d.webhooks[w].events,
                    names |-> {<<k, d.names[k]>> : k \in d.webhooks[w].keys}]],
   users |-> [u \in DOMAIN d.users |-> <<d.users[u].table, d.names[d.users[u].table]>>],
   webrtc |-> {u \in DOMAIN d.users : d.users[u].transport \in d.wss}]

Empty == [webhooks |-> << >>, users |-> << >>, wss |-> {},
          names |-> [k \in Key |-> 0]]

\* One invariant for the types of the variables.
SyncTypeOK ==
  /\ \A w \in DOMAIN db.webhooks : w \in Webhook /\ db.webhooks[w] \in Forms
  /\ \A u \in DOMAIN db.users : u \in User /\ db.users[u].table \in DOMAIN db.names
  /\ db.wss \subseteq SipTransport
  /\ DOMAIN db.names \subseteq Key /\ Range(db.names) \subseteq {0, 1}
  /\ \A r \in Editor : change[r].op = "done" \/ change[r] \in Ops \cup {NoChange}
  /\ pc \in [Editor -> {"idle", "saved", "read", "written"}]
  /\ stage \in [Editor -> 1 .. 2] /\ stale \in [Editor -> BOOLEAN]
  /\ changes \in 0 .. MaxChanges
  /\ excuse \subseteq {"crossed", "failed", "rolled back", "unwatched"}

SyncInit ==
  /\ db = Empty /\ redis = Serialized(Empty)
  /\ change = [r \in Editor |-> NoChange]
  /\ pc = [r \in Editor |-> "idle"]
  /\ stage = [r \in Editor |-> 1]
  /\ snapshot = [r \in Editor |-> redis]
  /\ stale = [r \in Editor |-> FALSE]
  /\ changes = 0 /\ excuse = {}

Others(r) == Editor \ {r}
CountedChange == changes < MaxChanges /\ changes' = changes + 1

\* A row that exists, or a new one; two requests do not hold the lock of one row.
Possible(c) ==
  /\ c.op = "webhook" => FormAccepts(c.form) /\ c.form.keys \subseteq DOMAIN db.names
  /\ c.op = "unhook" => c.row \in DOMAIN db.webhooks
  /\ c.op = "user" => c.table \in DOMAIN db.names
  /\ c.op = "leave" => c.row \in DOMAIN db.users
  /\ \A s \in Editor : change[s] # NoChange => change[s].row # c.row

\* The row is saved or deleted, and the signal has fired: in the admin's transaction.
SaveRow(r, c) ==
  /\ pc[r] = "idle" /\ Possible(c) /\ CountedChange
  /\ change' = [change EXCEPT ![r] = c]
  /\ pc' = [pc EXCEPT ![r] = "saved"]
  /\ stage' = [stage EXCEPT ![r] = 1]
  /\ stale' = [stale EXCEPT ![r] = FALSE]
  /\ UNCHANGED <<db, redis, snapshot, excuse>>

\* Readers of before this commit are late.
Overtakes(r) == stale' = [s \in Editor |-> stale[s] \/ (s # r /\ pc[s] = "read")]

\* The API saves a user and has committed when the signal fires.
SaveUsername(r, c) ==
  /\ pc[r] = "idle" /\ c.op \in {"user", "leave"} /\ Possible(c) /\ CountedChange
  /\ db' = Applied(db, c, 1)
  /\ change' = [change EXCEPT ![r] = [op |-> "done", row |-> c.row]]
  /\ pc' = [pc EXCEPT ![r] = "saved"]
  /\ Overtakes(r)
  /\ UNCHANGED <<redis, stage, snapshot, excuse>>

\* serialize_webhooks.
Serialize(r) ==
  /\ pc[r] = "saved"
  /\ snapshot' = [snapshot EXCEPT ![r] = Serialized(Seen(r))]
  /\ pc' = [pc EXCEPT ![r] = "read"]
  /\ stale' = [stale EXCEPT ![r] = FALSE]
  /\ UNCHANGED <<db, redis, change, stage, changes, excuse>>

\* What is written may be older than what is committed, or take away what another
\* request has written and is about to commit.
Crossed(r) == stale[r] \/ \E s \in Others(r) : pc[s] \in {"read", "written"}

\* SET: the configuration is that of the database again, unless requests cross.
WriteConfig(r) ==
  /\ pc[r] = "read"
  /\ redis' = snapshot[r]
  /\ pc' = [pc EXCEPT ![r] = "written"]
  /\ excuse' = IF Crossed(r) THEN excuse \cup {"crossed"} ELSE {}
  /\ UNCHANGED <<db, change, stage, snapshot, stale, changes>>

\* Redis does not answer: the failure is logged.
WriteConfigFails(r) ==
  /\ pc[r] = "read"
  /\ pc' = [pc EXCEPT ![r] = "written"]
  /\ excuse' = excuse \cup {"failed"}
  /\ UNCHANGED <<db, redis, change, stage, snapshot, stale, changes>>

\* save_related: the filters of the webhook are set, and the signal fires again.
SaveFilters(r) ==
  /\ pc[r] = "written" /\ change[r].op = "webhook" /\ stage[r] = 1
  /\ stage' = [stage EXCEPT ![r] = 2]
  /\ pc' = [pc EXCEPT ![r] = "saved"]
  /\ UNCHANGED <<db, redis, change, snapshot, stale, changes, excuse>>

FinishChange(r) == /\ pc' = [pc EXCEPT ![r] = "idle"]
             /\ change' = [change EXCEPT ![r] = NoChange]

\* The transaction is committed; for the API there is nothing left to commit.
CommitChange(r) ==
  /\ pc[r] = "written" /\ (change[r].op = "webhook" => stage[r] = 2)
  /\ db' = View(r)
  /\ FinishChange(r) /\ Overtakes(r)
  /\ UNCHANGED <<redis, stage, snapshot, changes, excuse>>

\* The request fails, or its process dies: what it has written stays in Redis.
RollBack(r) ==
  /\ pc[r] # "idle"
  /\ FinishChange(r)
  /\ excuse' = excuse \cup {"rolled back"}
  /\ UNCHANGED <<db, redis, stage, snapshot, stale, changes>>

Quiet == \A r \in Editor : pc[r] = "idle"

\* Mutant of MayDrop: nothing keeps a context or a table in a filter.
MayDropAnyhow(k) == \A u \in DOMAIN db.users : db.users[u].table # k

\* Mutant of MayDrop: a table goes and leaves its users.
MayDropUsed(k) ==
  k \notin Queue => \A w \in DOMAIN db.webhooks : k \notin db.webhooks[w].keys

\* delete() of a context or a routing table refuses what a webhook filters by, and the
\* database what a user has; Queue.delete() does not ask.
MayDrop(k) ==
  /\ k \notin Queue => \A w \in DOMAIN db.webhooks : k \notin db.webhooks[w].keys
  /\ \A u \in DOMAIN db.users : db.users[u].table # k

\* A context, table or queue is renamed or deleted, or the protocol of a transport is
\* changed: no signal.  (While no other request is being served.)
Unwatched(d) ==
  /\ Quiet /\ CountedChange
  /\ db' = d
  /\ excuse' = excuse \cup {"unwatched"}
  /\ UNCHANGED <<redis, change, pc, stage, snapshot, stale>>

Rename(k) == k \in DOMAIN db.names /\ Unwatched([db EXCEPT !.names[k] = 1 - @])

\* The webhooks, with nothing of a row that is gone in their filters.
Unfiltered(k) ==
  [w \in DOMAIN db.webhooks |->
     [events |-> db.webhooks[w].events, keys |-> db.webhooks[w].keys \ {k}]]

DropRow(k) ==
  /\ k \in DOMAIN db.names /\ MayDrop(k)
  /\ Unwatched([db EXCEPT !.names = Without(@, k), !.webhooks = Unfiltered(k)])

SetProtocol(x) ==
  Unwatched([db EXCEPT !.wss = IF x \in @ THEN @ \ {x} ELSE @ \cup {x}])

SyncNext ==
  \/ \E r \in Editor :
       \/ \E c \in Ops : SaveRow(r, c) \/ SaveUsername(r, c)
       \/ Serialize(r) \/ WriteConfig(r) \/ WriteConfigFails(r) \/ SaveFilters(r)
       \/ CommitChange(r) \/ RollBack(r)
  \/ \E k \in Key : Rename(k) \/ DropRow(k)
  \/ \E x \in SipTransport : SetProtocol(x)

SyncSpec == SyncInit /\ [][SyncNext]_syncVars

-----------------------------------------------------------------------------
(* Properties.                                                                 *)

\* When nothing is being saved, the listener's configuration is that of the database,
\* unless requests crossed, a SET failed, a transaction was rolled back after it, or
\* something changed that has no signal; and one sync that none of this happens to
\* makes it good again.
ConfigIsCurrent == Quiet /\ excuse = {} => redis = Serialized(db)

\* A stored webhook can be triggered by what it sends: an accepted form stays
\* acceptable, until a queue is deleted, which no webhook keeps from being deleted.
FiltersStayUseful ==
  Queue \subseteq DOMAIN db.names =>
    \A w \in DOMAIN db.webhooks :
      LET f == db.webhooks[w] IN
      /\ f.events \cap {"missed", "answered"} # {} => f.keys \cap Queue # {}
      /\ f.events \cap Outgoing # {} => f.keys \cap RoutingTable # {}
=============================================================================
