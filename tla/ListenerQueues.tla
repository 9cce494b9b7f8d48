--------------------------- MODULE ListenerQueues ---------------------------
(***************************************************************************)
(* The agents and callers of a queue in the dashboard listener             *)
(* (services/dashboard).  An agent's pause lives in Asterisk, which forgets*)
(* it at a restart, in the listener's memory, and as a key in Redis, from  *)
(* which it is set again after a reconnect.  An event about an agent first *)
(* writes the key, if the pause differs from the one in memory, and then   *)
(* the memory: two events of one agent overtake each other.                *)
(*                                                                         *)
(* One action is one command or event in Asterisk with the code of its task*)
(* up to the Redis command, or the code after that command.                *)
(***************************************************************************)
EXTENDS Naturals

CONSTANTS
  Member,       \* agents of the queue
  Caller,       \* calls; each joins at most once
  QTasks,       \* bound: tasks at a time
  MaxOrders,    \* bound: pauses and unpauses
  MaxTroubles   \* bound: restarts, lost connections, crashes, failed commands

ASSUME QueuesAssumption ==
  /\ QTasks \in Nat \ {0}
  /\ MaxOrders \in Nat
  /\ MaxTroubles \in Nat

VARIABLES
  aliased,    \* agents with a state_interface of their own; never changes
  paused,     \* Asterisk: is the agent paused?
  wanted,     \* history: what the staff asked for last
  waiting,    \* Asterisk: callers in the queue
  joined,     \* callers that have joined so far
  qlink,      \* "up"; "joining": heard, but not yet announced; "down"
  members,    \* queue_state: the agents' pause, or "none"
  calls,      \* queue_state: the callers
  qknown,     \* is the queue in queue_state?
  pausekey,   \* asterisk:member_paused:I
  work,       \* tasks that wait for the command on a key
  restore,    \* where each _on_reconnected, or process, is
  listing,    \* the answer to QueueStatus, as far as it is not handled
  wake,       \* callers for whom _wake_queue_members has not started
  woken,      \* the agents the last one pushed to
  orders,     \* how many pauses and unpauses there were
  troubles,   \* how many troubles there were
  excuse,     \* history: why an agent's pause may be wrong
  unseen      \* history: callers that were waiting when the memory was cleared

queueVars == <<aliased, paused, wanted, waiting, joined, qlink, members, calls,
               qknown, pausekey, work, restore, listing, wake, woken, orders,
               troubles, excuse, unseen>>

asteriskVars == <<paused, wanted, waiting, joined>>
memoryVars == <<members, calls, qknown>>

WId == 1 .. QTasks
RId == 1 .. 2                   \* bound: coroutines that restore at a time
State == {"none", "on", "off"}
OnOff(b) == IF b THEN "on" ELSE "off"
Reason == {"overlap", "early", "unheard", "redis", "alias"}
NoWork == [at |-> "none"]
\* The two interfaces of an agent: Location, and StateInterface.
Interface == Member \X {"location", "state"}
LocationOf(m) == <<m, "location">>
StateOf(m) == IF m \in aliased THEN <<m, "state">> ELSE LocationOf(m)

\* One invariant for the types of the variables.
QueuesTypeOK ==
  /\ aliased \subseteq Member
  /\ paused \in [Member -> BOOLEAN]
  /\ wanted \in [Member -> BOOLEAN]
  /\ waiting \subseteq joined /\ joined \subseteq Caller
  /\ qlink \in {"up", "joining", "down"}
  /\ members \in [Member -> State]
  /\ calls \subseteq Caller
  /\ qknown \in BOOLEAN
  /\ pausekey \subseteq Interface
  /\ work \in [WId -> [at : {"key"}, who : Member, as : BOOLEAN, name : Interface]
                      \cup {NoWork}]
  /\ restore \in [RId -> [at : {"idle", "scan", "pause"}, todo : SUBSET Interface]]
  /\ listing \in [Member -> State]
  /\ wake \subseteq Caller
  /\ woken \subseteq Member
  /\ orders \in 0 .. MaxOrders
  /\ troubles \in 0 .. MaxTroubles
  /\ excuse \in [Member -> SUBSET Reason]
  /\ unseen \subseteq Caller

Idle == [at |-> "idle", todo |-> {}]
AllIdle == [r \in RId |-> Idle]

\* The listener knows a queue in which nobody waits.  The callers in `came` have
\* been there, and t troubles are over.
QueuesFrom(came, t) ==
  /\ aliased \in SUBSET Member
  /\ paused \in [Member -> BOOLEAN]
  /\ wanted = paused
  /\ waiting = {} /\ joined = came
  /\ qlink = "up"
  /\ members = [m \in Member |-> OnOff(paused[m])]
  /\ calls = {}
  /\ qknown = TRUE
  /\ pausekey = {StateOf(m) : m \in {n \in Member : paused[n]}}
  /\ work = [i \in WId |-> NoWork]
  /\ restore = AllIdle
  /\ listing = [m \in Member |-> "none"]
  /\ wake = {} /\ woken = {}
  /\ orders = 0 /\ troubles = t
  /\ excuse = [m \in Member |-> IF m \in aliased THEN {"alias"} ELSE {}]
  /\ unseen = {}

QueuesInit == QueuesFrom({}, 0)

Trouble == troubles < MaxTroubles /\ troubles' = troubles + 1
Excused(M, r) == excuse' = [m \in Member |-> IF m \in M THEN excuse[m] \cup {r}
                                              ELSE excuse[m]]

-----------------------------------------------------------------------------
(* _upsert_queue_member *)

Busy(m) == \E i \in WId : work[i] # NoWork /\ work[i].who = m
FreeWork(i) == work[i] = NoWork /\ \A j \in WId : work[j] = NoWork => i <= j

\* A bulk event carries Location; a live one does not, and StateInterface stands
\* in for it.
KeyName(m, bulk) == IF bulk THEN LocationOf(m) ELSE StateOf(m)

\* Mutant of Upsert: only an agent that is not known yet is written.
UpsertNewOnly(m, p, bulk) ==
  /\ qknown' = TRUE
  /\ members' = members
  /\ IF members[m] # "none" THEN work' = work
     ELSE \E i \in WId :
            /\ FreeWork(i)
            /\ work' = [work EXCEPT ![i] = [at |-> "key", who |-> m, as |-> p,
                                            name |-> KeyName(m, bulk)]]
  /\ pausekey' = pausekey

\* An event says that the pause of m is p: the key first, if p is news.
Upsert(m, p, bulk) ==
  /\ qknown' = TRUE
  /\ IF members[m] = OnOff(p)
     THEN members' = members /\ work' = work
     ELSE /\ members' = members
          /\ \E i \in WId :
               /\ FreeWork(i)
               /\ work' = [work EXCEPT ![i] = [at |-> "key", who |-> m, as |-> p,
                                               name |-> KeyName(m, bulk)]]
  /\ pausekey' = pausekey

\* persist_member_pause has answered (or failed, which is logged): the memory.  If
\* the memory was cleared meanwhile, the queue is not there: KeyError.
Persisted(i) ==
  /\ work[i] # NoWork
  /\ LET t == work[i]
     IN  /\ \/ /\ pausekey' = IF t.as THEN pausekey \cup {t.name}
                              ELSE pausekey \ {t.name}
               /\ UNCHANGED <<troubles, excuse>>
            \/ /\ Trouble
               /\ Excused({t.who}, "redis")
               /\ UNCHANGED pausekey
         /\ members' = IF qknown THEN [members EXCEPT ![t.who] = OnOff(t.as)]
                       ELSE members
  /\ work' = [work EXCEPT ![i] = NoWork]
  /\ UNCHANGED <<aliased, asteriskVars, qlink, calls, qknown, restore, listing,
                 wake, woken, orders, unseen>>

\* Asterisk's live event about m, whose pause is p.  What it may spoil: an
\* earlier event of m is still waiting; the restart's pauses are not yet restored.
Live(m, p) ==
  /\ listing[m] = "none"
  /\ IF qlink = "down"
     THEN UNCHANGED <<members, qknown, pausekey, work>>
     ELSE Upsert(m, p, FALSE)

Spoiled(m) ==
  (IF Busy(m) THEN {"overlap"} ELSE {})
    \cup (IF qlink = "down" THEN {"unheard"} ELSE {})
    \cup (IF qlink = "joining" \/ \E r \in RId : restore[r].at \in {"scan", "pause"}
          THEN {"early"} ELSE {})

\* The staff pauses or unpauses m, in the web page or on the phone (external).
Order(m) ==
  /\ orders < MaxOrders
  /\ orders' = orders + 1
  /\ paused' = [paused EXCEPT ![m] = ~@]
  /\ wanted' = [wanted EXCEPT ![m] = ~paused[m]]
  /\ Live(m, ~paused[m])
  /\ excuse' = [excuse EXCEPT ![m] = @ \cup Spoiled(m)]
  /\ UNCHANGED <<aliased, waiting, joined, qlink, calls, restore, listing, wake,
                 woken, troubles, unseen>>

\* QueueMemberStatus: the telephone of m rings, is taken, comes or goes.
Status(m) ==
  /\ qlink # "down"
  /\ Live(m, paused[m])
  /\ excuse' = [excuse EXCEPT ![m] = @ \cup Spoiled(m)]
  /\ UNCHANGED <<aliased, asteriskVars, qlink, calls, restore, listing, wake,
                 woken, orders, troubles, unseen>>

\* handle_queue_member: the answer to QueueStatus.
Bulk(m) ==
  /\ listing[m] # "none"
  /\ Upsert(m, listing[m] = "on", TRUE)
  /\ listing' = [listing EXCEPT ![m] = "none"]
  /\ excuse' = [excuse EXCEPT ![m] = @ \cup Spoiled(m)]
  /\ UNCHANGED <<aliased, asteriskVars, qlink, calls, restore, wake, woken, orders,
                 troubles, unseen>>

-----------------------------------------------------------------------------
(* Callers. *)

\* handle_queue_caller_join; _spawn_push_task.
Join(c) ==
  /\ c \notin joined
  /\ joined' = joined \cup {c}
  /\ waiting' = waiting \cup {c}
  /\ IF qlink = "down" THEN UNCHANGED <<calls, qknown, wake>>
     ELSE calls' = calls \cup {c} /\ qknown' = TRUE /\ wake' = wake \cup {c}
  /\ UNCHANGED <<aliased, paused, wanted, qlink, members, pausekey, work, restore,
                 listing, woken, orders, troubles, excuse, unseen>>

\* Mutant of Leave: an abandoned call stays in the queue's dictionary.
LeaveKept(c) ==
  /\ c \in waiting
  /\ waiting' = waiting \ {c}
  /\ UNCHANGED <<aliased, paused, wanted, joined, qlink, members, calls, qknown,
                 pausekey, work, restore, listing, wake, woken, orders, troubles,
                 excuse, unseen>>

\* handle_queue_caller_leave, handle_queue_caller_abandon;
\* _remove_caller_from_queue.
Leave(c) ==
  /\ c \in waiting
  /\ waiting' = waiting \ {c}
  /\ calls' = IF qlink = "down" THEN calls ELSE calls \ {c}
  /\ UNCHANGED <<aliased, paused, wanted, joined, qlink, members, qknown, pausekey,
                 work, restore, listing, wake, woken, orders, troubles, excuse,
                 unseen>>

\* Mutant of ToWake: everyone is pushed to.
ToWakeAll == {m \in Member : members[m] # "none"}

ToWake == {m \in Member : members[m] = "off"}

\* Mutant of Wake: the caller is taken for one of the agents.
WakeCaller(c) ==
  /\ c \in wake
  /\ wake' = wake \ {c}
  /\ woken' = ToWake \cup {c}
  /\ UNCHANGED <<aliased, asteriskVars, qlink, memoryVars, pausekey, work, restore,
                 listing, orders, troubles, excuse, unseen>>

\* _wake_queue_members; without the queue in memory it ends with KeyError.
Wake(c) ==
  /\ c \in wake
  /\ wake' = wake \ {c}
  /\ woken' = IF qknown THEN ToWake ELSE {}
  /\ UNCHANGED <<aliased, asteriskVars, qlink, memoryVars, pausekey, work, restore,
                 listing, orders, troubles, excuse, unseen>>

-----------------------------------------------------------------------------
(* Connections, restarts and the restoring of pauses. *)

\* Asterisk restarts: it forgets pauses and callers, and drops the connection.
Restart ==
  /\ Trouble
  /\ paused' = [m \in Member |-> FALSE]
  /\ waiting' = {}
  /\ qlink' = "down"
  /\ listing' = [m \in Member |-> "none"]
  /\ Excused({m \in Member : Busy(m)}, "overlap")
  /\ UNCHANGED <<aliased, wanted, joined, memoryVars, pausekey, work, restore,
                 wake, woken, orders, unseen>>

QDrop ==
  /\ qlink # "down"
  /\ Trouble
  /\ qlink' = "down"
  /\ listing' = [m \in Member |-> "none"]
  /\ Excused({m \in Member : Busy(m)}, "overlap")
  /\ UNCHANGED <<aliased, asteriskVars, memoryVars, pausekey, work, restore, wake,
                 woken, orders, unseen>>

QAttach ==
  /\ qlink = "down"
  /\ qlink' = "joining"
  /\ UNCHANGED <<aliased, asteriskVars, memoryVars, pausekey, work, restore,
                 listing, wake, woken, orders, troubles, excuse, unseen>>

Forgotten ==
  /\ members' = [m \in Member |-> "none"]
  /\ calls' = {}
  /\ qknown' = FALSE
  /\ unseen' = unseen \cup waiting

Cleared(r) ==
  /\ Forgotten
  /\ restore' = [restore EXCEPT ![r].at = "scan"]

\* _on_reconnected: the memory is cleared, the snapshot written.
QAnnounce ==
  /\ qlink = "joining"
  /\ qlink' = "up"
  /\ \E r \in RId : restore[r] = Idle /\ Cleared(r)
  /\ UNCHANGED <<aliased, asteriskVars, pausekey, work, listing, wake, woken,
                 orders, troubles, excuse>>

\* The listener dies and is started again: process, which restores as well.
QCrash ==
  /\ Trouble
  /\ qlink' = "up"
  /\ Forgotten
  /\ restore' = [AllIdle EXCEPT ![1].at = "scan"]
  /\ work' = [i \in WId |-> NoWork]
  /\ listing' = [m \in Member |-> "none"]
  /\ wake' = {}
  /\ Excused({m \in Member : Busy(m)}, "redis")
  /\ UNCHANGED <<aliased, asteriskVars, pausekey, woken, orders>>

\* load_paused_members; an error leaves the list empty.
Scan(r) ==
  /\ restore[r].at = "scan"
  /\ \/ /\ restore' = [restore EXCEPT ![r] = [at |-> "pause", todo |-> pausekey]]
        /\ UNCHANGED <<troubles, excuse>>
     \/ /\ Trouble
        /\ restore' = [restore EXCEPT ![r].at = "pause"]
        /\ Excused(Member, "redis")
  /\ UNCHANGED <<aliased, asteriskVars, qlink, memoryVars, pausekey, work, listing,
                 wake, woken, orders, unseen>>

\* Mutant of RestorePause: QueuePause is sent with Paused=false.
RestorePauseFalse(r, m) ==
  /\ restore[r].at = "pause" /\ LocationOf(m) \in restore[r].todo
  /\ restore' = [restore EXCEPT ![r].todo = @ \ {LocationOf(m)}]
  /\ UNCHANGED <<aliased, asteriskVars, qlink, memoryVars, pausekey, work, listing,
                 wake, woken, orders, troubles, excuse, unseen>>

\* restore_pause_states: QueuePause for an interface.  Asterisk knows an agent by
\* its Location, and tells of the pause it sets.
RestorePause(r, m) ==
  /\ restore[r].at = "pause" /\ LocationOf(m) \in restore[r].todo
  /\ restore' = [restore EXCEPT ![r].todo = @ \ {LocationOf(m)}]
  /\ IF qlink = "down" THEN UNCHANGED <<paused, members, qknown, pausekey, work>>
     ELSE /\ paused' = [paused EXCEPT ![m] = TRUE]
          /\ IF paused[m] THEN UNCHANGED <<members, qknown, pausekey, work>>
             ELSE Live(m, TRUE)
  /\ excuse' = [excuse EXCEPT ![m] = @ \cup IF Busy(m) THEN {"overlap"} ELSE {}]
  /\ UNCHANGED <<aliased, wanted, waiting, joined, qlink, calls, listing, wake,
                 woken, orders, troubles, unseen>>

RestoreUnknown(r, m) ==
  /\ restore[r].at = "pause" /\ m \in aliased /\ StateOf(m) \in restore[r].todo
  /\ restore' = [restore EXCEPT ![r].todo = @ \ {StateOf(m)}]
  /\ UNCHANGED <<aliased, asteriskVars, qlink, memoryVars, pausekey, work, listing,
                 wake, woken, orders, troubles, excuse, unseen>>

\* sleep(1); initialize_queue_state: QueueStatus.
AskStatus(r) ==
  /\ restore[r].at = "pause" /\ restore[r].todo = {}
  /\ restore' = [restore EXCEPT ![r] = Idle]
  /\ listing' = IF qlink = "down" THEN listing
                ELSE [m \in Member |-> OnOff(paused[m])]
  /\ UNCHANGED <<aliased, asteriskVars, qlink, memoryVars, pausekey, work, wake,
                 woken, orders, troubles, excuse, unseen>>

QueuesNext ==
  \/ \E m \in Member : Order(m) \/ Status(m) \/ Bulk(m)
  \/ \E i \in WId : Persisted(i)
  \/ \E c \in Caller : Join(c) \/ Leave(c) \/ Wake(c)
  \/ Restart \/ QDrop \/ QAttach \/ QAnnounce \/ QCrash
  \/ \E r \in RId : \/ Scan(r) \/ AskStatus(r)
                    \/ \E m \in Member : RestorePause(r, m) \/ RestoreUnknown(r, m)

QueuesSpec == QueuesInit /\ [][QueuesNext]_queueVars

-----------------------------------------------------------------------------
(* Properties. *)

\* The listener is connected, the pauses are restored and the queue is listed.
Listed == /\ qlink = "up" /\ restore = AllIdle
          /\ listing = [m \in Member |-> "none"]
QSettled == Listed /\ work = [i \in WId |-> NoWork]

\* When nothing is under way, the memory and the key of an agent say what Asterisk
\* says; except after two of its events overlapped in _upsert_queue_member, after a
\* failed command, or for an agent with a state_interface.
PauseIsTrue ==
  QSettled => \A m \in Member :
    excuse[m] \cap {"overlap", "redis", "alias"} = {}
      => /\ members[m] = OnOff(paused[m])
         /\ (LocationOf(m) \in pausekey) = paused[m]

\* An agent is paused exactly if the staff wants it, also after Asterisk restarted
\* (restore_pause_states); except if besides one of the above an event of the agent
\* came before its pause was restored, or it was paused unheard.
PauseKept ==
  QSettled => \A m \in Member : excuse[m] = {} => paused[m] = wanted[m]

\* CHANGELOG: "the dashboard service now automatically re-queues paused agents when
\* Asterisk reconnects, so pause states survive restarts".  Even a pause of a plain
\* agent that was persisted in peace is lost if an event of the agent comes first.
PausesSurviveRestart ==
  QSettled => \A m \in Member : excuse[m] \subseteq {"early"} /\ wanted[m] => paused[m]

\* Nobody is shown as waiting who is not, and who waits is shown unless he was
\* waiting when the memory was cleared: QueueStatus tells the callers, but there is
\* no handler for it (_on_reconnected, set_event_handlers).
CallersAreTrue ==
  QSettled => calls \subseteq waiting /\ waiting \ calls \subseteq unseen

\* README of the service: a push for every agent of the queue who is not paused.
\* It holds of the moment of the push once the queue is listed and no event of the
\* agent is being stored.
WakesTheUnpaused ==
  [][\A c \in Caller : Wake(c) => \A m \in Member :
       Listed /\ ~Busy(m) /\ excuse[m] \cap {"overlap", "redis", "alias"} = {}
         => (m \in woken') = ~paused[m]]_queueVars

\* What the listener knows of the queue, and whom it wakes.
QueueIsTrue == [](PauseIsTrue /\ CallersAreTrue) /\ WakesTheUnpaused
=============================================================================
