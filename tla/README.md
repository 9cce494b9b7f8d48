# PearlPBX2: TLA+ models, model-checking runs and proofs

PearlPBX2 is a Django application that keeps the configuration of an Asterisk
PBX and generates Asterisk's files, and a set of daemons that run next to
Asterisk and share PostgreSQL, Redis and the Asterisk manager interface (AMI)
with it. This directory models both: the daemons, whose correctness depends on
interleaving, order and failure, and the application, whose correctness depends
on what a sequence of requests leaves behind and on what the generators and
validators make of it. Run the commands below in this directory:

    tlc -workers 2 -config Callback_settles.cfg MCCallbackDaemon.tla
    tlc -workers 2 -config Callback_processes.cfg MCCallbackDaemon.tla
    tlc -workers 2 -config Parking_races.cfg MCParkingULine.tla
    tlc -workers 2 -config Webhook_overlap.cfg MCWebhookChain.tla
    tlc -workers 2 -config Dashboard.cfg MCDashboard.tla
    tlc -workers 2 -config Application.cfg MCApplication.tla
    tlapm CallbackProofs.tla        (also ParkingProofs, WebhookProofs, ListenerProofs,
                                     ConfigProofs, AelProofs, AnswerProofs,
                                     ApplicationProofs)

The other `.cfg` files each show one property of the documentation violated
(`findings` in `PROJECT.json`).

## 1. Inventory

| Component | Source | State | Operations | Modules |
|---|---|---|---|---|
| Callback daemon | `services/callback/callback.py` | table `callback_number`, one connection (transaction) per process, maps of active calls | poll, claim, originate, AMI events, reconnect, exit | `CallbackDaemon` |
| Parking slots (ULINE) | `services/fastagi/uline_redis.py`, `fastagi.py:754`, `dashboard_listener.py:572` | Redis `parking:uline:N`, `parking:uid:U`, `asterisk:uid:U` | allocate, release on hangup, sweep, flush, expiry | `ParkingULine` |
| Webhook delivery | `services/dashboard/webhook_sender.py`, `apps/webhooks` | marker `webhook:notified:U`, configuration in the database, in Redis and in the daemon | announce, enrich, end; send, retry, shut down; sync, reload | `WebhookChain`, `WebhookDelivery`, `WebhookSync` |
| Dashboard listener | `services/dashboard/dashboard_listener.py` | channels, queues and pauses in memory and in Redis, missed-call buffer, connection | one asyncio task per AMI event, rebuild, restore, flush, reconnect | `ListenerChannels`, `ListenerQueues`, `MissedCalls`, `Outbox`, `AmiReconnect` |
| FastAGI server | `services/fastagi/fastagi.py` | none of its own but Redis and PostgreSQL rows | lists, recordings, trunk groups, queue status, push wake-up, callbacks | `AgiServer`, `CallScripts`, `CallerLists` |
| Apply changes | `pbx/admin.py`, `apps/api/views/config.py` | versions of configuration files, files on disk, Redis lock | build, store, back up, write, reload | `ApplyChanges`, `Ledger` |
| Dialplan models | `core/models.py`, `core/forms.py` | names of contexts, tables, macros, queues, groups, and the texts that call them | check, save, rename, delete | `DialplanGuards`, `Maps` |
| SIP configuration | `core/models.py`, `core/conf.py` | transports, users, trunks | save, delete, generate pjsip.conf | `SipConfig` |
| Queues, members, rules | `core/models.py`, `core/admin.py`, `core/conf.py` | queues, members, announcements, penalty rules | save, add members, clean up, generate | `QueueConfig` |
| Lists of callers | `apps/lists`, `apps/api/views/lists.py` | block, allow and named lists, contacts | forms, upserts, imports, expiry, look-ups | `CallerLists` |
| Music, sounds | `core/storages.py`, `core/models.py`, import commands | rows, files | upload, rename, delete, import, generate | `Media` |
| Recordings | `bin/*.sh`, `apps/reports/services` | wav, mp3, backup, rows | convert, copy, clean up, serve | `Recordings` |
| Validator | `core/validators.py` | none | parse, accept or refuse | `AelBlocks`, `AelText`, `AelSteps`, `ExtensionPatterns` |
| Requests to Asterisk | `core/ami.py`, `apps/api/views/calls.py` | one connection per request | originate, conference, hang up, pause, list | `AmiRequests` |
| Reports | `apps/reports` | queries over `queue_log`, `cdr` | missed calls, served calls, lost and found | `Reports` |
| Provisioning | `apps/provision` | devices, TFTP directory | save, apply, delete | `Provisioning` |
| Web dashboard, pages, deployment | `apps/dashboard`, `templates`, `ansible`, `*.sh` | | relay, pages, scripts run by an operator | see section 10 |

How they interact. The daemons never call each other. FastAGI inserts callback
requests that the callback daemon polls. FastAGI allocates parking slots in
Redis, the dashboard listener frees them on hangup and maintains the keys the
FastAGI sweep trusts. The listener calls webhook delivery in the same event
loop. Django writes the webhook configuration into Redis and the listener
re-reads it on its 30-second tick. Apply changes writes Asterisk's files and
reloads it through the AMI; everything the listener knows is rebuilt from AMI
answers after Asterisk restarts.

What is hard, and which property would make each component correct:

* Callback daemon: two threads on one transaction, processes competing for
  rows, lost events, restarts. Locks are released; a row's status and recording
  come from a call to its number; every request is settled.
* Parking: non-atomic reads and deletes from three clients, expiry. A slot is
  never freed or handed out while its owner is parked.
* Dashboard listener: handlers overtake each other at every `await`. The state
  converges to Asterisk's, no ghost channels, pauses survive restarts, missed
  calls are told once.
* Webhooks: read-modify-write of a marker. An "ended" event exactly once for
  each announced call and for no other; retries neither lose nor invent events.
* Apply changes: a database transaction and files. What is on disk is a version
  the database knows; two applies do not interleave.
* Rows and their guards: check-then-act. Names stay unique over two tables;
  nothing that is referenced is deleted; forms that are open for long, imports
  and API requests do not undo each other.
* Generators and validators: what is generated resolves, and Asterisk reads of
  a row what is in it; what is accepted is what it is taken for.
* Files: names that collide, scripts that overlap, reads of what is half written.

## 2. Plan

| # | Modules | Abstract specification | Run | State |
|---|---|---|---|---|
| 1 | `CallbackDaemon`, `CallbackProofs` | | `callback_*` (5) | checked; types and the four safety invariants proved |
| 2 | `ParkingULine`, `ParkingProofs` | | `parking_*` (2) | checked; types and the three safety invariants proved |
| 3 | `WebhookChain`, `WebhookProofs` | | `webhook_*` (2) | checked; types and the four safety invariants proved |
| 4 | `ListenerChannels`, `ListenerQueues`, `ListenerProofs` | Asterisk's own state, as history | `dashboard`, `dashboard_pauses` | checked; types and safety proved |
| 5 | `MissedCalls`, `AmiReconnect`, `WebhookDelivery`, `ListenerProofs` | `Outbox` | `dashboard` | checked; safety and the refinement proved, for each part and the composition |
| 6 | `ApplyChanges`, `ConfigProofs`, `ApplicationProofs` | `Ledger` | `application` | checked and proved, the refinement included |
| 7 | `SipConfig`, `DialplanGuards`, `QueueConfig`, `WebhookSync`, `ConfigProofs`; `CallerLists`, `AnswerProofs` | what app_queue and pjsip read | `application` | checked and proved |
| 8 | `AelBlocks`, `AelText`, `AelSteps`, `ExtensionPatterns`, `AelProofs` | reference definitions of balanced and well-formed | `application` | checked and proved |
| 9 | `AgiServer`, `CallScripts`, `AmiRequests`, `Reports`, `Recordings`, `AnswerProofs`; `Provisioning`, `Media`, `ConfigProofs` | | `application` | checked and proved |

Left for later: a composition of `WebhookSync` with the reload in `WebhookChain`.

## 3. The callback daemon: `CallbackDaemon`

### State

| Variable | Code |
|---|---|
| `db`, `draft`, `owner` | committed rows of `callback_number`; a row as the open transaction sees it; the process whose transaction holds its row lock |
| `holder` | the process whose transaction holds the lock of a service, a routing table or an inbound context: `FOR UPDATE` names no table, so the SELECT locks the joined rows too, in the order of `Joined` |
| `conn`, `busy` | `self.conn`: in order, dead, or with an aborted transaction; the thread whose statement waits for a row lock (psycopg2 runs one statement at a time on a connection) |
| `pc`, `job` | what each thread (`main` polls, `ami` runs the listener) executes next, and the arguments of its database call |
| `waitlist`, `tracked` | `active_calls_by_dst`, `active_calls_by_channel_uid` |
| `inbox`, `call` | events on their way to a process; calls in Asterisk |
| `mode` | `up`, `deaf` (the AMI connection is gone, the process is not) or `down` (a child nobody restarts) |

`waitlist` is one sequence for each process rather than one for each number:
an entry is matched only if its number is equal, and entries of one number keep
their order, so the two are the same. A row stands for itself, its number
(`Dst`) and the name of its outbound context (`Context`); `Prefix` says which
names start with which, because `event_listener` uses `startswith`.

### Actions

One action is one SQL statement of one thread, one section under `_calls_lock`,
or one event. `Probe` and `ProbeRollback` are `ensure_db_connected`: its
rollback ends whatever transaction the connection has, so it also undoes a
statement of the other thread. `SelectFirst`, `Update`, `Commit` are the
statements of `select_first_available`, `update_call_status` and
`update_uniqueid`. `SKIP LOCKED` passes a row over (`Passed`) when another
transaction holds a row joined to it: two processes never claim rows of one
service at a time, and a row passed over stays locked until the transaction ends,
because it was locked before its joined rows were tried. `AfterCommit` says where the code goes next. `Originate` is
`call_dst` with its three outcomes; `PopEntry` is the end of `_mark_busy`;
`OnDialBegin`, `OnDialEnd`, `OnHangup`, `OnOriginateError` are the branches of
`event_listener` and the Originate callback. `Raise` follows an exception to
the handler that catches it. `HealthCheckExits`, `Ends` and `Killed` end a
process: PostgreSQL rolls back, the maps are lost, and systemd
(`Restart=on-failure`) starts the whole service again if it was the parent.

PostgreSQL (row locks, SKIP LOCKED, waiting, deadlock detection), Asterisk
(the order of events of a channel, every event to every AMI connection) and time are
modelled as far as the code uses them and marked external in `PROJECT.json`.
`DialAgain` is `dial_with_retry` of the FastAGI server, which makes several
DialBegin and DialEnd events on one channel.

Abstractions. `ripe` replaces the two time conditions of the SELECT. A row of
a service that is not active is not in `Row`. A DialBegin without a Uniqueid and
the DialState events are ignored by the code and left out. The
transaction-independent race of two reconnections (each closing the other's new
connection) is the rollback of `ProbeRollback`. The cursor of a statement is
made together with the statement.

### Properties and runs

| Run | Instance | Checks | Distinct states |
|---|---|---|---|
| `callback_settles` | 1 process, 1 row, 3 calls, 1 fault, fairness | `EveryRequestSettles` | 192 044 |
| `callback_processes` | one process with two rows and calls of up to 2 attempts; two processes, from `OneOpenRow` or `AllDue` (no fault) or `HungUp` (1 fault) | `TypeOK`, `NoOrphanLock`, `AnsweredIsReal`, `UidOfSameNumber`, `AnsweredCallNeverBusy` | 1 021 173 |
| `callback_rowlock` | 2 processes, 2 rows, 2 calls | `OneClaimant`: violated | |
| `callback_lostanswer` | 1 process, 1 row, 2 calls | `CommitKeepsStatus`: violated | |
| `callback_stuck` | 2 processes from `HungUp`, slow calls, fairness | `KeepsPolling`: violated | |

Why the bounds are enough. Two threads of one process interfere as soon as one
of them has a call's event to record while the other polls, which takes one
finished and one due call. The rows' numbers differ, so that a wrong match is a
visible one. Two processes show row locks, crossed updates and the deadlock;
to reach those within the bound, `callback_processes` starts from `OneOpenRow`
(one row to serve, one served) and from `HungUp`, the state in which each process has
one call of its own that ended unanswered after more than ten minutes and still
has both calls' Hangups to handle. In `AllDue` three rows are due, two of them of
one service: the process that comes second passes one over. `MaxCalls`, `MaxDials` and `MaxFaults` bound calls,
attempts and faults; when the calls are used up `Bounded` lets the model stop.
`SlowCalls` lets a call outlast the ten minutes after which its row is claimed
again: `Originate`'s Timeout is one minute, but a conversation or a chain of dial attempts
can last longer. It is off where it would only add states.

Fairness. A living process polls every second and its AMI thread handles events as
they come (weak fairness of their steps); PostgreSQL grants a row lock in the
order of the waiters and breaks deadlocks (strong fairness of `Update`, weak of
`DeadlockDetected`); a server that was lost comes back (weak fairness of
`Probe`); calls end and time passes. Nothing is assumed of faults.

What the three violations show is in `PROJECT.json` under `findings`: the lock
of `SELECT ... FOR UPDATE` can be gone before the `UPDATE`; a commit may find
its update rolled back by the other thread; and a process whose transaction
PostgreSQL aborted never recovers, because `InFailedSqlTransaction` is not among
the errors `ensure_db_connected` handles, while its health check passes.

## 4. Proofs: `CallbackProofs`

The theorems hold for every set of processes and rows and every bound, from
`CallbackAssumption` alone.

* `TypeCorrect` (`TypeOK`). `TypeOK` is not inductive: `call_dst` appends the row
  of its job to `active_calls_by_dst`, and a job may have no row. `TypeInv` adds
  that a thread past `ensure_db_connected` has a job, that a job has a row
  (`JobFits`), and that an event names a call that was placed for a row.
* `LocksReleased` (`NoOrphanLock`, of the callback rows and of those joined to
  them). `LockInv` adds that the transaction of a dead
  or aborted connection holds no lock: that is why a thread whose statement
  raises leaves nothing locked.
* `NoFalseAnswer` (`AnsweredIsReal`) and `NoForeignRecording`
  (`UidOfSameNumber`). `NumberInv` follows the answer through its hops: event,
  tracked channel, job, draft, row. At each the call is one to the number of
  the row. It rests on `History`: a call keeps its row once
  placed and stays answered once answered.

* `AnsweredNeverBusy` (`AnsweredCallNeverBusy`). `OrderInv` says of every process and
  every answered call (`Clear`) that the answer stands in the inbox, before
  the Hangup and after the last attempt; or that the call is not tracked and no attempt
  is left to read; or that the process has lost its AMI connection and no Hangup of the
  call reached it. The first is what the order of Asterisk's events gives to a process that
  heard the answer, the second what reading the answer or a restart leaves, the
  third what is left of an outage. So a Hangup that makes a thread write BUSY is one of a call
  that failed (`BusyFailed`), and a failed call is never answered.

`TypeInv`, `LockInv`, `NumberInv` and `OrderInv` were checked with TLC on the instance of
`callback_processes` before they were proved. Facts
about the community modules' `SelectInSeq`, `RemoveFirst` and `RemoveAt` are
lemmas at the start of the module.

Only model-checked: `EveryRequestSettles` (liveness under fairness is outside what
tlapm proves).

## 5. Parking slots: `ParkingULine`, `ParkingProofs`

### State and actions

| Variable | Code |
|---|---|
| `uline`, `uidkey` | `parking:uline:N` (its `uniqueid`) and `parking:uid:U` |
| `livekey`, `sentinel` | the keys `asterisk:uid:U`, and `asterisk:channels:all`, by which the sweep judges |
| `chan`, `line` | the call in Asterisk and its variable `ULINE` |
| `agi` | a `parking-uline` request whose script has not run yet |
| `newtask`, `hang`, `got` | asyncio tasks of the listener: those that will set `asterisk:uid:U`; the Hangup task, and the slot it read |
| `link`, `unlisted` | the listener: connected, reconnected and waiting for CoreShowChannels (`joining`), without AMI, or dead; the calls it will learn of from CoreShowChannels |
| `sweep`, `flush` | `sweep_parking_ulines` and `uline_flush` between two of their commands |
| `lost` | history: calls whose slot was deleted while they were up |

The Lua script is one action, as it is in Redis. The sweep and the requests run
in one reactor thread that a sweep does not leave, so a request is served only
between sweeps (`ReactorFree`); listener, page and expiry interleave with the
sweep at every command. SCAN looks at each `asterisk:uid` key at a moment of its own
(`SweepScan`); the slots are read in one MULTI. The Hangup task reads the slot
before an `await` and deletes it after (`HangupGet`, `HangupDelete`). A call may
ask again, and its request may be served after it has hung up. `Budget` is the
set of combinations of mishaps a behaviour may have: flush, outage of the
listener, failing Redis command, expiry.

Abstractions. A hash is its owner. The two keys of an allocation expire
together (one script sets one TTL). The scans of the flush are one step each.
The keys `asterisk:channel:*` and the events the listener publishes are left out:
no slot depends on them. So are channels for which Asterisk answers the request for
`CDR(uniqueid)` with nothing: `parking_uline` takes "" for their unique id, and
they share one slot until a sweep takes it.

### Properties and runs

| Run | Instance | Checks | Distinct states |
|---|---|---|---|
| `parking_races` | 2 calls, 2 slots, one mishap of any kind | `TypeOK`, `SharedOnlyIfLost`, `OneSlotPerCall`, `SweepTakesOwnSlot` | 1 214 607 |
| `parking_offline` | 2 calls, 2 slots, one outage | `OfflineSweepSparesLive`: violated | |

Two calls and two slots are enough for every pair of clients to meet on one
slot, for a slot to change hands and for a call to end up with a second one.
"A number belongs to one call" does not hold of this code, even
without a mishap: the sweep takes the slot of a call whose Newchannel the
listener has not handled, and a Hangup task deletes a slot that changed hands
since it read it; and a slot expires after an hour. `SharedOnlyIfLost` says that these deletions are
the only cause. `parking_offline` shows the gravest of them: for two hours after the
listener stopped the sweep goes on and takes every new call for a dead one.

### Proofs

For every set of calls, range of slots and budget, from `ParkingAssumption`:

* `TypeCorrect`: `TypeOK` is inductive.
* `SweepHarmsNobodyElse` (`SweepTakesOwnSlot`), from `SweepInv`: while there
  is something to delete the sweep is running, so the script is not.
* `OnlyLossSharesSlots` (`SharedOnlyIfLost`), from `SharedInv`: a call that was
  never robbed has the slot it was told and the slot `parking:uid` names.
* `OneSlot` (`OneSlotPerCall`), from `OneInv`: a held slot is found under its
  owner's `parking:uid`, or the owner can ask no more; and the keys that
  Hangup tasks and the sweep are about to delete fit together.

Nothing is claimed about liveness: a leaked slot comes back through its TTL
whatever the sweep does.

## 6. Webhooks: `WebhookChain`, `WebhookProofs`

### State and actions

| Variable | Code |
|---|---|
| `chan` | the call in Asterisk: it bounds the events that can come, and their order |
| `listener` | connected to the AMI, cut off from it (`deaf`), or not running |
| `config` | `self.webhooks` and `self.sip_users` of `WebhookManager` |
| `marker` | the key `webhook:notified:U`: who was told, in which chain, and what happened since |
| `task` | one record for each AMI event of a call: how far its handler has got, the method of `WebhookManager` it is in, what the event brought, and its copy of the marker |
| `sent` | history: the events handed to delivery, for whom and with which flags |
| `disturbed` | history: the calls that got in trouble, see below |

Every AMI event has a coroutine of its own (`event_listener_sync`), and a
handler publishes to Redis before it calls `WebhookManager`, so the handlers of
one call may reach it in any order. `Match` is the code before the marker is
read, `Get` the read, `Fire` the code that hands events to delivery, `Set` and
`Del` the writes; between two of them any other handler may run. The order
of the steps differs as in the code: announcements, `on_abandon` and
`on_agent_connect` fire and then write, `on_dial_end` writes and then fires,
`on_hangup` deletes and then fires. `Written`, `Targets` and `Event` say what each
method writes, and whom it tells what. `handle_newchannel` calls
`on_incoming` and then `on_outgoing`. A command that fails is logged: a failed
GET reads as no marker. `Stop` ends the process with its handlers, `Disconnect`
loses events, `load_config` replaces the configuration at any time,
`Expire` is the marker's TTL.

`disturbed` holds the calls for which nothing complete can be promised. A call
gets there when one of its handlers reads the marker while an earlier event's
handler has not read it yet or another's write is still to come (`Rivals`); when a
command fails or the marker expires; when an event is missed, the process
stops, or the configuration changes while the call is up. Properties that quantify
over the other calls say what holds if the handlers of the call ran one after
the other.

Abstractions. The marker keeps whether its call was answered, by whom and
missed, not when. A webhook's filters are sets; `channel` and `exten` decide only
whether the endpoint is a SIP user's (`Nobody` if not, or if `exten` is not a
dialled number). Rendering and signing are left out; `sent` is
what the delivery tasks were given, and `WebhookDelivery` (section 7) goes on from
there.

### Properties and runs

| Run | Instance | Checks | Distinct states |
|---|---|---|---|
| `webhook_overlap` | 1 call, 2 dialled legs or 1 leg and a queue, 2 webhooks, configuration removed and restored at any time, 1 fault | `TypeOK`, `OnlyAnnounced`, `ReportsTruth`, `EndIsComplete`, `NothingTwice` | 1 590 560 |
| `webhook_twochains` | 1 call, 1 leg, 2 contexts, 2 webhooks, no fault | `OutgoingNeverEndsInbound`: violated | |

Why the bounds are enough. Calls share nothing but the configuration, so one
call shows what handlers do to each other. Two legs give two answers that
race; a queue gives a second announcement, a miss or an agent. One webhook is
told of inbound calls only and the other of both chains, so that the two can
meet in one marker. `SecondLegOrQueue` leaves out a queue together with two
legs; `MaxFaults` allows one failure, expiry or outage; a call joins one
queue once. Two legs are interchangeable, and used as a symmetry set.

`webhook_twochains`: an employee's call is announced as outgoing, joins a queue
that the other webhook watches, and its marker turns inbound. Both webhooks
are then sent `call.ended`, the first of them after `call.outgoing`; the
documentation says that this never happens (`findings`).

### Proofs

For every set of calls, legs and webhooks, all configurations and any number of
faults, from `WebhookAssumption`:

* `TypeCorrect`: `TypeOK` is inductive.
* `NoEndWithoutStart` (`OnlyAnnounced`). The invariant `SoundInv` says of the
  marker in Redis and of every copy a handler holds: whoever it names was told
  of the beginning, and its direction was announced to somebody. A copy may
  be arbitrarily old, because what was sent stays sent (`StaysTold`): overlap
  can lose an end but not invent one.
* `EndReportsTruth` (`ReportsTruth`). `HonestInv` says likewise of the marker
  and the copies that each flag is true of the events that have come
  (`Honest`), and that a handler is in a method of its event.

* `ToldOnceAlways` (`NothingTwice`) and `EndsAreComplete` (`EndIsComplete`) are about
  the calls that are not `disturbed`, and rest on three invariants.
  `MadeInv`: a handler hands to delivery only events of its own method, which
  says what cannot have been sent. `OrderInv`: a handler that has not
  started has sent nothing, and a call's events come in Asterisk's order.
  `TidyInv` says how far the handlers of an undisturbed call have got. One
  handler at a time is between its read and its write (`OneHolder`), and its copy is
  the marker (`FreshCopy`): reading earlier would have put the call into
  `disturbed`. So the methods take their turns in the order of the events
  (`InTurn`). Hence the marker lists exactly who was told, but for those the handler
  at work has still to write down (`Listed`), nobody is told twice (`ToldOnce`,
  `OneFirst`), and the flags of the marker are what was reported (`Noted`). When
  the hangup reads, all others are done: it takes the whole list, and what it sends
  is what was told and noted before, once for each (`EndsOnce`). TLC checked the three
  on the instance of `webhook_overlap` before they were proved.

There is no liveness property: a handler that awaits Redis forever is not the code's promise
to avoid, and a lost end is what `disturbed` is about.

## 7. The dashboard listener

Five modules that share no state (the snapshot, the queues, the missed calls,
the connection and the delivery of webhooks use different variables of the
program), so `MCDashboard` runs one of them in each behaviour.

| Module | State and actions | Main properties |
|---|---|---|
| `ListenerChannels` | channels in Asterisk, in `channels_state`, in `asterisk:channel:C` and in `asterisk:channels:all`; one task per event, one step per Redis command; list of channels after a reconnect, reset, crash, expiry; what only an event of its own tells (`news`) and how much of it the memory has (`heard`); the health check's write | `MemoryIsTrue`, `VariablesSurvive`, `SnapshotConverges` |
| `ListenerQueues` | an agent's pause in Asterisk, in memory and as a key; callers; `restore_pause_states`, `QueueStatus`, push wake-ups; restart of Asterisk, lost connection, crash, failed command | `PauseIsTrue`, `PauseKept`, `CallersAreTrue`, `WakesTheUnpaused` |
| `MissedCalls` | buffer, flush task, thread of the executor, shutdown | `NoMissLost`, `OnlyLateOnesWait`, `MissesAreReported`; implements `Outbox` |
| `AmiReconnect` | `self.ami`, `_reconnecting`, the reader threads, the ping, the reconnect thread | `OneReconnectLoop`, `TwoFeedsOnlyIfStale`, `ComesBack` |
| `WebhookDelivery` | task, attempts, thread and request of each event; requests nobody waits for any more; SIGTERM, which cancels the tasks before `wait_pending` | `SaidSentWasGot`, `NoMoreThanTried`, `RepeatedOnlyIfUnanswered`, `OvertakenOnlyIfUnsettled`, `EveryEventSettles` |

The events of a behaviour are handled in the order in which Asterisk sends them
(asyncio starts tasks in order), and every await of Redis is a point where
another task runs. History variables (`raced`, `saved`, `excuse`, `unseen`,
`late`, `stale`, `overlap`) name the races after which the code promises
nothing; each property says what holds outside them, and `PauseKept`,
for example, has to survive a restart of Asterisk, of the listener, and the
order in which their steps meet.

A rebuilt channel is not the channel it was. `_build_channel_state` makes it from
the list of channels and takes over only the variables of its key, so after a
reconnect or a restart `dialing_to`, `dialed_by`, `dial_status`, `bridged_at` and
`app_data` are missing until an event tells them again (and `created_at` is the time
of the rebuilding). `MemoryIsTrue` therefore promises two things: what a list of the
channels tells is right for every channel, and the rest is complete for the channels
that came after the memory was last cleared (`wiped` names the others), and never
invented for any.

SIGTERM raises `SystemExit` in the loop, and `asyncio.run` cancels every task before
the `finally` of `process` runs `shutdown`: the deliveries under way are cancelled
(`CancelledError` passes `except Exception`), their threads finish their requests
unheard, and `wait_pending` waits only for what is fired while `shutdown` posts to
Slack. `Terminate` and `Down` say so, and a cancelled delivery may arrive late.

`Outbox` is the abstract specification of the missed calls: a call is held from
the moment it was missed until its batch is told or given up, once. `MissedCalls`
implements it with `status` mapped to the place a call is in
(`ReportsLikeAnOutbox`).

| Run | Instance | Checks | Distinct states |
|---|---|---|---|
| `dashboard` | 2 channels, 2 events, 2 tasks, 1 mishap; 1 agent, 1 caller, 2 tasks, 1 order, 2 troubles; 3 missed calls; 2 breaks; 2 events fired, 1 retry, 1 thread, 2 timeouts; fairness | `DashboardTypeOK`, `ChannelsAreTrue`, `PauseKept`, `MissesAreKept`, `OneConnection`, `DeliveredAsTried`, `QueueIsTrue`, `ReportsLikeAnOutbox`, `EverythingSettles` | 522 358 |
| `dashboard_pauses` | the queues alone | `PausesSurviveRestart`: violated | |

Some properties are conjunctions of those in the table: `ChannelsAreTrue`,
`MissesAreKept`, `OneConnection`, `DeliveredAsTried`, `QueueIsTrue`,
`EverythingSettles`.

Why the bounds are enough. A race needs two tasks, and the second of two events
to bring what the first must not overwrite; the third channel or task repeats
one of the two. The channels start with one channel known everywhere, as after
a while of service. `QueuesStart` allows two troubles (a pause lost by one, restored
by the other) when the callers have been and gone, and one while they may come.
Three missed calls are one told, one being posted and one late. Two breaks are
one that is noticed late and one that follows the reconnection. One thread for two
events is a full pool.

Fairness. A task whose Redis command was answered goes on, the loop's ticks
come, a lost server can be reached again, an executor's thread ends: weak
fairness of those steps, each where its part runs. Nothing is assumed of
Asterisk's events, of mishaps, or of the staff.

`dashboard_pauses`: an event of a paused agent that arrives after Asterisk's
restart and before the pauses were read from Redis deletes the key of the pause
(`findings`).

### Proofs

All of them are in `ListenerProofs`.

| Part | Theorems | Invariant |
|---|---|---|
| `ListenerChannels` | `ChannelsTypes`, `ChannelsAreTrueAlways` (`ChannelsAreTrue`) | `ChannelsInv`: what every task has in hand (`TaskFits`); the list after a reconnect is true while it is unread (`FeedFits`); a connected listener has the last state of a channel, or is going to hear of it, or is about to forget it (`Follows`); variables are in memory or in the key, and no task is about to write the key without them (`Survives`). `HeardInv`: nothing is in memory that was not told, and a channel that is not `wiped` lacks only what a task is about to write (`Whole`, `Owes`) |
| `ListenerQueues` | `QueuesTypes`, `PauseKeptAlways` (`PauseKept`), `QueueIsTrueAlways` (`QueueIsTrue`) | `QueuesInv`: for each agent, unless excused, memory and key agree up to the one task between them, what Asterisk shows is on its way, and a pause lost by a restart has a key and somebody who will read it (`Agent`); counters and histories (`Bookkeeping`); a caller is known or about to be listed (`CallersKnown`) |
| `MissedCalls` | `MissTypesKept`, `MissesKept` (`MissesAreKept`), `ReportsAreAnOutbox` (`ReportsLikeAnOutbox`) | `MissInv`: `NoMissLost` with `Phases`, which ties the state of the flush task to what is being posted; a buffer without a task to come is `late` |
| `AmiReconnect` | `ReconnectTypesKept`, `OneConnectionKept` (`OneConnection`) | `ReconnectInv`: `FlagIsTheLoop` (the flag is set exactly while one thread is on its way) and `OnlyTheCurrent` (until a loss is acted upon late, `self.ami` is the only connection that stands, and it does not while a thread is about to replace it) |
| `WebhookDelivery` | `DeliveryTypesKept`, `DeliveryKept` (`DeliveredAsTried`) | `DeliveryInv`: per event `TryInv` and `GotInv` (what was received, is on its way or astray was tried, and without a lost answer is one at most), between events `InTurn` (an event that was not `overlap` had ended, or was cancelled, before the next was fired) |
| `MCDashboard` | `DashboardTypesKept` (`DashboardTypeOK`), `DashboardIsTrue` (all the safety properties of the run), `DashboardReports` | `DashboardInv`, the conjunction of those of the five parts |

They hold for any finite set of channels and any number of agents, callers, missed
calls, breaks, events, tasks, retries and threads. `ChannelsAssumption` asks for
finitely many channels because Asterisk lists them one by one, in any order, after
a reconnect. The
theorems about a part are about its own specification. `ChannelsInit` starts with no
channel; the run starts with one known everywhere (`OneUp`), and
`ChannelsFrom(s)` covers both: `ChannelsInv` holds from any snapshot `s` that all
three places agree on, which is how `DashboardInv` gets hold of the run's starts.

The refinement is proved step by step: `Abandon` holds an item, a post that returns
settles its batch, everything else stutters.

Only model-checked: the liveness of `EverythingSettles`.

## 8. The application

Sixteen parts around the database, the files and Redis. They share no state
here, so `MCApplication` runs one in each behaviour; what one may do to
another (a deleted user, a renamed queue) is an action of the module it matters in.

| Part | Modules | Source | What varies, and its bound | Checked by | States |
|---|---|---|---|---|---|
| `apply` | `ApplyChanges`, `Ledger` | `pbx/admin.py`, `apps/api/views/config.py` | two applies (web, API, command), 2 generated files, a stored one and what staff saves, imports or deletes, 1 edit, 1 failure or change of staff, expiry of the lock | `AppliesKeepApart`, `VersionsAreALedger` | 159 110 |
| `sip` | `SipConfig` | `core/models.py`, `core/conf.py` | 2 transports, 2 names for users and trunks, 3 changes | `PjsipConsistent` | 54 537 |
| `guards` | `DialplanGuards` | `core/models.py`, `core/forms.py` | rows of five kinds, 2 requests at once, 3 writes, names in other letters | `AelConsistent`, `GuardsHold` | 72 115 |
| `sync` | `WebhookSync` | `apps/webhooks` | 2 editors, 1 webhook, 3 changes, failed SET, rollback | `WebhooksInSync` | 106 001 |
| `blocks` | `AelBlocks` | `core/validators.py` | every text of 4 lines of 15 kinds | `AelReadAsWritten` | 54 241 |
| `text` | `AelText`, `AelSteps` | `core/validators.py` | every text of 4 of 11 characters | `AelReadAsWritten` | 16 105 |
| `pattern` | `ExtensionPatterns` | `core/validators.py`, `core/conf.py` | every pattern of 4 of 8 signs | `AelReadAsWritten` | 4 681 |
| `agi` | `AgiServer` | `fastagi.py` | 2 calls of the same parties, 2 requests each, 2 seconds | `RecordingsKept` | 55 952 |
| `reports` | `Reports` | `apps/reports` | 3 calls, a number written in two ways, a contact, clocks put back | `ReportsAgree` | 75 372 |
| `prov` | `Provisioning` | `apps/provision` | 2 devices, 3 spellings of 2 addresses, one all digits, 3 models, 2 servers, 2 jobs, 2 updates | `FilesAreTheDevices` | 79 487 |
| `queues` | `QueueConfig` | `core/models.py`, `core/admin.py`, `core/conf.py` | 2 queues, 2 members, 2 adders, a cleanup | `QueuesConsistent` | 15 584 |
| `lists` | `CallerLists` | `apps/lists`, `apps/api/views/lists.py` | 1 caller, 1 destination, 2 forms and 2 upserts at once, 3 requests | `ListsConsistent` | 17 148 |
| `ami` | `AmiRequests` | `core/ami.py`, `apps/api/views`, `apps/dashboard/views.py` | every request, 2 legs, 3 ticks, answers in any order, late or none | `RequestsAnswered` | 38 604 |
| `scripts` | `CallScripts` | `fastagi.py` | 2 trunks, 3 attempts, hang-ups and failures between commands, 2 changes of staff | `ScriptsTellTrue` | 17 237 |
| `media` | `Media` | `core/models.py`, `core/storages.py`, imports | 1 class, 2 folders, 2 names, 2 languages, 3 operations | `FilesAreFound` | 5 910 |
| `rec` | `Recordings` | `bin/*.sh`, `apps/reports/services` | 1 call, 2 runs of the conversion, a copy, 3 days, kills and failures | `FilesAreFound` | 45 426 |

`application` checks them all (817 510 distinct states), and the type invariant
of the part that runs (`ApplicationTypeOK`). Each property of the run is the
conjunction of the properties of a part that are named and commented in its module:
`AppliesKeepApart` is `LockKept`, `DiskIsApplied`, `ClashOnlyIf`,
`OneWriterPerVersion` and `NoneWaitInCircle`; `PjsipConsistent` says that what
pjsip.conf names is defined, and what is dialled or queued has an endpoint;
`AelConsistent` that extensions.ael, put together from the rows, loads;
`GuardsHold` that no rename or deletion breaks a call; and so on
(`MCApplication` lists them). `VersionsAreALedger` is a refinement: the versions
of the files, seen through the applies that committed, are the abstract
`Ledger`, to which an apply adds all of its own versions or none.

How code and model correspond:

* A request that reads, checks and writes in stages has one action for each
  (`DialplanGuards`, `WebhookSync`, `Provisioning`, `CallerLists`, `QueueConfig`),
  because Django runs requests in several processes and only some of the code is
  inside a transaction that keeps others out. `torn`, `excuse`, `stale`, `late`
  and `fresh` record that another request came in between: the
  properties say that nothing but that causes damage.
* A generator is an operator from the rows to what Asterisk reads: a set of
  sections and references (`SipConfig`), of options as app_queue takes them
  (`QueueConfig`), of entries (`Media`). Asterisk's reading is modelled as far as
  the generator relies on it, and marked external.
* A parser is an operator over a text that grows by one line or character, so
  that TLC visits every text up to the bound; the property compares it with a
  reference definition (`PairedOff`, `WellFormed`, `NothingLeftOpen`). Four
  characters are enough for two nested pairs, a string in a bracket and a
  bracket in a string, four lines for a block with an else and a step after it.
* A script of cron has one step per command of the script; a kill or a failure
  may follow each.

Why the bounds are enough. Most hazards here need two requests at once and a third
change before or after: hence two requests, jobs or editors, and three changes. Two
names, one shared by two kinds of rows, show clashes; a name in other
letters shows the difference between the database's and Asterisk's
comparison. `MaxSigns`, `MaxChars` and `MaxLines` are the lengths up to which all
texts are compared. Requests and jobs are interchangeable: nothing orders or
names them, so `Symmetry` is sound for the safety properties the run has.

Deadlock is not checked: the bounds let requests run out, and every part stops
when they do. No fairness is assumed: the run has no liveness property,
because nothing in these parts waits for another.

### Proofs: `ConfigProofs`, `AelProofs`, `AnswerProofs`, `ApplicationProofs`

Each part has an inductive invariant, in the variables of the part alone: it holds
initially, each of the part's steps keeps it, and it implies what the run checks
(`SipInitially`, `SipStep`, `SipMeans`, and so on). `ApplicationProofs` puts them
together. By `StepOfEach` a step of `ApplicationNext` is, for every part, one of its
own steps or none, so the conjunction `ApplicationInv` holds whichever part runs
(`ApplicationInvariant`); and as no invariant mentions `part`, the results are those of
each part by itself. One theorem for each property of the run follows from it.

Apply Changes (`ConfigProofs`). For any number of applies, files, edits and failures,
from `ApplyAssumption` (the paths are a finite set and have an order) alone:

* `ApplicationKeepsALedger`: Apply Changes implements `Ledger`. A commit maps to
  `Publish`, a save or an import of staff to `Amend`, a deletion to `Strike`, every
  other step to a stutter.
* `AppliesApartAlways`: `AppliesKeepApart`, all five parts.

`ApplyInv` is the inductive invariant. A row that is not committed is one that its
apply has chosen, of a file that comes before all the apply has still to do
(`RowsOwned`): hence rows in the ledger are whole, and hence no circle of waiting
applies: the one with the last file of all would wait for one with a later file. As
long as staff saves nothing, a version that is due is the next one of its path or
taken by now (`DueIsNext`), so two applies that insert for one path insert the
same version, and the unique key stops the second (`NewTogether`). When nothing
disturbs an apply, the disk is between what was applied and its plan
(`PlanWritten`). TLC checked each part on the part's instance first.

Statements about natural numbers by induction (a set of versions has a largest
one, the applies in a circle have a last file) rest on the least element of a set,
`LeastNat`, which the library's `WFMin` yields without an operator as a parameter.

The other parts. For any sets of rows, names, requests, calls, jobs and texts and any
bounds:

| Part | Theorem | Invariant, and why it is needed |
|---|---|---|
| `sip` | `PjsipConsistentAlways` | `SipInv`: the keys of stored rows name rows or are null, as `on_delete` leaves them (`SipTyped`); what is dialled follows from the rows, but a member outlives the user he was added for, so that `MembersHaveEndpoints` is inductive only together with them |
| `guards` | `AelConsistentAlways`, `GuardsHoldAlways` | `GuardsInv`: what a request has checked still holds as long as no change came between (`StillChecked`, `StillPasses`), names are unique for each kind (`UniqueNames`), the users' context is there and nobody in flight is about to take it away (`UsersKept`), and all damage is in `torn` (`DamageTold`) |
| `queues` | `QueuesConsistentAlways` | `QconfInv`: keys are of rows (`QueuesTyped`, `MembersTyped`, `RulesTyped`); whom the cleaner has not seen came later (`CleanerSees`); rows that nobody typed and the requests about to add one are together no more than the requests (`NoMore`, a sum of cardinalities: each step moves one from one side to the other) |
| `prov` | `FilesAreTheDevicesAlways` | `ProvInv`: addresses are apart (`DevicesApart`); what a job took along is what its row wants unless a row has changed since (`JobsTrue`); a file is fresh only if its device's row wants what it holds (`FreshTrue`) |
| `media` | `FilesAreFoundAlways` | `MediaInv`: an entry's file is that of its own upload (`EntriesPlayTheirs`, `EntriesAreOne`), a sound's file too (`SoundsAreTheirs`); the disk holds no more files than there were operations (`DiskHolds`), so a free name for the next one exists |
| `rec` | `FilesAreFoundAlways` | `RecInv`: until a run has slipped through the gap of lsof, one at most has a file in hand (`OneHasFile`); what was converted is gone (`DoneGone`) and what is gone was converted or old (`WavGone`); old mp3s go only after the copy (`CopiedFirst`); a converted recording is whole somewhere (`ConvertedSafe`) |
| `sync` | `WebhooksInSyncAlways` | `SyncedAlways`: who has read, and is not late, has read what he is about to commit (`ReadersInv`); without an excuse one request at most is between its write and its commit, and Redis has what it will commit (`SyncedInv`); `PendingInv` and `RowsTyped` say that changes and rows were accepted by the form |
| `blocks` | `BlocksReadAlways` | any text of known lines. The parse of a block is a recursive function on places and open braces; it exists because it asks for later places only (`ParseExists`), a block that it accepts has its lines looked at and its braces closed (`ParseReads`, `ParseFalls`), and in a well-formed text it never refuses (`WellFormedParses`): all by induction backwards over the places (`Backwards`) |
| `text` | `AelReadAsWrittenAlways` | `TextInv` says only that a text is one of the characters, whichever they are: what the scans compute is proved of every such text (below) |
| `pattern` | `PatternsReadAlways` | any text of signs. Brackets are counted up to each place (`UpTo`): where they close in turn, one more is open than closed at an opening one, hence the class behind it is one the regular expression finds (`BracketsClose`) |
| `agi` | `RecordingsKeptAlways` | `AgiInv`: a row that was not used is nobody's (`RowsOfCalls`), and a call that asked once and is going to record, or records, owns the row of its file (`RecordsOwn`, `RecordedOwn`) |
| `scripts` | `ScriptsTellTrueAlways` | `ScriptInv`: where a call's dials stand at each place of its script (`DialsTrue`); the dials have gone round the shuffled trunks so many times, and those at its beginning once more (`OrdersTrue`: `AttemptsGoRound` compares numbers of dials, which no step keeps by itself); what was told stays true (`ToldsTrue`) |
| `ami` | `RequestsAnsweredAlways` | `AmiInv`: an action is taken and rings within the bounds of the clock, and whoever waits waits longer (`Timely`); what was read of a leg and what is told agrees with the leg (`RepliesTrue`, `VerdictTrue`, `ListTrue`) |
| `lists` | `ListsConsistentAlways` | `ListsInv`: one row for a caller and a destination (`ListedRight`), what was promised is a row as it stands (`PromisesListed`), a form that is open writes to a key that is known (`FormsRight`) |
| `reports` | `ReportsAgreeAlways` | `ReportsInv`: what Asterisk has written of each call fits the call, and each row fits a call (`CallsFit`, `LogFits`, `RecordsFit`); the log is finite. `TotalsAgree` adds up a function over a set of hours in an order that is not known: of the sets for which the sum were not the number of rows, one has the least size, and taking an hour out of it leaves one that has less (`SumIsTheRows`) |

The scans of a text (`AelProofs`). Each is a fold over a sequence, which the community
modules define as a choice of a function on the sets of places. `FoldExists` shows that
there is one, `RunOf` that it goes from place to place (`BalanceRuns`, `ParamRuns` and so
on), so that two scans of one text can be compared place by place, by induction over the
places (`Forwards`):

* the stack of `check_balanced_brackets_and_quotes` and the levels of `parse_parameters`
  say the same (`Alongside`), so that a split is never inside a bracket or a string
  (`ParamsWhole`) and what it leaves out is the commas (`ParamsRejoined`);
* the stack never loses what is under its top (`StackBelow`): a bracket is closed where
  the stack is back at its height, by one of its kind, and in between as many of each kind
  are closed as are opened (`HeldSince`, `EachHasPartner`), which is `PairedOff`;
* `_find_matching_paren` and `validate_condition_expression` see the same strings where
  there is no backslash (`ConditionsWhole`), and `_count_structural_braces` has as many
  variables open as there are braces on the stack (`StaysNeutral`);
* a step's first parenthesis and its first equals sign outside brackets are where they
  were typed (`FirstAt`, `EqualsSecond`), hence it is of the kind that it was typed as
  (`ApplicationIs`, `JumpIs`, `AssignmentIs`), and `StepsRead` follows from the scans.

`ApplicationTypes` is `ApplicationTypeOK` from the same invariant. The assumptions on the
constants are the ones named in the modules; those that say something of the code:
`RecordingsAssumption` (the backup is kept no shorter than the wav files),
`ReportsAssumption` (the hours of the local clock do not go back with time, as clocks are put
back by an hour at most, at a full hour), `ProvAssumption` (normalising an address twice is
normalising it once), `SyncAssumption`, `GuardsAssumption` and `QueueAssumption` (stored
rows and forms are of the shape that the database and the forms let through).

## 9. What the application's properties leave open

Cases that the properties exclude by name, and other behaviour of the code that
the modelling brought to light. Each is a short sequence of calls that needs no
search, or one the documents are silent about, so none has a run of its own.

* Apply: an API apply that outlasts its lock leaves files of two applies mixed;
  the failure of a write leaves a mixed disk until the next apply, with an empty or
  half-written file if it comes after `open` (`Cut`), and so does
  staff that deletes a version while an apply has chosen it: the foreign key
  fails the commit after the files are written. Versions are counted by path and
  unique by name: two paths with the same last part clash for ever, and two
  applies that store such files can wait for each other in a circle
  (`NamesTellPaths` excludes that). A file that staff saves or imports
  under a path while two applies run lets both store a version of it.
* Names: with no row for the users' context stored, a context may take its name
  and is then generated twice or left out. The guard of `Queue.delete` does
  not look at webhooks; no signal follows a rename. The API refuses to delete a
  trunk that a group uses, the admin does not.
* Queues: the database has no uniqueness on (queue, interface); names that
  differ only in case collide in app_queue; a member's name with a comma shifts
  its columns; a timeout of 0 is written as a comment; a strategy saved as NULL is
  written as "None"; deleting announcements deletes their queues past
  `Queue.delete`, if the dialplan calls none of them; `add_queue_members` cannot create a queue, because the
  announcement may not be NULL; the cleanup of orphans deletes by key a row that
  was edited meanwhile.
* Lists: a form that was open while its row was deleted brings it back;
  an upsert of an expired row without a date leaves it expired; one whose new row is
  deleted before its creator is stored ends with an error; the import of
  contacts without `--update` can leave empty names; the import of a block list
  skips a caller who has a row for one destination, and fails on two.
* Requests: an Asterisk that takes an action later than the margin (or the quick
  timeout) lets the client be told a failure of a call that then rings and is
  answered, or of a pause that then holds: nothing cancels an action that is no longer
  waited for. `FailedIsOver` says exactly how late that is. A conference may be
  refused after its first legs ring, when the connection breaks in between; the
  hangup of the panel does not read the answer to its login. The status of
  a queue asked of the AMI may be partial, and blocks the one reactor thread.
* Scripts: after a cancelled dial `dial_with_retry` goes on to dial up to
  its number of attempts; a DIALSTATUS that is not set ends it without
  `TRUNK_GROUP_DIALLED`; a callback with a source longer than its column, or of an
  unknown service, ends without `CALLBACK_ADDED`. A call that asks twice to be
  recorded can share another's file, although the docstring calls the name unique.
* Validator: three kinds of text are accepted unread, which is all that
  `EveryLineRead` lets through: what stands before the brace that closes a block
  (`Garbage }`), the body of a block on one line (`if (x) { Garbage }`), and what is
  around a header that is in order, or between `}` and `else`. Some lines are refused though Asterisk
  would load them, among them `switch`, which `BLOCK_KEYWORDS` names and `is_block_start`
  does not, a step with a comment behind it, and an `else` without braces;
  `WellFormedAccepted` is about texts without them. An empty argument of an application passes, because the check
  returns before the number of parameters is looked at; `goto a,;` and a
  macro with an empty last parameter pass; `${{}}` counts as a closing brace; the pattern
  check accepts brackets that do not close in turn, and a pattern that is
  only `!` or `.` is not ordered last.
* Reports: a caller who was called back between giving up and his next attempt
  is counted by one report and not by another; a number written in two ways is one
  caller for the dashboard and two for the analytics.
* Provisioning: files are never removed, so an old password stays in the TFTP
  directory. A Grandstream telephone whose address has no letter is never provisioned:
  `islower` is not true of digits alone.
* Media and recordings: a sound uploaded again after its row was deleted gets a
  suffixed name while the dialplan plays the old file; a renamed sound keeps its file; a
  class with an empty directory is generated and uploaded to different paths. The line
  of a playlist entry has no extension: of two uploads of one name in different formats
  (`x.wav`, `x.gsm`) Asterisk may play either for both entries.
  Two conversions that overlap lose a recording only when one takes up a file that the
  other has in hand, or has converted, without lsof showing it (`slipped`): `find` has
  listed the file for the second run, the first converts it and removes the wav, the
  second finds no wav, lsof and the age let it pass, lame fails, and the mp3 is removed.
  A half-written mp3 is served while it is made.

## 10. Not modelled

* Pages, templates, translations, static files, charts, exports, pagination and
  schemas: they change no state, and what they compute is text.
* The consumer of the web dashboard: a relay from Redis to a websocket.
* The texts for Slack, push messages and webhooks, their signatures, logging.
* Options of the generated files that are one column written as one line, beyond
  the representatives in `QueueConfig` and `SipConfig`; files that are
  constant texts with a value put in.
* Authentication and authorisation of Django and of the REST API.
* Migrations, settings, and the deployment (`ansible`, `docker`, `*.sh`): scripts an
  operator runs one after the other; their restart policies are used as an
  assumption of `CallbackDaemon`.

Only model-checked, in summary: liveness (`EveryRequestSettles`, `EverythingSettles`),
because the prover has neither fairness nor ENABLED. Every other property of a passing
run is proved.
`PROJECT.json` lists every component with its status, every hazard with the
properties that cover it, and the map from definitions to lines.
