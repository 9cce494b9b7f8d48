---------------------------- MODULE ParkingULine ----------------------------
(***************************************************************************)
(* Parking slots ("ULINE"): numbers that the FastAGI server hands to calls.*)
(* A slot and its owner are two Redis keys, parking:uline:N and            *)
(* parking:uid:U, shared by three clients that know nothing of each other: *)
(*   - the FastAGI server allocates with a Lua script and sweeps, both in  *)
(*     its one reactor thread (services/fastagi);                          *)
(*   - the dashboard listener keeps asterisk:uid:U for the channels it     *)
(*     knows and frees the slot of a channel that hangs up; it runs one    *)
(*     asyncio task per AMI event, and a task can be overtaken at every    *)
(*     await (services/dashboard);                                         *)
(*   - the web page deletes everything on request (apps/dashboard).        *)
(* One action is one Redis command or one event.  Asterisk, Redis and the  *)
(* passing of time are external.                                           *)
(***************************************************************************)
EXTENDS Integers

CONSTANTS
  Call,        \* calls; the channel's uniqueid is never used again
  NoCall,      \* "no call"
  MinSlot,     \* PARKING_ULINE_MIN
  MaxSlot,     \* PARKING_ULINE_MAX
  Budget       \* bound: how many mishaps of each kind may happen in a behaviour

Kind == {"flush",    \* the page's "Flush all"
         "outage",   \* the listener dies or loses the AMI
         "redis",    \* a Redis command fails
         "expiry"}   \* a key reaches its TTL

ASSUME ParkingAssumption ==
  /\ NoCall \notin Call
  /\ MinSlot \in Nat \ {0}
  /\ MaxSlot \in Nat
  /\ Budget \subseteq [Kind -> Nat]

Slot == MinSlot .. MaxSlot
NoSlot == 0                      \* no key; as the channel variable, ULINE=0

VARIABLES
  chan,      \* the calls in Asterisk
  line,      \* the channel variable ULINE
  agi,       \* has the call a request that the script has not served?
  uline,     \* parking:uline:N, its field uniqueid
  uidkey,    \* parking:uid:U
  livekey,   \* the U for which asterisk:uid:U exists
  sentinel,  \* does asterisk:channels:all exist?
  link,      \* the listener and its AMI connection
  unlisted,  \* calls a new AMI connection has not heard of yet
  newtask,   \* tasks that will set asterisk:uid:U
  hang,      \* where the task of a call's Hangup event is
  got,       \* the slot that task read
  sweep,     \* sweep_parking_ulines
  flush,     \* uline_flush
  mishaps,   \* how often each kind has happened
  lost       \* history: calls that are up and whose slot was deleted

asterisk == <<chan, line>>
store == <<uline, uidkey, lost>>
listener == <<link, unlisted, newtask, hang, got>>
signs == <<livekey, sentinel>>
vars == <<asterisk, agi, store, listener, signs, sweep, flush, mishaps>>

NoVictim == [s \in Slot |-> NoCall]
SweepOff == [at |-> "off", todo |-> {}, active |-> {}, victim |-> NoVictim]
FlushOff == [at |-> "off", slots |-> {}, uids |-> {}]

\* One invariant for the types of the variables.
TypeOK ==
  /\ chan \in [Call -> {"idle", "up", "gone"}]
  /\ line \in [Call -> Slot \cup {NoSlot}]
  /\ agi \in [Call -> {"none", "asked"}]
  /\ uline \in [Slot -> Call \cup {NoCall}]
  /\ uidkey \in [Call -> Slot \cup {NoSlot}]
  /\ livekey \subseteq Call
  /\ sentinel \in BOOLEAN
  /\ link \in {"up", "joining", "dropped", "down"}
  /\ unlisted \subseteq Call
  /\ newtask \subseteq Call
  /\ hang \in [Call -> {"none", "todo", "get", "del"}]
  /\ got \in [Call -> Slot \cup {NoSlot}]
  /\ sweep \in [at : {"off", "scan", "delete"}, todo : SUBSET Call,
                active : SUBSET Call, victim : [Slot -> Call \cup {NoCall}]]
  /\ flush \in [at : {"off", "uids", "delete"}, slots : SUBSET Slot,
                uids : SUBSET Call]
  /\ mishaps \in [Kind -> Nat]
  /\ lost \subseteq Call

Init ==
  /\ chan = [c \in Call |-> "idle"]
  /\ line = [c \in Call |-> NoSlot]
  /\ agi = [c \in Call |-> "none"]
  /\ uline = NoVictim
  /\ uidkey = [c \in Call |-> NoSlot]
  /\ livekey = {}
  /\ sentinel = TRUE
  /\ link = "up"
  /\ unlisted = {}
  /\ newtask = {}
  /\ hang = [c \in Call |-> "none"]
  /\ got = [c \in Call |-> NoSlot]
  /\ sweep = SweepOff
  /\ flush = FlushOff
  /\ mishaps = [k \in Kind |-> 0]
  /\ lost = {}

Mishap(k) ==
  /\ mishaps' = [mishaps EXCEPT ![k] = @ + 1]
  /\ mishaps' \in Budget

\* DEL of parking:uline:s for s in S and parking:uid:u for u in U.
Delete(S, U) ==
  /\ uline' = [s \in Slot |-> IF s \in S THEN NoCall ELSE uline[s]]
  /\ uidkey' = [c \in Call |-> IF c \in U THEN NoSlot ELSE uidkey[c]]
  /\ lost' = lost \cup {c \in Call : chan[c] = "up" /\ \E s \in S : uline[s] = c}

-----------------------------------------------------------------------------
(* Asterisk. *)

\* The listener hears of an event only over a living connection.
Listening == link \in {"up", "joining"}

Newchannel(c) ==
  /\ chan[c] = "idle"
  /\ chan' = [chan EXCEPT ![c] = "up"]
  /\ newtask' = IF Listening THEN newtask \cup {c} ELSE newtask
  /\ UNCHANGED <<line, agi, store, link, unlisted, hang, got, signs, sweep, flush,
                 mishaps>>

Hangup(c) ==
  /\ chan[c] = "up"
  /\ chan' = [chan EXCEPT ![c] = "gone"]
  /\ line' = [line EXCEPT ![c] = NoSlot]
  /\ hang' = IF Listening THEN [hang EXCEPT ![c] = "todo"] ELSE hang
  /\ unlisted' = unlisted \ {c}
  /\ lost' = lost \ {c}
  /\ UNCHANGED <<agi, uline, uidkey, link, newtask, got, signs, sweep, flush,
                 mishaps>>

-----------------------------------------------------------------------------
(* FastAGI: parking_uline. *)

\* The dialplan runs the script, possibly more than once in a call.
Ask(c) ==
  /\ chan[c] = "up"
  /\ agi[c] = "none"
  /\ agi' = [agi EXCEPT ![c] = "asked"]
  /\ UNCHANGED <<asterisk, store, listener, signs, sweep, flush, mishaps>>

\* Mutant of ReactorFree: the sweep runs in a thread of its own.
SweepInOwnThread == TRUE

\* The sweep does not yield, so no request is served in the middle of one.
ReactorFree == sweep.at = "off"

\* Mutant of FirstFree: a slot whose owner the dashboard does not know is free.
FirstUnknown(s) ==
  /\ uline[s] \notin livekey
  /\ \A t \in Slot : uline[t] \notin livekey => s <= t

\* The lowest number without a key.
FirstFree(s) ==
  /\ uline[s] = NoCall
  /\ \A t \in Slot : uline[t] = NoCall => s <= t

\* Mutant of Script: the first GET is missing.
ScriptWithoutGet(c, n) ==
  \/ /\ \A s \in Slot : uline[s] # NoCall
     /\ n = NoSlot
     /\ UNCHANGED store
  \/ /\ n \in Slot /\ FirstFree(n)
     /\ uline' = [uline EXCEPT ![n] = c]
     /\ uidkey' = [uidkey EXCEPT ![c] = n]
     /\ UNCHANGED lost

\* The Lua script: a call that has a slot keeps it.  The slot it is told, and
\* the effect on Redis.  (A channel that Asterisk keeps no CDR of has no unique id to
\* give; all such channels would have one slot, that of "".  They are left out.)
Script(c, n) ==
  \/ /\ uidkey[c] # NoSlot
     /\ n = uidkey[c]
     /\ UNCHANGED store
  \/ /\ uidkey[c] = NoSlot
     /\ \A s \in Slot : uline[s] # NoCall
     /\ n = NoSlot
     /\ UNCHANGED store
  \/ /\ uidkey[c] = NoSlot
     /\ n \in Slot /\ FirstFree(n)
     /\ uline' = [uline EXCEPT ![n] = c]
     /\ uidkey' = [uidkey EXCEPT ![c] = n]
     /\ UNCHANGED lost

\* Mutant of Tell: str(None) when all slots are taken.
TellNone(c, n) == line' = IF chan[c] = "up"
                          THEN [line EXCEPT ![c] = IF n = NoSlot THEN NoCall ELSE n]
                          ELSE line

\* setVariable("ULINE", n): a dead channel takes no variable.
Tell(c, n) == line' = IF chan[c] = "up" THEN [line EXCEPT ![c] = n] ELSE line

\* The script, and setVariable of its result in the same turn of the reactor.
\* The request may be served after the call has hung up.
Allocate(c) ==
  /\ agi[c] = "asked"
  /\ ReactorFree
  /\ agi' = [agi EXCEPT ![c] = "none"]
  /\ \E n \in Slot \cup {NoSlot} : Script(c, n) /\ Tell(c, n)
  /\ UNCHANGED <<chan, listener, signs, sweep, flush, mishaps>>

\* Redis fails: the call is told 0, and the script may have run all the same.
AllocateFails(c) ==
  /\ agi[c] = "asked"
  /\ ReactorFree
  /\ Mishap("redis")
  /\ agi' = [agi EXCEPT ![c] = "none"]
  /\ Tell(c, NoSlot)
  /\ \/ UNCHANGED store
     \/ \E n \in Slot : Script(c, n)
  /\ UNCHANGED <<chan, listener, signs, sweep, flush>>

\* Asterisk closes the connection of a dead channel.
AgiClosed(c) ==
  /\ agi[c] = "asked"
  /\ chan[c] = "gone"
  /\ agi' = [agi EXCEPT ![c] = "none"]
  /\ UNCHANGED <<asterisk, store, listener, signs, sweep, flush, mishaps>>

-----------------------------------------------------------------------------
(* FastAGI: sweep_parking_ulines. *)

SweepBegin ==
  /\ sweep.at = "off"
  /\ sentinel
  /\ sweep' = [SweepOff EXCEPT !.at = "scan", !.todo = Call]
  /\ UNCHANGED <<asterisk, agi, store, listener, signs, flush, mishaps>>

\* SCAN asterisk:uid:*, which looks at each key at some moment of its own.
SweepScan(c) ==
  /\ sweep.at = "scan"
  /\ c \in sweep.todo
  /\ sweep' = [sweep EXCEPT !.todo = @ \ {c},
                            !.active = IF c \in livekey THEN @ \cup {c} ELSE @]
  /\ UNCHANGED <<asterisk, agi, store, listener, signs, flush, mishaps>>

\* SCAN parking:uline:* and the pipeline of HGETALL, one MULTI: no slot is
\* allocated in between, and a slot freed in between reads as empty.
SweepRead ==
  /\ sweep.at = "scan"
  /\ sweep.todo = {}
  /\ LET stale == {s \in Slot : uline[s] # NoCall /\ uline[s] \notin sweep.active}
     IN  sweep' = IF stale = {} THEN SweepOff
                  ELSE [SweepOff EXCEPT !.at = "delete",
                          !.victim = [s \in Slot |-> IF s \in stale THEN uline[s]
                                                     ELSE NoCall]]
  /\ UNCHANGED <<asterisk, agi, store, listener, signs, flush, mishaps>>

SweepDelete(s) ==
  /\ sweep.at = "delete"
  /\ sweep.victim[s] # NoCall
  /\ Delete({s}, {sweep.victim[s]})
  /\ LET rest == [sweep.victim EXCEPT ![s] = NoCall]
     IN  sweep' = IF rest = NoVictim THEN SweepOff
                  ELSE [sweep EXCEPT !.victim = rest]
  /\ UNCHANGED <<asterisk, agi, listener, signs, flush, mishaps>>

\* except Exception: the rest waits for the next sweep.
SweepFails ==
  /\ sweep.at # "off"
  /\ Mishap("redis")
  /\ sweep' = SweepOff
  /\ UNCHANGED <<asterisk, agi, store, listener, signs, flush>>

-----------------------------------------------------------------------------
(* The dashboard listener. *)

\* update_uid_state of handle_newchannel and handle_core_show_channel; an error
\* is logged.
SetUid(c) ==
  /\ c \in newtask
  /\ newtask' = newtask \ {c}
  /\ \/ livekey' = livekey \cup {c} /\ UNCHANGED mishaps
     \/ Mishap("redis") /\ UNCHANGED livekey
  /\ UNCHANGED <<asterisk, agi, store, link, unlisted, hang, got, sentinel,
                 sweep, flush>>

\* delete_uid_state of handle_hangup; an error is logged.
HangupDeleteUid(c) ==
  /\ hang[c] = "todo"
  /\ hang' = [hang EXCEPT ![c] = "get"]
  /\ \/ livekey' = livekey \ {c} /\ UNCHANGED mishaps
     \/ Mishap("redis") /\ UNCHANGED livekey
  /\ UNCHANGED <<asterisk, agi, store, link, unlisted, newtask, got, sentinel,
                 sweep, flush>>

\* GET parking:uid:U
HangupGet(c) ==
  /\ hang[c] = "get"
  /\ \/ /\ uidkey[c] # NoSlot
        /\ hang' = [hang EXCEPT ![c] = "del"]
        /\ got' = [got EXCEPT ![c] = uidkey[c]]
        /\ UNCHANGED mishaps
     \/ /\ uidkey[c] = NoSlot
        /\ hang' = [hang EXCEPT ![c] = "none"]
        /\ UNCHANGED <<got, mishaps>>
     \/ /\ Mishap("redis")
        /\ hang' = [hang EXCEPT ![c] = "none"]
        /\ UNCHANGED got
  /\ UNCHANGED <<asterisk, agi, store, link, unlisted, newtask, signs, sweep,
                 flush>>

\* DEL of the slot read before the await, whoever has it now.
HangupDelete(c) ==
  /\ hang[c] = "del"
  /\ hang' = [hang EXCEPT ![c] = "none"]
  /\ got' = [got EXCEPT ![c] = NoSlot]
  /\ \/ Delete({got[c]}, {c}) /\ UNCHANGED mishaps
     \/ Mishap("redis") /\ UNCHANGED store
  /\ UNCHANGED <<asterisk, agi, link, unlisted, newtask, signs, sweep, flush>>

\* The AMI connection is lost; the tasks go on.
Drop ==
  /\ Listening
  /\ Mishap("outage")
  /\ link' = "dropped"
  /\ unlisted' = {}
  /\ UNCHANGED <<asterisk, agi, store, newtask, hang, got, signs, sweep, flush>>

\* The process ends, and its tasks with it.
Die ==
  /\ link # "down"
  /\ Mishap("outage")
  /\ link' = "down"
  /\ unlisted' = {}
  /\ newtask' = {}
  /\ hang' = [c \in Call |-> "none"]
  /\ got' = [c \in Call |-> NoSlot]
  /\ UNCHANGED <<asterisk, agi, store, signs, sweep, flush>>

\* _on_reconnected, or the start of process(): events arrive again, the memory
\* is empty, asterisk:channels:all is written, CoreShowChannels is sent.
Reconnect ==
  /\ link \in {"dropped", "down"}
  /\ link' = "joining"
  /\ unlisted' = {c \in Call : chan[c] = "up"}
  /\ sentinel' = TRUE
  /\ UNCHANGED <<asterisk, agi, store, newtask, hang, got, livekey, sweep,
                 flush, mishaps>>

\* A CoreShowChannel event for each channel that is still up.
ListChannels ==
  /\ link = "joining"
  /\ link' = "up"
  /\ newtask' = newtask \cup unlisted
  /\ unlisted' = {}
  /\ UNCHANGED <<asterisk, agi, store, hang, got, signs, sweep, flush, mishaps>>

-----------------------------------------------------------------------------
(* The web page: uline_flush.  Each SCAN is one step. *)

FlushScanSlots ==
  /\ flush.at = "off"
  /\ Mishap("flush")
  /\ flush' = [at |-> "uids", slots |-> {s \in Slot : uline[s] # NoCall}, uids |-> {}]
  /\ UNCHANGED <<asterisk, agi, store, listener, signs, sweep>>

FlushScanUids ==
  /\ flush.at = "uids"
  /\ flush' = [flush EXCEPT !.at = "delete",
                            !.uids = {c \in Call : uidkey[c] # NoSlot}]
  /\ UNCHANGED <<asterisk, agi, store, listener, signs, sweep, mishaps>>

FlushDelete ==
  /\ flush.at = "delete"
  /\ flush' = FlushOff
  /\ Delete(flush.slots, flush.uids)
  /\ UNCHANGED <<asterisk, agi, listener, signs, sweep, mishaps>>

\* Redis is unavailable: the page answers 503.  The flush itself is counted.
FlushFails ==
  /\ flush.at # "off"
  /\ flush' = FlushOff
  /\ UNCHANGED <<asterisk, agi, store, listener, signs, sweep, mishaps>>

-----------------------------------------------------------------------------
(* Redis: keys reach their TTL. *)

\* The two keys of an allocation were given the same TTL by one script.
ExpireSlot(s) ==
  /\ uline[s] # NoCall
  /\ Mishap("expiry")
  /\ Delete({s}, {c \in Call : uline[s] = c /\ uidkey[c] = s})
  /\ UNCHANGED <<asterisk, agi, listener, signs, sweep, flush>>

\* parking:uid:U whose slot was deleted without it, or asterisk:uid:U.
ExpireUid(c) ==
  /\ Mishap("expiry")
  /\ \/ /\ uidkey[c] # NoSlot
        /\ uline[uidkey[c]] # c
        /\ Delete({}, {c})
        /\ UNCHANGED livekey
     \/ /\ c \in livekey
        /\ livekey' = livekey \ {c}
        /\ UNCHANGED store
  /\ UNCHANGED <<asterisk, agi, listener, sentinel, sweep, flush>>

\* A living listener writes asterisk:channels:all every 30 seconds: the key
\* expires at most once in an outage, which is counted.
ExpireSentinel ==
  /\ sentinel
  /\ link = "down"
  /\ sentinel' = FALSE
  /\ UNCHANGED <<asterisk, agi, store, listener, livekey, sweep, flush, mishaps>>

-----------------------------------------------------------------------------
FastAGI(c) == Ask(c) \/ Allocate(c) \/ AllocateFails(c) \/ AgiClosed(c)
Sweep == \/ SweepBegin \/ SweepRead \/ SweepFails
         \/ \E c \in Call : SweepScan(c)
         \/ \E s \in Slot : SweepDelete(s)
Task(c) == SetUid(c) \/ HangupDeleteUid(c) \/ HangupGet(c) \/ HangupDelete(c)
Connection == Drop \/ Die \/ Reconnect \/ ListChannels
Flush == FlushScanSlots \/ FlushScanUids \/ FlushDelete \/ FlushFails
Expiry == \/ ExpireSentinel
          \/ \E s \in Slot : ExpireSlot(s)
          \/ \E c \in Call : ExpireUid(c)

Next ==
  \/ \E c \in Call : Newchannel(c) \/ Hangup(c) \/ FastAGI(c) \/ Task(c)
  \/ Sweep
  \/ Connection
  \/ Flush
  \/ Expiry

Spec == Init /\ [][Next]_vars

-----------------------------------------------------------------------------
(* Properties. *)

\* Two calls that are up are told the same number only after one of them was
\* robbed of its slot: the script itself never hands a slot out twice, whatever
\* the keys look like that the other clients leave behind, including a
\* parking:uid key without its slot.
SharedOnlyIfLost ==
  \A c, d \in Call :
    /\ c # d
    /\ line[c] # NoSlot /\ line[c] = line[d]
    => c \in lost \/ d \in lost

\* A call holds at most one slot, though it may ask again after its slot was
\* swept, expired or freed by another call's hangup.  Only a flush, whose two
\* scans may see one key of an allocation and not the other, breaks this.
OneSlotPerCall ==
  mishaps["flush"] = 0 =>
    \A s, t \in Slot : uline[s] # NoCall /\ uline[s] = uline[t] => s = t

\* The sweep deletes keys it read some steps before.  By then a slot may be free
\* but never another call's, because the sweep and the script share a thread.
SweepTakesOwnSlot ==
  \A s \in Slot : sweep.victim[s] # NoCall => uline[s] \in {NoCall, sweep.victim[s]}

\* While no listener runs, the sweep takes no slot from a call that is up: "slot
\* must NOT be released because dashboard is offline".
OfflineSweepSparesLive ==
  [][\A s \in Slot :
       link = "down" /\ SweepDelete(s) => sweep.victim[s] = NoCall
                                          \/ chan[sweep.victim[s]] # "up"]_vars
=============================================================================
