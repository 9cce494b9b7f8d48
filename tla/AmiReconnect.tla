---------------------------- MODULE AmiReconnect ----------------------------
(***************************************************************************)
(* The dashboard listener's connection to Asterisk (services/dashboard).   *)
(* The thread that reads a connection calls on_disconnect when it ends; the*)
(* asyncio loop pings every 30 seconds.  Either starts a thread that       *)
(* connects again, unless one is running.  The new client feeds the loop   *)
(* with events; the old one is not logged off.                             *)
(* One action is what a thread does between two looks at what it shares    *)
(* with the others: self.ami, _reconnecting, the sockets.                  *)
(***************************************************************************)
EXTENDS Naturals, FiniteSets

CONSTANT MaxBreaks     \* bound: lost connections

ASSUME ReconnectAssumption == MaxBreaks \in Nat

\* A break is noticed at most by its reader and by one ping, and each starts at
\* most one new connection.
Conn == 1 .. 1 + 2 * MaxBreaks
NoConn == 0

VARIABLES
  opened,     \* how many connections there were
  alive,      \* those that still stand
  feeding,    \* those that have an event listener
  unnoticed,  \* broken ones whose reader has not called on_disconnect
  current,    \* self.ami
  flag,       \* _reconnecting
  looper,     \* the reconnect threads, by the step they are at
  ping,       \* the client that is being pinged
  breaks,     \* how many connections were lost
  stale       \* history: a loss was acted upon after the connection was replaced

amiVars == <<opened, alive, feeding, unnoticed, current, flag, looper, ping, breaks,
             stale>>

Step == {"connect", "attach", "leave"}

\* One invariant for the types of the variables.
ReconnectTypeOK ==
  /\ opened \in Conn
  /\ alive \subseteq Conn
  /\ feeding \subseteq Conn
  /\ unnoticed \subseteq Conn
  /\ current \in Conn
  /\ flag \in BOOLEAN
  /\ looper \in [Step -> Nat]
  /\ ping \in Conn \cup {NoConn}
  /\ breaks \in 0 .. MaxBreaks
  /\ stale \in BOOLEAN

NoLooper == [s \in Step |-> 0]

\* __init__ and process have connected.
ReconnectInit ==
  /\ opened = 1
  /\ alive = {1} /\ feeding = {1} /\ unnoticed = {}
  /\ current = 1
  /\ flag = FALSE
  /\ looper = NoLooper
  /\ ping = NoConn
  /\ breaks = 0
  /\ stale = FALSE

Break(n) ==
  /\ n \in alive
  /\ breaks < MaxBreaks
  /\ breaks' = breaks + 1
  /\ alive' = alive \ {n}
  /\ unnoticed' = unnoticed \cup {n}
  /\ UNCHANGED <<opened, feeding, current, flag, looper, ping, stale>>

\* Mutant of StartReconnect: _reconnecting is not looked at.
StartReconnectAlways(n) ==
  /\ flag' = TRUE
  /\ looper' = [looper EXCEPT !["connect"] = @ + 1]
  /\ stale' = (stale \/ n # current)

\* _start_reconnect, for the loss of connection n.
StartReconnect(n) ==
  /\ flag' = TRUE
  /\ IF flag THEN UNCHANGED <<looper, stale>>
     ELSE /\ looper' = [looper EXCEPT !["connect"] = @ + 1]
          /\ stale' = (stale \/ n # current)

\* on_disconnect, called by the thread that reads connection n.
OnDisconnect(n) ==
  /\ n \in unnoticed
  /\ unnoticed' = unnoticed \ {n}
  /\ StartReconnect(n)
  /\ UNCHANGED <<opened, alive, feeding, current, ping, breaks>>

Moves(from, to) == looper' = [looper EXCEPT ![from] = @ - 1, ![to] = @ + 1]

\* _reconnect_loop: self.ami = self.ami_connect().  An attempt that fails is made
\* again 5 seconds later.
Connect ==
  /\ looper["connect"] > 0
  /\ opened + 1 \in Conn
  /\ opened' = opened + 1
  /\ alive' = alive \cup {opened'}
  /\ current' = opened'
  /\ Moves("connect", "attach")
  /\ UNCHANGED <<feeding, unnoticed, flag, ping, breaks, stale>>

\* Mutant of Feed: the event listener is added to the client that is pinged.
FeedPinged ==
  /\ looper["attach"] > 0
  /\ feeding' = feeding \cup {ping}
  /\ Moves("attach", "leave")
  /\ UNCHANGED <<opened, alive, unnoticed, current, flag, ping, breaks, stale>>

\* add_event_listener; _on_reconnected is scheduled; break.
Feed ==
  /\ looper["attach"] > 0
  /\ feeding' = feeding \cup {current}
  /\ Moves("attach", "leave")
  /\ UNCHANGED <<opened, alive, unnoticed, current, flag, ping, breaks, stale>>

\* Mutant of LeaveLoop: without `break` the thread connects again.
LeaveLoopNever ==
  /\ looper["leave"] > 0
  /\ flag' = FALSE
  /\ Moves("leave", "connect")
  /\ UNCHANGED <<opened, alive, feeding, unnoticed, current, ping, breaks, stale>>

\* The flag is cleared and the thread ends.
LeaveLoop ==
  /\ looper["leave"] > 0
  /\ flag' = FALSE
  /\ looper' = [looper EXCEPT !["leave"] = @ - 1]
  /\ UNCHANGED <<opened, alive, feeding, unnoticed, current, ping, breaks, stale>>

\* health_check_loop: self.ami is read ...
PingStart ==
  /\ ping = NoConn
  /\ ping' = current
  /\ UNCHANGED <<opened, alive, feeding, unnoticed, current, flag, looper, breaks,
                 stale>>

\* Mutant of PingEnd: a failed ping is only logged.
PingEndLogged ==
  /\ ping # NoConn
  /\ ping' = NoConn
  /\ UNCHANGED <<opened, alive, feeding, unnoticed, current, flag, looper, breaks,
                 stale>>

\* ... and the action sent; an exception starts a reconnect.
PingEnd ==
  /\ ping # NoConn
  /\ ping' = NoConn
  /\ IF ping \in alive THEN UNCHANGED <<flag, looper, stale>>
     ELSE StartReconnect(ping)
  /\ UNCHANGED <<opened, alive, feeding, unnoticed, current, breaks>>

ReconnectNext ==
  \/ \E n \in Conn : Break(n) \/ OnDisconnect(n)
  \/ Connect \/ Feed \/ LeaveLoop
  \/ PingStart \/ PingEnd

\* Threads run, the health check pings, and in the end an attempt succeeds.
\* Nothing is assumed of the readers.
ReconnectFairness ==
  /\ WF_amiVars(Connect) /\ WF_amiVars(Feed) /\ WF_amiVars(LeaveLoop)
  /\ WF_amiVars(PingStart) /\ WF_amiVars(PingEnd)

ReconnectSpec == ReconnectInit /\ [][ReconnectNext]_amiVars /\ ReconnectFairness

-----------------------------------------------------------------------------
(* Properties. *)

\* Connections are made by one thread at a time, however the losses are noticed
\* (_start_reconnect).
OneReconnectLoop ==
  looper["connect"] + looper["attach"] + looper["leave"] <= 1

\* Two clients feed the same events to the loop only after a loss was acted upon
\* when its connection had been replaced already: by a reader that noticed late, or
\* by a ping that had read self.ami before (on_disconnect, health_check_loop).
TwoFeedsOnlyIfStale == Cardinality(alive \cap feeding) > 1 => stale

\* The listener is connected again in the end, also if a connection breaks while
\* the flag of the last reconnect is still set and on_disconnect returns at once:
\* the next ping finds out.
ComesBack == <>[](current \in alive \cap feeding)

\* Losses noticed by several threads make one connection.
OneConnection == OneReconnectLoop /\ TwoFeedsOnlyIfStale
=============================================================================
