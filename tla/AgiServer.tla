------------------------------- MODULE AgiServer -------------------------------
(***************************************************************************)
(* The FastAGI server's decisions on recording and on waking a phone       *)
(* (services/fastagi/fastagi.py): mixmonitor with the rows of              *)
(* core_monitor_filenames, and push-wakeup.  One reactor thread serves all *)
(* calls: what a handler does before its first AGI command is one step,    *)
(* then each command is a step, and the channel may hang up at any of them.*)
(* The other scripts of this server are in ParkingULine and in             *)
(* CallbackDaemon (dial-trunk-group).                                      *)
(***************************************************************************)
EXTENDS Naturals, Sequences, FiniteSets, Functions, Maps

CONSTANTS
  Call,        \* calls, by unique id
  NoCall,
  Parties,     \* of a call, its caller and destination
  Safe,        \* the parties as they are written into a path
  Requested,   \* what the API may have requested: files with their parties
  Rules,       \* what staff stores in a Monitor row
  MaxTime,     \* bound: seconds
  MaxAsks,     \* bound: how often a call asks to be recorded
  MaxPolls     \* PUSH_WAIT_TIMEOUT / PUSH_POLL_INTERVAL

\* A Monitor row: none, or the one of its two flags that is set.
Rule == {"none", "enable", "disable"}

ASSUME AgiAssumption ==
  /\ NoCall \notin Call
  /\ Rules \subseteq Rule
  /\ MaxTime \in Nat \ {0} /\ MaxAsks \in Nat /\ MaxPolls \in Nat
  /\ DOMAIN Parties = Call /\ DOMAIN Safe = Range(Parties)
  /\ \A requested \in Requested : \A f \in DOMAIN requested :
       f[1] = 0 /\ requested[f] \in Range(Parties)

\* A file is named by the second in which it is asked for and the parties; 0 stands
\* for the names that the API chose.
File == {<<time, parties>> : time \in 0 .. MaxTime, parties \in Range(Safe)}
NoFile == <<0, "none">>
Files == File \cup UNION {DOMAIN requested : requested \in Requested}

VARIABLES
  clock,      \* the second
  allow,      \* Settings.allow_monitor
  rule,       \* the Monitor row of each pair of parties
  monitors,       \* core_monitor_filenames, by filename
  script,     \* of each call, the AGI commands that are left to send
  file,       \* the file that its handler has chosen
  asks,       \* how often the call has asked to be recorded
  polls,      \* how often push-wakeup has asked for contacts
  contact,    \* whether the phone has registered
  recording   \* history: who records into which file

agiVars == <<clock, allow, rule, monitors, script, file, asks, polls, contact, recording>>

Command == {"MIXMONITOR=1", "MIXMONITOR=0", "record", "push", "contacts", "finish"}

\* One invariant for the types of the variables.
AgiTypeOK ==
  /\ clock \in 1 .. MaxTime /\ allow \in BOOLEAN
  /\ rule \in [Range(Parties) -> Rule]
  /\ \A f \in DOMAIN monitors :
       /\ f \in Files
       /\ monitors[f].parties \in Range(Parties) /\ monitors[f].call \in Call \cup {NoCall}
       /\ monitors[f].requested \in BOOLEAN /\ monitors[f].used \in BOOLEAN
  /\ script \in [Call -> Seq(Command)]
  /\ file \in [Call -> Files \cup {NoFile}]
  /\ asks \in [Call -> 0 .. MaxAsks] /\ polls \in [Call -> 0 .. MaxPolls]
  /\ contact \in BOOLEAN
  /\ \A r \in recording : r[1] \in Files /\ r[2] \in Call

-----------------------------------------------------------------------------

\* get_monitor_status: the row of exactly these parties, or the setting.
MonitorStatus(parties) ==
  CASE rule[parties] = "enable" -> TRUE
    [] rule[parties] = "disable" -> FALSE
    [] OTHER -> allow

\* Mutant of Reusable: a row is taken again after it was used.
ReusableAgain(parties) ==
  {f \in DOMAIN monitors : monitors[f].parties = parties /\ monitors[f].requested}

\* The rows that the API has requested for these parties and no call has used.
Reusable(parties) ==
  {f \in DOMAIN monitors : monitors[f].parties = parties /\ monitors[f].requested /\ ~monitors[f].used}

MonitorOf(c) == {f \in DOMAIN monitors : monitors[f].call = c}

\* The name of a file: the second and the parties.
NewFile(parties) == <<clock, Safe[parties]>>

\* Mutant of Conflict: rows conflict by their parties.
ConflictByParties(c) == \E f \in DOMAIN monitors : monitors[f].parties = Parties[c]

\* The call has a row: ON CONFLICT (cdr_uniqueid) DO NOTHING.
Conflict(c) == MonitorOf(c) # {}

\* Mutant of InsertFails: the name is not unique in the table.
InsertFailsNever(f, c) == FALSE

\* The INSERT fails on a filename that is there.
InsertFails(f, c) == ~Conflict(c) /\ f \in DOMAIN monitors

AgiInit ==
  /\ clock = 1 /\ allow \in BOOLEAN
  /\ rule = [p \in Range(Parties) |-> "none"]
  /\ monitors \in {[f \in DOMAIN asked |->
                 [parties |-> asked[f], call |-> NoCall, requested |-> TRUE, used |-> FALSE]]
                : asked \in Requested}
  /\ script = [c \in Call |-> << >>]
  /\ file = [c \in Call |-> NoFile]
  /\ asks = [c \in Call |-> 0] /\ polls = [c \in Call |-> 0]
  /\ contact = FALSE /\ recording = {}

Begin(c, commands) == script' = [script EXCEPT ![c] = commands]

\* A call connects for mixmonitor and is not to be recorded.
Unmonitored(c) ==
  /\ script[c] = << >> /\ asks[c] < MaxAsks
  /\ ~MonitorStatus(Parties[c])
  /\ asks' = [asks EXCEPT ![c] = @ + 1]
  /\ Begin(c, <<"MIXMONITOR=0", "finish">>)
  /\ UNCHANGED <<clock, allow, rule, monitors, file, polls, contact, recording>>

\* The handler has its file: the directory is made, and the commands follow.
Chosen(c, f) ==
  /\ file' = [file EXCEPT ![c] = f]
  /\ \/ Begin(c, <<"MIXMONITOR=1", "record", "finish">>)
     \/ Begin(c, << >>)  \* makedirs fails: the connection is dropped

\* get_monitor_filename takes the first file that was requested for these parties and
\* writes the call's unique id into its row, unless the call has a row.
Reuse(c, f) ==
  /\ script[c] = << >> /\ asks[c] < MaxAsks
  /\ MonitorStatus(Parties[c]) /\ f \in Reusable(Parties[c])
  /\ asks' = [asks EXCEPT ![c] = @ + 1]
  /\ IF MonitorOf(c) \subseteq {f}
     THEN /\ monitors' = [monitors EXCEPT ![f].used = TRUE, ![f].call = c]
          /\ Chosen(c, f)
     ELSE UNCHANGED <<monitors, script, file>>
  /\ UNCHANGED <<clock, allow, rule, polls, contact, recording>>

\* Or it inserts a row with a new name; a call that has one keeps it, and is given
\* the new name all the same.
Insert(c) ==
  LET f == NewFile(Parties[c]) IN
  /\ script[c] = << >> /\ asks[c] < MaxAsks
  /\ MonitorStatus(Parties[c]) /\ Reusable(Parties[c]) = {}
  /\ asks' = [asks EXCEPT ![c] = @ + 1]
  /\ IF InsertFails(f, c)
     THEN UNCHANGED <<monitors, script, file>>
     ELSE /\ monitors' = IF ~Conflict(c)
                     THEN With(monitors, f, [parties |-> Parties[c], call |-> c,
                                         requested |-> FALSE, used |-> FALSE])
                     ELSE monitors
          /\ Chosen(c, f)
  /\ UNCHANGED <<clock, allow, rule, polls, contact, recording>>

\* A call to a browser connects for push-wakeup.
PushWakeup(c) ==
  /\ script[c] = << >>
  /\ Begin(c, <<"push", "contacts", "finish">>)
  /\ polls' = [polls EXCEPT ![c] = 0]
  /\ UNCHANGED <<clock, allow, rule, monitors, file, asks, contact, recording>>

\* Asterisk answers a command that sets a variable, starts MixMonitor, or is the last.
Answer(c) ==
  /\ script[c] # << >> /\ Head(script[c]) \notin {"push", "contacts"}
  /\ Begin(c, Tail(script[c]))
  /\ recording' = IF Head(script[c]) = "record"
                  THEN recording \cup {<<file[c], c>>} ELSE recording
  /\ UNCHANGED <<clock, allow, rule, monitors, file, asks, polls, contact>>

\* The push server answers or refuses; a refusal skips the waiting.
Pushed(c) ==
  /\ script[c] # << >> /\ Head(script[c]) = "push"
  /\ Begin(c, Tail(script[c])) \/ Begin(c, <<"finish">>)
  /\ UNCHANGED <<clock, allow, rule, monitors, file, asks, polls, contact, recording>>

\* Mutant of Waited: one poll too many.
WaitedMore(c) == polls[c] > MaxPolls

\* PUSH_WAIT_TIMEOUT is over.
Waited(c) == polls[c] = MaxPolls

\* PJSIP_DIAL_CONTACTS: registered, or half a second later again, up to the timeout.
Contacts(c) ==
  /\ script[c] # << >> /\ Head(script[c]) = "contacts"
  /\ IF contact \/ Waited(c)
     THEN Begin(c, Tail(script[c])) /\ UNCHANGED polls
     ELSE polls' = [polls EXCEPT ![c] = @ + 1] /\ UNCHANGED script
  /\ UNCHANGED <<clock, allow, rule, monitors, file, asks, contact, recording>>

\* The channel hangs up or the command fails: handle_failure finishes.
CallFails(c) ==
  /\ script[c] # << >>
  /\ Begin(c, << >>)
  /\ UNCHANGED <<clock, allow, rule, monitors, file, asks, polls, contact, recording>>

\* A second passes; staff changes the setting or a rule; the phone registers.
Tick ==
  /\ clock < MaxTime /\ clock' = clock + 1
  /\ UNCHANGED <<allow, rule, monitors, script, file, asks, polls, contact, recording>>

StaffRules ==
  /\ \/ allow' = ~allow /\ UNCHANGED rule
     \/ \E p \in Range(Parties), r \in Rules :
          rule' = [rule EXCEPT ![p] = r] /\ UNCHANGED allow
  /\ UNCHANGED <<clock, monitors, script, file, asks, polls, contact, recording>>

Registers ==
  /\ contact' = TRUE
  /\ UNCHANGED <<clock, allow, rule, monitors, script, file, asks, polls, recording>>

AgiNext ==
  \/ \E c \in Call : \/ Unmonitored(c) \/ Insert(c) \/ PushWakeup(c) \/ Answer(c)
                     \/ Pushed(c) \/ Contacts(c) \/ CallFails(c)
                     \/ \E f \in DOMAIN monitors : Reuse(c, f)
  \/ Tick \/ StaffRules \/ Registers

AgiSpec == AgiInit /\ [][AgiNext]_agiVars

-----------------------------------------------------------------------------
(* Properties.                                                                 *)

\* Two calls record into one file only if one of them has asked twice: for a call that
\* already has a row the insertion does nothing, and the name it is given is nobody's.
FileShared ==
  \A r, s \in recording :
    r[1] = s[1] /\ r[2] # s[2] => asks[r[2]] > 1 \/ asks[s[2]] > 1

\* A recording can be found: a call that has asked once and records has the row with
\* its file, whatever was requested through the API and whoever asked in its second.
RecordingFound ==
  \A r \in recording :
    asks[r[2]] = 1 => r[1] \in DOMAIN monitors /\ monitors[r[1]].call = r[2]

\* A row of the table is never handed to another call.
RowsKeepTheirCall ==
  [][\A f \in DOMAIN monitors :
       monitors[f].call # NoCall => f \in DOMAIN monitors' /\ monitors'[f].call = monitors[f].call]_agiVars

\* Each recording has its own file and can be found by its call, for good.
RecordingsKept == [](FileShared /\ RecordingFound) /\ RowsKeepTheirCall
=============================================================================
