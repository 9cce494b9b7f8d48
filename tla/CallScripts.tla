----------------------------- MODULE CallScripts -----------------------------
(***************************************************************************)
(* FastAGI scripts that answer the dialplan in a channel variable          *)
(* (services/fastagi/fastagi.py): dial-trunk-group, which dials the peers  *)
(* of a core_trunkgroup one after the other, queue-status and              *)
(* add-callback, with the rows they read (core/models.py and               *)
(* apps/callback/models.py).  One reactor thread serves all of them: what  *)
(* a script does between two AGI commands is one step, and between two     *)
(* commands other calls and staff take theirs.                             *)
(***************************************************************************)
EXTENDS Naturals, Sequences, FiniteSets, SequencesExt, Maps

CONSTANTS
  Placed,       \* calls that ask for something, each once
  Trunk,        \* rows of core_sippeer
  MaxAttempts,  \* the argument of dial-trunk-group
  Agent,        \* members of the queue
  MaxStaff      \* bound: writes of staff, of the listener and of Asterisk

ASSUME ScriptAssumption ==
  /\ Trunk # {} /\ IsFiniteSet(Trunk) /\ MaxAttempts \in Nat /\ MaxStaff \in Nat

\* What DIAL leaves in DIALSTATUS; "unset" when it left nothing.
DialStatus == {"ANSWER", "BUSY", "NOANSWER", "CHANUNAVAIL", "CANCEL", "unset"}

\* What a queue shows of a member, and of all: who may be called, how many wait.
Sight == [Agent -> [status : {"1", "2"}, paused : BOOLEAN]]
NoSight == << >>

VARIABLES
  trunks,      \* the peers that exist
  group,       \* core_trunkgroup_sip_peers of the one group
  service,     \* whether the service of the callbacks exists
  stored,       \* callback_number: the calls that are in it
  shown,       \* the queue in Asterisk
  cached,      \* asterisk:queue:<name> in Redis
  doing,       \* of each call, where its script is
  shuffled,    \* the peers of a dial-trunk-group in the order of a call
  dials,       \* history: the peers that were dialled, with their DIALSTATUS
  answers,     \* the channel variables that scripts have set
  staff        \* writes so far

scriptVars ==
  <<trunks, group, service, stored, shown, cached, doing, shuffled, dials, answers, staff>>

Place == {"new", "dial", "status", "tell 0", "tell 1", "finish", "over", "failed"}

\* One invariant for the types of the variables.
ScriptTypeOK ==
  /\ trunks \subseteq Trunk /\ group \subseteq trunks
  /\ service \in BOOLEAN /\ stored \subseteq Placed
  /\ shown \in Sight /\ cached \in Sight \cup {NoSight}
  /\ doing \in [Placed -> Place]
  /\ shuffled \in [Placed -> Seq(Trunk)]
  /\ dials \in [Placed -> Seq(Trunk \X DialStatus)]
  /\ \A t \in answers : t.call \in Placed
  /\ staff \in 0 .. MaxStaff

ScriptInit ==
  /\ trunks = Trunk /\ group = Trunk
  /\ service = TRUE /\ stored = {}
  /\ shown = [m \in Agent |-> [status |-> "1", paused |-> FALSE]]
  /\ cached = NoSight
  /\ doing = [c \in Placed |-> "new"]
  /\ shuffled = [c \in Placed |-> << >>]
  /\ dials = [c \in Placed |-> << >>]
  /\ answers = {} /\ staff = 0

-----------------------------------------------------------------------------
(* Staff, the dashboard's listener and Asterisk *)

MayStaff == staff < MaxStaff /\ staff' = staff + 1

rest == <<doing, shuffled, dials, answers>>

\* The group's members are set as a whole; peers that are gone cannot be named.
SetMembers(members) ==
  /\ MayStaff
  /\ members \subseteq trunks /\ members # group
  /\ group' = members
  /\ UNCHANGED <<trunks, service, stored, shown, cached, rest>>

\* A peer is deleted: its rows of the group go with it.
PeerDeleted(p) ==
  /\ MayStaff
  /\ p \in trunks
  /\ trunks' = trunks \ {p} /\ group' = group \ {p}
  /\ UNCHANGED <<service, stored, shown, cached, rest>>

\* Callbacks PROTECT their service.
ServiceDeleted ==
  /\ MayStaff
  /\ service /\ stored = {}
  /\ service' = FALSE
  /\ UNCHANGED <<trunks, group, stored, shown, cached, rest>>

\* A member takes a call or is paused.
MemberChanges(m) ==
  /\ MayStaff
  /\ \E to \in [status : {"1", "2"}, paused : BOOLEAN] :
       to # shown[m] /\ shown' = [shown EXCEPT ![m] = to]
  /\ UNCHANGED <<trunks, group, service, stored, cached, rest>>

\* The listener stores what it has seen, or Redis loses it.
QueueCached ==
  /\ MayStaff
  /\ cached' \in {shown, NoSight} \ {cached}
  /\ UNCHANGED <<trunks, group, service, stored, shown, rest>>

world == <<trunks, group, service, stored, shown, cached, staff>>

-----------------------------------------------------------------------------
(* Scripts *)

Goto(c, place) == doing' = [doing EXCEPT ![c] = place]

Tells(c, name, value) == answers' = answers \cup {[call |-> c, name |-> name, value |-> value]}

\* Mutant of TrunkEntries: peers of every group.
TrunkEntriesOfAll == trunks

\* get_trunk_group_entries.
TrunkEntries == group

\* dial_trunk_group: the peers are read once and shuffled.
BeginDial(c) ==
  /\ doing[c] = "new"
  /\ IF TrunkEntries = {}
     THEN Goto(c, "tell 0") /\ UNCHANGED shuffled
     ELSE /\ \E order \in SetToSeqs(TrunkEntries) : shuffled' = [shuffled EXCEPT ![c] = order]
          /\ Goto(c, IF MaxAttempts = 0 THEN "tell 0" ELSE "dial")
  /\ UNCHANGED <<world, dials, answers>>

\* Mutant of PeerOf: every attempt takes the first peer.
PeerOfFirst(c) == shuffled[c][1]

\* The peer of the next attempt.
PeerOf(c) == shuffled[c][(Len(dials[c]) % Len(shuffled[c])) + 1]

\* What may come of a dial: a peer that is gone cannot be reached; once the caller has
\* hung up, no dial is answered.
Results(c) ==
  IF \E i \in DOMAIN dials[c] : dials[c][i][2] = "CANCEL" THEN {"CANCEL", "unset"}
  ELSE IF PeerOf(c) \notin trunks THEN {"CHANUNAVAIL", "CANCEL"}
  ELSE DialStatus

\* EXEC DIAL returns when the call has ended.
Dial(c) ==
  /\ doing[c] = "dial"
  /\ \E status \in Results(c) :
       dials' = [dials EXCEPT ![c] = Append(@, <<PeerOf(c), status>>)]
  /\ Goto(c, "status")
  /\ UNCHANGED <<world, shuffled, answers>>

\* Mutant of Stops: a busy number is called through the next peer.
StopsUnlessBusy == {"NOANSWER"}

\* The callee was reached and did not take the call.
Stops == {"BUSY", "NOANSWER"}

\* Mutant of Exhausted: one attempt more.
ExhaustedLate(c) == Len(dials[c]) > MaxAttempts

Exhausted(c) == Len(dials[c]) >= MaxAttempts

\* GET VARIABLE DIALSTATUS; a variable that is not set is an AGICommandFailure, and the
\* script ends without an answer.
ReadStatus(c) ==
  LET status == Last(dials[c])[2] IN
  /\ doing[c] = "status"
  /\ \/ status = "unset" /\ Goto(c, "finish")
     \/ status = "ANSWER" /\ Goto(c, "tell 1")
     \/ /\ status \notin {"unset", "ANSWER"}
        /\ Goto(c, IF status \in Stops \/ Exhausted(c) THEN "tell 0" ELSE "dial")
  /\ UNCHANGED <<world, shuffled, dials, answers>>

\* SET VARIABLE TRUNK_GROUP_DIALLED.
TellDialled(c) ==
  /\ doing[c] \in {"tell 0", "tell 1"}
  /\ Tells(c, "TRUNK_GROUP_DIALLED", IF doing[c] = "tell 1" THEN 1 ELSE 0)
  /\ Goto(c, "finish")
  /\ UNCHANGED <<world, shuffled, dials>>

FinishScript(c) ==
  /\ doing[c] = "finish"
  /\ Goto(c, "over")
  /\ UNCHANGED <<world, shuffled, dials, answers>>

\* The connection breaks: handle_failure ends the script.
Broken(c) ==
  /\ doing[c] \in {"dial", "status", "tell 0", "tell 1"}
  /\ Goto(c, "failed")
  /\ UNCHANGED <<world, shuffled, dials, answers>>

\* The members who are not in use and not paused.
ReadyIn(sight) == {m \in DOMAIN sight : sight[m].status = "1" /\ ~sight[m].paused}

\* get_queue_status from what Redis holds.
StatusCached(c) ==
  /\ doing[c] = "new" /\ cached # NoSight
  /\ Tells(c, "READYTORECEIVE", Cardinality(ReadyIn(cached)))
  /\ Goto(c, "finish")
  /\ UNCHANGED <<world, shuffled, dials>>

\* _query_ami_queue_status: without it, or when Redis does not answer, Asterisk is
\* asked.  The members that it has told in three seconds are counted; none when the
\* login fails.  The reactor waits meanwhile.
StatusAsked(c) ==
  /\ doing[c] = "new"
  /\ \E heard \in SUBSET Agent :
       Tells(c, "READYTORECEIVE", Cardinality(ReadyIn(shown) \cap heard))
  /\ Goto(c, "finish")
  /\ UNCHANGED <<world, shuffled, dials>>

\* add_callback and add_callback_record: the row is committed before the answer; a
\* service that is not there makes service_id NULL, and the script fails.
AddCallback(c) ==
  /\ doing[c] = "new"
  /\ IF service
     THEN /\ stored' = stored \cup {c}
          /\ Tells(c, "CALLBACK_ADDED", 1)
          /\ Goto(c, "finish")
     ELSE Goto(c, "failed") /\ UNCHANGED <<stored, answers>>
  /\ UNCHANGED <<trunks, group, service, shown, cached, shuffled, dials, staff>>

\* The row is there, and the answer is lost with the connection.
AddCallbackBroken(c) ==
  /\ doing[c] = "new"
  /\ service
  /\ stored' = stored \cup {c}
  /\ Goto(c, "failed")
  /\ UNCHANGED <<trunks, group, service, shown, cached, shuffled, dials, answers, staff>>

\* A script without its arguments: it answers 0.
Unnamed(c) ==
  /\ doing[c] = "new"
  /\ \E name \in {"TRUNK_GROUP_DIALLED", "READYTORECEIVE", "CALLBACK_ADDED"} : Tells(c, name, 0)
  /\ Goto(c, "finish")
  /\ UNCHANGED <<world, shuffled, dials>>

ScriptNext ==
  \/ \E members \in SUBSET Trunk : SetMembers(members)
  \/ \E p \in Trunk : PeerDeleted(p)
  \/ ServiceDeleted
  \/ \E m \in Agent : MemberChanges(m)
  \/ QueueCached
  \/ \E c \in Placed :
       \/ BeginDial(c) \/ Dial(c) \/ ReadStatus(c) \/ TellDialled(c) \/ FinishScript(c) \/ Broken(c)
       \/ StatusCached(c) \/ StatusAsked(c)
       \/ AddCallback(c) \/ AddCallbackBroken(c) \/ Unnamed(c)

-----------------------------------------------------------------------------
(* Properties *)

StatusAt(c, i) == dials[c][i][2]

\* Nothing is dialled after somebody was reached: an answer, a busy line or a phone that
\* nobody took up end the attempts (dial_with_retry).
OneReached ==
  \A c \in Placed : \A i \in DOMAIN dials[c] :
    StatusAt(c, i) \in {"ANSWER", "BUSY", "NOANSWER", "unset"} => i = Len(dials[c])

\* The dialplan hears 1 exactly when the last dial was answered, and 0 without a reason
\* of the callee only after all attempts.
ToldAsDialled ==
  \A t \in {u \in answers : u.name = "TRUNK_GROUP_DIALLED"} :
    LET n == Len(dials[t.call]) IN
    /\ (t.value = 1) <=> (n > 0 /\ StatusAt(t.call, n) = "ANSWER")
    /\ t.value = 0 /\ n > 0 => n = MaxAttempts \/ StatusAt(t.call, n) \in {"BUSY", "NOANSWER"}

\* The attempts go round: no peer is dialled again before every other was, whatever
\* staff does to the group meanwhile.
AttemptsGoRound ==
  \A c \in Placed : \A p, q \in Range(shuffled[c]) :
    LET Times(x) == Cardinality({i \in DOMAIN dials[c] : dials[c][i][1] = x})
    IN Times(p) <= Times(q) + 1

\* No call is tried more often than the dialplan has asked for.
AttemptsBounded == \A c \in Placed : Len(dials[c]) <= MaxAttempts

\* A callback that was promised is in the table, whatever staff deletes.
PromisedIsStored ==
  \A t \in answers : t.name = "CALLBACK_ADDED" /\ t.value = 1 => t.call \in stored /\ service
=============================================================================
