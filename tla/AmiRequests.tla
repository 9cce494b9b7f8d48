----------------------------- MODULE AmiRequests -----------------------------
(***************************************************************************)
(* A request that the web process answers through the AMI: a call, a       *)
(* conference (apps/api/views/calls.py), a pause, the members of the       *)
(* queues (apps/api/views/queues.py), a hangup or a pause of the panel     *)
(* (apps/dashboard/views.py).  It opens a session of its own (core/ami.py, *)
(* the hangup a client of the library), sends an action for each leg, and  *)
(* then waits for each response for a limited time.  Asterisk may take an  *)
(* action as late as it likes.  It answers a plain Originate when the call *)
(* is answered or given up, an asynchronous one when it has taken it.      *)
(* Requests share nothing, so there is one.                                *)
(***************************************************************************)
EXTENDS Naturals, FiniteSets

CONSTANTS
  Leg,           \* the channels of a conference
  First,         \* the only leg of other requests
  RingTime,      \* timeout_ms, in ticks
  Margin,        \* ASTERISK_AMI_RESPONSE_MARGIN, in ticks
  QuickTime,     \* ASTERISK_AMI_QUICK_TIMEOUT, in ticks
  LibraryTime,   \* the timeout of an AMIClient that is given none, in ticks
  LastTick,      \* bound: time
  Listed         \* what a QueueStatus lists

\* What the API asks, and what the panel does.
ApiKinds == {"originate", "conference", "pause", "members"}
PanelKinds == {"hangup", "panel pause"}
Kinds == ApiKinds \cup PanelKinds

\* Kinds of calls, which ring.
CallKinds == {"originate", "conference"}

ASSUME AmiAssumption ==
  /\ First \in Leg
  /\ RingTime \in Nat /\ Margin \in Nat /\ QuickTime \in Nat /\ LibraryTime \in Nat
  /\ LastTick \in Nat

VARIABLES
  wish,      \* what is asked
  phase,     \* where the request is: "new", "sending", "waiting", "listing", "done"
  sent,      \* when each leg's action was sent, or LastTick + 1
  leg,       \* what Asterisk makes of each: "none", "taken", "up", "over"
  took,      \* when it took it
  replies,   \* the responses that have come in
  results,   \* what the request has read of them
  deadline,  \* until when it waits
  collected, \* the members it was told
  told,      \* whether the list has ended
  link,      \* whether the connection stands
  code,      \* what the client was answered
  moment     \* the time

amiVars ==
  <<wish, phase, sent, leg, took, replies, results, deadline, collected, told, link,
    code, moment>>

Unmade == LastTick + 1

\* One invariant for the types of the variables.
AmiTypeOK ==
  /\ wish \in Kinds
  /\ phase \in {"new", "sending", "waiting", "listing", "done"}
  /\ sent \in [Leg -> 0 .. Unmade] /\ took \in [Leg -> 0 .. Unmade]
  /\ leg \in [Leg -> {"none", "taken", "up", "over"}]
  /\ replies \in [Leg -> {"none", "ok", "error"}]
  /\ results \in [Leg -> {"none", "ok", "failed", "missing"}]
  /\ collected \subseteq Listed
  /\ told \in BOOLEAN /\ link \in BOOLEAN
  /\ code \in {"none", "200", "202", "400", "404", "502", "503"}
  /\ moment \in 0 .. LastTick

Legs == IF wish = "conference" THEN Leg ELSE {First}
Unsent == {l \in Legs : sent[l] = Unmade}
Unread == {l \in Legs : results[l] = "none"}

\* Mutant of Patience: the margin is not added.
PatienceShort ==
  IF wish \in CallKinds THEN RingTime ELSE IF wish = "hangup" THEN LibraryTime ELSE QuickTime

\* How long the session waits for a response: of a call, as long as it may ring and a
\* margin.
Patience ==
  IF wish \in CallKinds THEN RingTime + Margin
  ELSE IF wish = "hangup" THEN LibraryTime ELSE QuickTime

-----------------------------------------------------------------------------
(* The web process.                                                            *)

Respond(c) == code' = c /\ phase' = "done"

\* The session logs in.  The API tries nothing where there is no Asterisk.  No connection
\* is an exception, and so is a login refused or not answered; the hangup does not read
\* what was answered to its login, and Asterisk refuses the hangup.
Login ==
  /\ phase = "new"
  /\ \/ phase' = "sending" /\ UNCHANGED code
     \/ wish \in ApiKinds /\ Respond("503")
     \/ Respond("502")
  /\ UNCHANGED <<wish, sent, leg, took, replies, results, deadline, collected, told, link,
                 moment>>

\* The actions of all legs are written before any response is read; writing to a closed
\* socket is an exception.
Send(l) ==
  /\ phase = "sending" /\ l \in Unsent
  /\ IF link
     THEN /\ sent' = [sent EXCEPT ![l] = moment]
          /\ IF Unsent = {l}
             THEN phase' = "waiting" /\ deadline' = moment + Patience
             ELSE UNCHANGED <<phase, deadline>>
          /\ UNCHANGED code
     ELSE Respond("502") /\ UNCHANGED <<sent, deadline>>
  /\ UNCHANGED <<wish, leg, took, replies, results, collected, told, link, moment>>

\* Mutant of Classified: no response is no error.
ClassifiedSilent(l) == IF replies[l] = "error" THEN "failed" ELSE "ok"

\* _classify_originate_response, and the ifs of the other views: no response in time and
\* an error are failures.
Classified(l) ==
  IF replies[l] = "ok" THEN "ok"
  ELSE IF replies[l] = "error" THEN "failed" ELSE "missing"

\* The status code of a request of one leg.  The panel answers an error with 400; only
\* the pause of the API tells a member that is not there, by the text of the error.
CodeOf(result, text) ==
  CASE result = "ok" -> "200"
    [] result = "failed" /\ wish \in PanelKinds -> "400"
    [] result = "failed" /\ wish = "pause" /\ text -> "404"
    [] OTHER -> "502"

\* The response of a leg is read, or its time is over.  The next leg has its own time.
Read(l) ==
  /\ phase = "waiting" /\ l \in Unread
  /\ replies[l] # "none" \/ moment >= deadline
  /\ results' = [results EXCEPT ![l] = Classified(l)]
  /\ \/ /\ wish = "members"
        /\ IF Classified(l) = "ok"
           THEN phase' = "listing" /\ deadline' = moment + QuickTime /\ UNCHANGED code
           ELSE Respond("502") /\ UNCHANGED deadline
     \/ /\ wish = "conference"
        /\ IF Unread = {l} THEN Respond("202") /\ UNCHANGED deadline
           ELSE deadline' = moment + Patience /\ UNCHANGED <<phase, code>>
     \/ /\ wish \notin {"members", "conference"}
        /\ \E text \in BOOLEAN : Respond(CodeOf(Classified(l), text))
        /\ UNCHANGED deadline
  /\ UNCHANGED <<wish, sent, leg, took, replies, collected, told, link, moment>>

\* Mutant of ListEnds: what has come in until the time is over is taken for the list.
ListEndsLate == told \/ moment >= deadline

\* QueueStatusComplete has come.
ListEnds == told

\* queue_members returns the events; without the last one in time it is an exception.
EndList ==
  /\ phase = "listing"
  /\ \/ ListEnds /\ Respond("200")
     \/ ~ListEnds /\ moment >= deadline /\ Respond("502")
  /\ UNCHANGED <<wish, sent, leg, took, replies, results, deadline, collected, told, link, moment>>

-----------------------------------------------------------------------------
(* Asterisk and the connection.                                                *)

Reply(l, r) == replies' = IF link THEN [replies EXCEPT ![l] = r] ELSE replies

\* An action is taken.  A plain Originate is answered later.
Take(l) ==
  /\ sent[l] # Unmade /\ leg[l] = "none"
  /\ \/ /\ leg' = [leg EXCEPT ![l] = IF wish \in CallKinds THEN "taken" ELSE "up"]
        /\ IF wish = "originate" THEN UNCHANGED replies ELSE Reply(l, "ok")
     \/ leg' = [leg EXCEPT ![l] = "over"] /\ Reply(l, "error")
  /\ took' = [took EXCEPT ![l] = moment]
  /\ UNCHANGED <<wish, phase, sent, results, deadline, collected, told, link, code, moment>>

\* A called channel answers, or is given up.
Ring(l) ==
  /\ leg[l] = "taken"
  /\ \E result \in {"up", "over"} :
       /\ leg' = [leg EXCEPT ![l] = result]
       /\ IF wish = "originate" THEN Reply(l, IF result = "up" THEN "ok" ELSE "error")
          ELSE UNCHANGED replies
  /\ UNCHANGED <<wish, phase, sent, took, results, deadline, collected, told, link, code, moment>>

\* The members are listed one by one, and then the end.
List ==
  /\ wish = "members" /\ leg[First] = "up" /\ link /\ ~told
  /\ \/ \E m \in Listed \ collected : collected' = collected \cup {m} /\ UNCHANGED told
     \/ collected = Listed /\ told' = TRUE /\ UNCHANGED collected
  /\ UNCHANGED <<wish, phase, sent, leg, took, replies, results, deadline, link, code, moment>>

LoseLink ==
  /\ link /\ link' = FALSE
  /\ UNCHANGED <<wish, phase, sent, leg, took, replies, results, deadline, collected, told,
                 code, moment>>

\* Asterisk rings no longer than it was told.
ClockTicks ==
  /\ moment < LastTick
  /\ \A l \in Leg : leg[l] = "taken" => moment < took[l] + RingTime
  /\ moment' = moment + 1
  /\ UNCHANGED <<wish, phase, sent, leg, took, replies, results, deadline, collected, told,
                 link, code>>

AmiInit ==
  /\ wish \in Kinds
  /\ phase = "new" /\ code = "none" /\ link = TRUE /\ told = FALSE /\ collected = {}
  /\ sent = [l \in Leg |-> Unmade] /\ took = [l \in Leg |-> Unmade]
  /\ leg = [l \in Leg |-> "none"]
  /\ replies = [l \in Leg |-> "none"] /\ results = [l \in Leg |-> "none"]
  /\ deadline = 0 /\ moment = 0

AmiNext ==
  \/ Login \/ EndList \/ List \/ LoseLink \/ ClockTicks
  \/ \E l \in Leg : Send(l) \/ Read(l) \/ Take(l) \/ Ring(l)

AmiSpec == AmiInit /\ [][AmiNext]_amiVars

-----------------------------------------------------------------------------
(* Properties.                                                                 *)

\* The client has been told that the leg failed.
SaidFailed(l) ==
  \/ wish = "conference" /\ results[l] \in {"failed", "missing"}
  \/ wish # "conference" /\ code \in {"400", "404", "502"}

\* How late Asterisk may take an action and still be heard: a plain Originate is answered
\* only after the ringing.
Slack ==
  CASE wish = "originate" -> Margin
    [] wish = "conference" -> RingTime + Margin
    [] wish = "hangup" -> LibraryTime
    [] OTHER -> QuickTime

Alive(l) == leg[l] \in {"taken", "up"}

\* What the client is told has failed has failed: no channel rings or talks, nobody is
\* paused.  The exceptions are a connection that broke, and an action that Asterisk took
\* so late that the answer could not come in time.
FailedIsOver ==
  (link /\ code # "none" /\ wish # "members") =>
    \A l \in Legs : SaidFailed(l) /\ Alive(l) => took[l] >= sent[l] + Slack

\* What the client is told was done was done, whether or not the connection broke: the
\* call was answered, the member is paused, the leg was taken.
DoneIsDone ==
  /\ code = "200" => leg[First] = "up"
  /\ \A l \in Legs : results[l] = "ok" => took[l] # Unmade /\ leg[l] # "none"

\* A list that is answered is the whole list.
ListIsWhole == (wish = "members" /\ code = "200") => collected = Listed

\* A conference is refused only before its last leg is asked for; legs that Asterisk was
\* asked for before are the price of a connection that broke half-way.
RefusedHalfway ==
  (wish = "conference" /\ code \in {"502", "503"}) =>
    Unsent # {} /\ (Unsent # Legs => ~link)
=============================================================================
