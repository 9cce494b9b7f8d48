--------------------------- MODULE AnswerProofs ---------------------------
(* Proofs about the parts that answer a request or a call: AmiRequests (what the API and
   the panel tell), AgiServer and CallScripts (what the FastAGI scripts do), CallerLists
   (the lists those scripts ask), Recordings (what cron leaves of the files) and Reports.
   Each has an inductive invariant, for any sets of calls, trunks, callers and rows and
   any bounds: it holds initially, each step keeps it, and it says that what is answered
   is what was done. *)
EXTENDS AmiRequests, AgiServer, CallScripts, CallerLists, Recordings, Reports,
  Integers, FiniteSetTheorems, WellFoundedInduction, TLAPS

-----------------------------------------------------------------------------
(* Requests to Asterisk. *)

\* An action is taken after it is sent, and rings no longer than it may; whoever waits for
\* it waits longer.
Timely ==
  \A l \in Leg :
    /\ sent[l] # Unmade => sent[l] <= moment
    /\ leg[l] # "none" => sent[l] # Unmade /\ took[l] # Unmade
    /\ leg[l] = "taken" => moment <= took[l] + RingTime
    /\ phase = "waiting" /\ l \in Legs => sent[l] # Unmade /\ sent[l] + Patience <= deadline
    /\ phase = "new" => sent[l] = Unmade

\* A response says what became of the leg; while the connection stands there is none
\* only as long as nothing became of it.
RepliesTrue ==
  \A l \in Leg :
    /\ replies[l] = "error" => leg[l] = "over"
    /\ replies[l] = "ok" => leg[l] # "none" /\ (wish # "conference" => leg[l] = "up")
    /\ link /\ replies[l] = "none" => leg[l] = "none" \/ (leg[l] = "taken" /\ wish = "originate")

\* An action that nobody waits for any more is not taken yet, or was taken late.
Overslept(l) ==
  link =>
    \/ leg[l] = "over"
    \/ leg[l] = "none" /\ sent[l] + Slack <= moment
    \/ leg[l] # "none" /\ took[l] >= sent[l] + Slack

\* What was read of a leg, and what the client is told.
VerdictTrue ==
  /\ \A l \in Legs :
       /\ results[l] = "ok" => leg[l] # "none" /\ (wish # "conference" => leg[l] = "up")
       /\ results[l] = "failed" => leg[l] = "over"
       /\ results[l] = "missing" => sent[l] # Unmade /\ Overslept(l)
  /\ code = "200" => wish # "conference" /\ results[First] = "ok"
  /\ code # "none" => phase = "done"
  /\ link /\ code \in {"400", "404", "502"} /\ wish \notin {"conference", "members"} =>
       sent[First] = Unmade \/ results[First] \in {"failed", "missing"}

ListTrue ==
  /\ phase = "listing" => wish = "members" /\ results[First] = "ok"
  /\ told => collected = Listed
  /\ wish = "members" /\ code = "200" => told

AmiTyped == AmiTypeOK /\ deadline \in Nat

AmiInv == AmiTyped /\ Timely /\ RepliesTrue /\ VerdictTrue /\ ListTrue /\ RefusedHalfway

LEMMA AmiInitially == AmiInit => AmiInv
<1> SUFFICES ASSUME AmiInit PROVE AmiInv
  OBVIOUS
<1>1. Unmade \in 0 .. Unmade /\ 0 \in 0 .. LastTick
  BY AmiAssumption DEF Unmade
<1>2. AmiTyped
  BY <1>1, 0 \in Nat, ZenonT(40) DEF AmiInit, AmiTyped, AmiTypeOK
<1>3. Timely
  BY <1>1 DEF AmiInit, Timely
<1>4. RepliesTrue /\ VerdictTrue /\ ListTrue /\ RefusedHalfway
  BY AmiAssumption DEF AmiInit, RepliesTrue, VerdictTrue, ListTrue, RefusedHalfway, Legs
<1> QED BY <1>2, <1>3, <1>4 DEF AmiInv

LEMMA AmiTypes ==
  /\ RingTime \in Nat /\ QuickTime \in Nat /\ Margin \in Nat /\ LibraryTime \in Nat
  /\ LastTick \in Nat /\ First \in Leg
  /\ Unmade = LastTick + 1 /\ Unmade \in Nat
  /\ Patience \in Nat /\ Slack \in Nat /\ Slack <= Patience
  /\ Legs \subseteq Leg /\ Legs # {}
  /\ wish # "conference" => Legs = {First}
  /\ wish = "originate" => Patience = RingTime + Margin /\ Slack = Margin
BY AmiAssumption DEF Unmade, Patience, Slack, Legs, CallKinds

LEMMA LoginStep ==
  ASSUME AmiInv, Login
  PROVE  AmiInv'
<1>1. /\ UNCHANGED <<wish, sent, leg, took, replies, results, deadline, collected, told, link,
                     moment>>
      /\ phase = "new"
      /\ \/ phase' = "sending" /\ code' = code
         \/ phase' = "done" /\ code' \in {"502", "503"}
  BY DEF Login, Respond
<1>2. AmiTyped'
  BY <1>1 DEF AmiInv, AmiTyped, AmiTypeOK
<1>3. Timely' /\ RepliesTrue'
  BY <1>1 DEF AmiInv, Timely, RepliesTrue, Legs, Patience, CallKinds
<1>4. VerdictTrue'
  <2>1. sent[First] = Unmade
    BY <1>1, AmiTypes DEF AmiInv, Timely
  <2> QED BY <1>1, <2>1 DEF AmiInv, VerdictTrue, Legs, Overslept, Slack
<1>5. RefusedHalfway'
  <2>1. Unsent' = Legs' /\ Legs' # {}
    BY <1>1, AmiTypes DEF AmiInv, Timely, Unsent, Legs
  <2> QED BY <2>1 DEF RefusedHalfway
<1>6. ListTrue'
  BY <1>1 DEF AmiInv, ListTrue
<1> QED BY <1>2, <1>3, <1>4, <1>5, <1>6 DEF AmiInv

LEMMA SendStep ==
  ASSUME AmiInv, NEW l \in Leg, Send(l)
  PROVE  AmiInv'
<1>0. moment \in Nat /\ moment # Unmade /\ moment \in 0 .. Unmade /\ moment + Patience \in Nat
  BY AmiTypes DEF AmiInv, AmiTyped, AmiTypeOK
<1>1. AmiTyped'
  BY <1>0 DEF AmiInv, AmiTyped, AmiTypeOK, Send, Respond
<1>2. Timely'
  <2> SUFFICES ASSUME NEW k \in Leg
               PROVE  /\ sent'[k] # Unmade => sent'[k] <= moment'
                      /\ leg'[k] # "none" => sent'[k] # Unmade /\ took'[k] # Unmade
                      /\ leg'[k] = "taken" => moment' <= took'[k] + RingTime
                      /\ phase' # "new"
                      /\ phase' = "waiting" /\ k \in Legs' =>
                           sent'[k] # Unmade /\ sent'[k] + Patience' <= deadline'
    BY DEF Timely, Unmade
  <2>1. /\ leg' = leg /\ took' = took /\ moment' = moment /\ Legs' = Legs /\ Patience' = Patience
        /\ leg[l] = "none" \/ sent' = sent
        /\ phase' # "new"
    BY DEF AmiInv, Timely, Send, Legs, Patience, Unsent, Respond, CallKinds
  <2>2. CASE ~link
    BY <2>1, <2>2 DEF AmiInv, Timely, Send, Respond
  <2>3. CASE link
    <3>1. sent' = [sent EXCEPT ![l] = moment]
      BY <2>3 DEF Send
    <3>2. sent'[k] = IF k = l THEN moment ELSE sent[k]
      BY <3>1 DEF AmiInv, AmiTyped, AmiTypeOK
    <3>3. sent[l] = Unmade /\ phase = "sending" /\ leg[l] = "none"
      BY DEF AmiInv, Timely, Send, Unsent
    <3>4. ASSUME phase' = "waiting", k \in Legs
          PROVE  sent'[k] # Unmade /\ sent'[k] + Patience <= deadline'
      <4>1. Unsent = {l} /\ deadline' = moment + Patience
        BY <2>3, <3>3, <3>4 DEF Send
      <4>2. sent'[k] # Unmade
        BY <1>0, <3>2, <3>4, <4>1 DEF Unsent
      <4>3. sent'[k] <= moment /\ sent'[k] \in Nat
        BY <1>0, <3>2, <4>2, AmiTypes DEF AmiInv, Timely, AmiTyped, AmiTypeOK
      <4> QED BY <1>0, <4>1, <4>2, <4>3, AmiTypes
    <3>5. k # l => sent'[k] = sent[k]
      BY <3>2
    <3> QED BY <1>0, <2>1, <3>2, <3>3, <3>4, AmiTypes DEF AmiInv, Timely
  <2> QED BY <2>2, <2>3 DEF AmiInv, AmiTyped, AmiTypeOK
<1>3. /\ UNCHANGED <<wish, leg, took, replies, results, collected, told, link, moment>>
      /\ phase = "sending" /\ phase' \in {"sending", "waiting", "done"} /\ l \in Unsent
      /\ \A k \in Leg : k # l => sent'[k] = sent[k]
      /\ \/ link /\ code' = code
         \/ ~link /\ code' = "502" /\ sent' = sent /\ phase' = "done"
  BY DEF AmiInv, AmiTyped, AmiTypeOK, Send, Respond
<1>4. code = "none"
  BY <1>3 DEF AmiInv, VerdictTrue
<1>5. RepliesTrue' /\ ListTrue'
  BY <1>3, <1>4 DEF AmiInv, RepliesTrue, ListTrue
<1>6. VerdictTrue'
  <2>1. \A k \in Legs : results[k] = "missing" => sent'[k] = sent[k]
    BY <1>3, AmiTypes DEF AmiInv, VerdictTrue, Unsent
  <2>2. \A k \in Legs : results'[k] = "missing" => sent'[k] # Unmade /\ Overslept(k)'
    BY <1>3, <2>1 DEF AmiInv, VerdictTrue, Overslept, Slack
  <2> QED BY <1>3, <1>4, <2>2 DEF AmiInv, VerdictTrue, Legs
<1>7. RefusedHalfway'
  BY <1>3, <1>4 DEF RefusedHalfway, Unsent, Legs
<1> QED BY <1>1, <1>2, <1>5, <1>6, <1>7 DEF AmiInv

\* Whose time is over was not taken in time, unless the connection broke.
LEMMA LateIsOverslept ==
  ASSUME AmiInv, NEW l \in Legs, phase = "waiting", replies[l] = "none", moment >= deadline
  PROVE  sent[l] # Unmade /\ Overslept(l)
<1>1. /\ l \in Leg /\ sent[l] \in Nat /\ took[l] \in Nat /\ moment \in Nat /\ deadline \in Nat
      /\ Patience \in Nat /\ Slack \in Nat /\ Slack <= Patience /\ RingTime \in Nat /\ Margin \in Nat
  BY AmiTypes DEF AmiInv, AmiTyped, AmiTypeOK
<1>2. sent[l] # Unmade /\ sent[l] + Patience <= deadline
  BY <1>1 DEF AmiInv, Timely
<1>3. sent[l] + Slack <= moment
  BY <1>1, <1>2
<1>4. ASSUME leg[l] = "taken", wish = "originate"
      PROVE  took[l] >= sent[l] + Slack
  <2>1. moment <= took[l] + RingTime
    BY <1>1, <1>4 DEF AmiInv, Timely
  <2> QED BY <1>1, <1>2, <1>4, <2>1, AmiTypes
<1>5. link => leg[l] = "none" \/ (leg[l] = "taken" /\ wish = "originate")
  BY <1>1 DEF AmiInv, RepliesTrue
<1> QED BY <1>2, <1>3, <1>4, <1>5 DEF Overslept

\* What is read of a leg is what became of it.
LEMMA ReadTrue ==
  ASSUME AmiInv, NEW l \in Leg, Read(l)
  PROVE  /\ Classified(l) = "ok" => leg[l] # "none" /\ (wish # "conference" => leg[l] = "up")
         /\ Classified(l) = "failed" => leg[l] = "over"
         /\ Classified(l) = "missing" => sent[l] # Unmade /\ Overslept(l)
<1>1. l \in Legs /\ phase = "waiting" /\ (replies[l] # "none" \/ moment >= deadline)
  BY DEF Read, Unread
<1>2. replies[l] \in {"none", "ok", "error"}
  BY DEF AmiInv, AmiTyped, AmiTypeOK
<1>3. CASE replies[l] = "none"
  BY <1>1, <1>3, LateIsOverslept DEF Classified
<1>4. CASE replies[l] # "none"
  BY <1>2, <1>4 DEF AmiInv, RepliesTrue, Classified
<1> QED BY <1>3, <1>4

LEMMA ReadStep ==
  ASSUME AmiInv, NEW l \in Leg, Read(l)
  PROVE  AmiInv'
<1>0. moment \in Nat /\ moment + Patience \in Nat /\ moment + QuickTime \in Nat
  BY AmiTypes DEF AmiInv, AmiTyped, AmiTypeOK
<1>1. /\ wish' = wish /\ sent' = sent /\ leg' = leg /\ took' = took /\ replies' = replies
      /\ collected' = collected /\ told' = told /\ link' = link /\ moment' = moment
      /\ results' = [results EXCEPT ![l] = Classified(l)] /\ l \in Unread /\ phase = "waiting"
  BY DEF Read
<1>2. Classified(l) \in {"ok", "failed", "missing"}
  BY DEF Classified
<1>3. results'[l] = Classified(l) /\ \A k \in Leg \ {l} : results'[k] = results[k]
  BY <1>1 DEF AmiInv, AmiTyped, AmiTypeOK
<1>4. results' \in [Leg -> {"none", "ok", "failed", "missing"}]
  BY <1>1, <1>2 DEF AmiInv, AmiTyped, AmiTypeOK
<1>5. /\ phase' \in {"waiting", "listing", "done"} /\ deadline' \in Nat
      /\ code' = code \/ (code' \in {"200", "202", "400", "404", "502"} /\ phase' = "done")
      /\ phase' = "listing" => wish = "members" /\ Classified(l) = "ok"
      /\ phase' = "waiting" => deadline' = moment + Patience
      /\ wish \in {"members", "conference"} => code' # "200" \/ code' = code
      /\ wish = "conference" => code' = "202" \/ code' = code
      /\ code' = "200" => Classified(l) = "ok" \/ code' = code
      /\ code' \in {"400", "404", "502"} /\ wish \notin {"conference", "members"} =>
           Classified(l) \in {"failed", "missing"} \/ code' = code
  <2>1. CASE wish = "members"
    BY <1>0, <1>1, <1>2, <2>1 DEF AmiInv, AmiTyped, AmiTypeOK, Read, Respond
  <2>2. CASE wish = "conference"
    BY <1>0, <1>1, <1>2, <2>2 DEF AmiInv, AmiTyped, AmiTypeOK, Read, Respond
  <2>3. CASE wish \notin {"members", "conference"}
    BY <1>0, <1>1, <1>2, <2>3 DEF AmiInv, AmiTyped, AmiTypeOK, Read, Respond, CodeOf
  <2> QED BY <2>1, <2>2, <2>3
<1>6. AmiTyped'
  BY <1>1, <1>4, <1>5 DEF AmiInv, AmiTyped, AmiTypeOK
<1>7. Timely'
  <2>1. \A k \in Legs : sent[k] # Unmade /\ sent[k] + Patience <= moment + Patience
    <3> SUFFICES ASSUME NEW k \in Legs PROVE sent[k] # Unmade /\ sent[k] + Patience <= moment + Patience
      OBVIOUS
    <3>1. k \in Leg /\ sent[k] \in Nat
      BY AmiTypes DEF AmiInv, AmiTyped, AmiTypeOK
    <3>2. sent[k] # Unmade /\ sent[k] <= moment
      BY <1>1, <3>1 DEF AmiInv, Timely
    <3> QED BY <1>0, <3>1, <3>2, AmiTypes
  <2> QED BY <1>1, <1>5, <2>1 DEF AmiInv, Timely, Legs, Patience, CallKinds
<1>8. code = "none" /\ (wish # "conference" => l = First) /\ l \in Legs
  BY <1>1 DEF AmiInv, VerdictTrue, Unread, Legs
<1>9. RepliesTrue' /\ ListTrue' /\ RefusedHalfway'
  <2>1. Unsent' = Unsent /\ Legs' = Legs
    BY <1>1 DEF Unsent, Legs
  <2> QED BY <1>1, <1>3, <1>5, <1>8, <2>1 DEF AmiInv, RepliesTrue, ListTrue, RefusedHalfway
<1>10. VerdictTrue'
  <2>1. ASSUME NEW k \in Legs
        PROVE  /\ results'[k] = "ok" => leg[k] # "none" /\ (wish # "conference" => leg[k] = "up")
               /\ results'[k] = "failed" => leg[k] = "over"
               /\ results'[k] = "missing" => sent[k] # Unmade /\ Overslept(k)
    <3>1. CASE k = l
      BY <1>3, <3>1, ReadTrue
    <3>2. CASE k # l
      BY <1>3, <3>2, AmiTypes DEF AmiInv, VerdictTrue
    <3> QED BY <3>1, <3>2
  <2>2. code' = "200" => wish # "conference" /\ results'[First] = "ok"
    BY <1>3, <1>5, <1>8
  <2>3. code' # "none" => phase' = "done"
    BY <1>5, <1>8
  <2>4. code' \in {"400", "404", "502"} /\ wish \notin {"conference", "members"} =>
          results'[First] \in {"failed", "missing"}
    BY <1>3, <1>5, <1>8
  <2>5. \A k \in Legs : Overslept(k)' <=> Overslept(k)
    BY <1>1 DEF Overslept, Slack
  <2> QED BY <1>1, <2>1, <2>2, <2>3, <2>4, <2>5 DEF VerdictTrue, Legs
<1> QED BY <1>6, <1>7, <1>9, <1>10 DEF AmiInv

LEMMA EndListStep ==
  ASSUME AmiInv, EndList
  PROVE  AmiInv'
<1>1. /\ wish = "members" /\ phase' = "done" /\ code' \in {"200", "502"}
      /\ (code' = "200" => told) /\ results[First] = "ok"
  BY DEF AmiInv, ListTrue, EndList, Respond, ListEnds
<1>2. UNCHANGED <<wish, sent, leg, took, replies, results, deadline, collected, told, link, moment>>
  BY DEF EndList
<1>3. AmiTyped' /\ Timely' /\ RepliesTrue' /\ ListTrue' /\ RefusedHalfway'
  BY <1>1, <1>2 DEF AmiInv, AmiTyped, AmiTypeOK, Timely, RepliesTrue, ListTrue,
    RefusedHalfway, Legs, Unsent, Patience, CallKinds
<1>4. VerdictTrue'
  BY <1>1, <1>2 DEF AmiInv, VerdictTrue, Legs, Overslept, Slack
<1> QED BY <1>3, <1>4 DEF AmiInv

LEMMA TakeStep ==
  ASSUME AmiInv, NEW l \in Leg, Take(l)
  PROVE  AmiInv'
<1>0. moment \in Nat /\ moment \in 0 .. Unmade /\ moment # Unmade /\ sent[l] \in Nat
  BY AmiTypes DEF AmiInv, AmiTyped, AmiTypeOK
<1>1. /\ UNCHANGED <<wish, phase, sent, results, deadline, collected, told, link, code, moment>>
      /\ took' = [took EXCEPT ![l] = moment] /\ sent[l] # Unmade /\ leg[l] = "none"
      /\ \E to \in {"taken", "up", "over"} : leg' = [leg EXCEPT ![l] = to]
      /\ replies' = replies \/ \E r \in {"ok", "error"} : replies' = [replies EXCEPT ![l] = r]
  BY DEF Take, Reply
<1>2. AmiTyped'
  BY <1>0, <1>1 DEF AmiInv, AmiTyped, AmiTypeOK
<1>3. /\ took'[l] = moment /\ leg'[l] # "none"
      /\ \A k \in Leg \ {l} : took'[k] = took[k] /\ leg'[k] = leg[k] /\ replies'[k] = replies[k]
  BY <1>1 DEF AmiInv, AmiTyped, AmiTypeOK
<1>4. Timely'
  <2>1. moment <= moment + RingTime
    BY <1>0, AmiTypes
  <2> QED BY <1>0, <1>1, <1>3, <2>1 DEF AmiInv, Timely, Legs, Patience, CallKinds
<1>5. RepliesTrue'
  <2>1. replies[l] = "none"
    BY <1>1 DEF AmiInv, AmiTyped, AmiTypeOK, RepliesTrue
  <2>2. \/ leg'[l] = "taken" /\ wish = "originate" /\ replies'[l] = "none"
        \/ leg'[l] # "none" /\ (wish # "conference" => leg'[l] = "up") /\ replies'[l] = "ok"
        \/ leg'[l] = "over" /\ replies'[l] = "error"
        \/ ~link /\ replies'[l] = "none"
    BY <2>1 DEF AmiInv, AmiTyped, AmiTypeOK, Take, Reply, CallKinds
  <2> QED BY <1>1, <1>3, <2>2 DEF AmiInv, RepliesTrue
<1>6. VerdictTrue'
  <2>1. ASSUME NEW k \in Legs
        PROVE  /\ results[k] = "ok" => leg'[k] # "none" /\ (wish # "conference" => leg'[k] = "up")
               /\ results[k] = "failed" => leg'[k] = "over"
               /\ results[k] = "missing" => sent[k] # Unmade /\ Overslept(k)'
    <3>1. CASE k = l
      <4>1. link /\ results[k] = "missing" => sent[k] + Slack <= moment
        BY <1>1, <3>1 DEF AmiInv, VerdictTrue, Overslept
      <4>2. link /\ results[k] = "missing" => moment >= sent[k] + Slack
        BY <1>0, <3>1, <4>1, AmiTypes
      <4> QED BY <1>1, <1>3, <3>1, <4>2 DEF AmiInv, VerdictTrue, Overslept, Slack
    <3>2. CASE k # l
      BY <1>1, <1>3, <3>2, AmiTypes DEF AmiInv, VerdictTrue, Overslept, Slack
    <3> QED BY <3>1, <3>2
  <2> QED BY <1>1, <2>1 DEF AmiInv, VerdictTrue, Legs
<1>7. ListTrue' /\ RefusedHalfway'
  BY <1>1 DEF AmiInv, ListTrue, RefusedHalfway, Legs, Unsent
<1> QED BY <1>2, <1>4, <1>5, <1>6, <1>7 DEF AmiInv

LEMMA RingStep ==
  ASSUME AmiInv, NEW l \in Leg, Ring(l)
  PROVE  AmiInv'
<1>1. /\ UNCHANGED <<wish, phase, sent, took, results, deadline, collected, told, link, code, moment>>
      /\ leg[l] = "taken"
      /\ \E to \in {"up", "over"} : leg' = [leg EXCEPT ![l] = to]
      /\ replies' = replies \/ \E r \in {"ok", "error"} : replies' = [replies EXCEPT ![l] = r]
  BY DEF Ring, Reply
<1>2. AmiTyped'
  BY <1>1 DEF AmiInv, AmiTyped, AmiTypeOK
<1>3. /\ leg'[l] \in {"up", "over"}
      /\ \A k \in Leg \ {l} : leg'[k] = leg[k] /\ replies'[k] = replies[k]
  BY <1>1 DEF AmiInv, AmiTyped, AmiTypeOK
<1>4. Timely'
  BY <1>1, <1>3 DEF AmiInv, Timely, Legs, Patience, CallKinds
<1>5. RepliesTrue'
  <2>1. \/ wish # "originate" /\ replies'[l] = replies[l]
        \/ leg'[l] = "up" /\ replies'[l] = "ok"
        \/ leg'[l] = "over" /\ replies'[l] = "error"
        \/ ~link /\ replies'[l] = replies[l]
    BY DEF AmiInv, AmiTyped, AmiTypeOK, Ring, Reply
  <2>2. /\ replies[l] # "error" /\ (link /\ wish # "originate" => replies[l] # "none")
        /\ (replies[l] = "ok" => wish = "conference")
    BY <1>1 DEF AmiInv, RepliesTrue
  <2> QED BY <1>1, <1>3, <2>1, <2>2 DEF AmiInv, RepliesTrue
<1>6. VerdictTrue'
  <2>1. ASSUME NEW k \in Legs
        PROVE  /\ results[k] = "ok" => leg'[k] # "none" /\ (wish # "conference" => leg'[k] = "up")
               /\ results[k] = "failed" => leg'[k] = "over"
               /\ results[k] = "missing" => sent[k] # Unmade /\ Overslept(k)'
    <3>1. CASE k = l
      BY <1>1, <1>3, <3>1 DEF AmiInv, VerdictTrue, Overslept, Slack
    <3>2. CASE k # l
      BY <1>1, <1>3, <3>2, AmiTypes DEF AmiInv, VerdictTrue, Overslept, Slack
    <3> QED BY <3>1, <3>2
  <2> QED BY <1>1, <2>1 DEF AmiInv, VerdictTrue, Legs
<1>7. ListTrue' /\ RefusedHalfway'
  BY <1>1 DEF AmiInv, ListTrue, RefusedHalfway, Legs, Unsent
<1> QED BY <1>2, <1>4, <1>5, <1>6, <1>7 DEF AmiInv

LEMMA WorldStep ==
  ASSUME AmiInv, List \/ LoseLink \/ UNCHANGED amiVars
  PROVE  AmiInv'
<1>1. UNCHANGED <<wish, phase, sent, leg, took, replies, results, deadline, code, moment>>
  BY DEF List, LoseLink, amiVars
<1>2. link' \in BOOLEAN /\ told' \in BOOLEAN /\ collected' \subseteq Listed /\ (link' => link)
      /\ (told => told' /\ collected' = collected) /\ (told' => collected' = Listed)
  <2>1. link \in BOOLEAN /\ told \in BOOLEAN /\ collected \subseteq Listed
        /\ (told => collected = Listed)
    BY DEF AmiInv, AmiTyped, AmiTypeOK, ListTrue
  <2>2. CASE List
    <3>1. link' = link /\ ~told
      BY <2>2, Zenon DEF List
    <3>2. CASE told' = TRUE /\ collected' = collected /\ collected = Listed
      BY <2>1, <3>1, <3>2
    <3>3. CASE told' = told /\ \E m \in Listed : collected' = collected \cup {m}
      BY <2>1, <3>1, <3>3, Zenon
    <3> QED BY <2>2, <3>2, <3>3, Zenon DEF List
  <2>3. CASE LoseLink
    BY <2>1, <2>3 DEF LoseLink
  <2>4. CASE UNCHANGED amiVars
    BY <2>1, <2>4 DEF amiVars
  <2> QED BY <2>2, <2>3, <2>4
<1>3. AmiTyped' /\ Timely' /\ RepliesTrue' /\ ListTrue'
  BY <1>1, <1>2 DEF AmiInv, AmiTyped, AmiTypeOK, Timely, RepliesTrue, ListTrue, Legs,
    Patience, CallKinds
<1>4. VerdictTrue' /\ RefusedHalfway'
  BY <1>1, <1>2 DEF AmiInv, AmiTyped, AmiTypeOK, VerdictTrue, Overslept, Slack,
    RefusedHalfway, Legs, Unsent
<1> QED BY <1>3, <1>4 DEF AmiInv

LEMMA ClockStep ==
  ASSUME AmiInv, ClockTicks
  PROVE  AmiInv'
<1>1. /\ UNCHANGED <<wish, phase, sent, leg, took, replies, results, deadline, collected, told,
                     link, code>>
      /\ moment' = moment + 1 /\ moment < LastTick
      /\ \A l \in Leg : leg[l] = "taken" => moment < took[l] + RingTime
  BY DEF ClockTicks
<1>2. moment \in Nat /\ moment' \in 0 .. LastTick
  BY <1>1, AmiTypes DEF AmiInv, AmiTyped, AmiTypeOK
<1>3. AmiTyped'
  BY <1>1, <1>2 DEF AmiInv, AmiTyped, AmiTypeOK
<1>4. Timely'
  <2>1. \A l \in Leg : sent[l] \in Nat /\ took[l] \in Nat
    BY AmiTypes DEF AmiInv, AmiTyped, AmiTypeOK
  <2> QED BY <1>1, <1>2, <2>1, AmiTypes DEF AmiInv, Timely, Legs, Patience, CallKinds
<1>5. RepliesTrue' /\ ListTrue' /\ RefusedHalfway'
  BY <1>1 DEF AmiInv, RepliesTrue, ListTrue, RefusedHalfway, Legs, Unsent
<1>6. VerdictTrue'
  <2>1. ASSUME NEW k \in Legs, Overslept(k)
        PROVE  Overslept(k)'
    <3>1. k \in Leg /\ sent[k] \in Nat
      BY AmiTypes DEF AmiInv, AmiTyped, AmiTypeOK
    <3>2. sent[k] + Slack <= moment => sent[k] + Slack <= moment + 1
      BY <1>2, <3>1, AmiTypes
    <3> QED BY <1>1, <2>1, <3>2 DEF Overslept, Slack
  <2> QED BY <1>1, <2>1 DEF AmiInv, VerdictTrue, Legs
<1> QED BY <1>3, <1>4, <1>5, <1>6 DEF AmiInv

LEMMA AmiStep == AmiInv /\ [AmiNext]_amiVars => AmiInv'
BY LoginStep, SendStep, ReadStep, EndListStep, TakeStep, RingStep, WorldStep, ClockStep
   DEF AmiNext

LEMMA AmiMeans ==
  AmiInv => FailedIsOver /\ DoneIsDone /\ ListIsWhole /\ RefusedHalfway /\ AmiTypeOK
<1> SUFFICES ASSUME AmiInv
             PROVE  FailedIsOver /\ DoneIsDone /\ ListIsWhole /\ RefusedHalfway /\ AmiTypeOK
  OBVIOUS
<1>1. FailedIsOver
  <2> SUFFICES ASSUME link, code # "none", wish # "members",
                      NEW l \in Legs, SaidFailed(l), Alive(l)
               PROVE  took[l] >= sent[l] + Slack
    BY DEF FailedIsOver
  <2>1. l \in Leg /\ sent[l] # Unmade
    BY AmiTypes DEF AmiInv, Timely, Alive
  <2>2. results[l] \in {"failed", "missing"}
    BY <2>1, AmiTypes DEF AmiInv, VerdictTrue, SaidFailed
  <2> QED BY <2>2 DEF AmiInv, VerdictTrue, Overslept, Alive
<1>2. DoneIsDone
  <2>1. code = "200" => leg[First] = "up"
    <3>1. ASSUME wish = "conference" PROVE code # "200"
      BY <3>1 DEF AmiInv, VerdictTrue
    <3> QED BY <3>1, AmiTypes DEF AmiInv, VerdictTrue
  <2>2. \A l \in Legs : results[l] = "ok" => took[l] # Unmade /\ leg[l] # "none"
    BY AmiTypes DEF AmiInv, VerdictTrue, Timely
  <2> QED BY <2>1, <2>2 DEF DoneIsDone
<1>3. ListIsWhole
  BY DEF AmiInv, ListTrue, ListIsWhole
<1> QED BY <1>1, <1>2, <1>3 DEF AmiInv, AmiTyped

-----------------------------------------------------------------------------
(* Recordings of the FastAGI server. *)

\* What is left of a handler's commands.
Recordable == {<<"MIXMONITOR=1", "record", "finish">>, <<"record", "finish">>}
Scripts ==
  Recordable \cup
  {<< >>, <<"finish">>, <<"MIXMONITOR=0", "finish">>, <<"push", "contacts", "finish">>,
   <<"contacts", "finish">>}

AgiTyped == AgiTypeOK /\ script \in [Call -> Scripts]

\* The row of a call's file is the call's.
Owned(f, c) == f \in DOMAIN monitors /\ monitors[f].call = c

\* A row that was not used is nobody's; one that is a call's, the call asked for.
RowsOfCalls ==
  \A f \in DOMAIN monitors :
    /\ monitors[f].requested /\ ~monitors[f].used => monitors[f].call = NoCall
    /\ monitors[f].call # NoCall => asks[monitors[f].call] > 0

\* A call that asked once and is going to record has the row of its file, one that did not
\* ask is not going to.
RecordsOwn ==
  \A c \in Call :
    script[c] \in Recordable =>
      asks[c] > 0 /\ file[c] \in Files /\ (asks[c] = 1 => Owned(file[c], c))

RecordedOwn ==
  \A r \in recording : asks[r[2]] > 0 /\ (asks[r[2]] = 1 => Owned(r[1], r[2]))

AgiInv == AgiTyped /\ RowsOfCalls /\ RecordsOwn /\ RecordedOwn

\* A row may only go to a call from nobody, and the calls ask no less.
RowsKept ==
  \A f \in DOMAIN monitors :
    monitors[f].call # NoCall => f \in DOMAIN monitors' /\ monitors'[f].call = monitors[f].call

LEMMA AgiInitially == AgiInit => AgiInv
<1> SUFFICES ASSUME AgiInit PROVE AgiInv
  OBVIOUS
<1>1. PICK asked \in Requested :
        monitors = [f \in DOMAIN asked |->
                 [parties |-> asked[f], call |-> NoCall, requested |-> TRUE, used |-> FALSE]]
  BY DEF AgiInit
<1>2. \A f \in DOMAIN monitors : f \in Files
  BY <1>1 DEF Files
<1>3. AgiTypeOK
  <2>1. clock \in 1 .. MaxTime /\ 0 \in 0 .. MaxAsks /\ 0 \in 0 .. MaxPolls
    BY AgiAssumption DEF AgiInit
  <2>2. \A f \in DOMAIN monitors :
          /\ monitors[f].parties \in Range(Parties) /\ monitors[f].call = NoCall
          /\ monitors[f].requested = TRUE /\ monitors[f].used = FALSE
    BY <1>1, AgiAssumption
  <2>3. script \in [Call -> Seq(Command)]
    BY DEF AgiInit
  <2>4. rule \in [Range(Parties) -> Rule] /\ file \in [Call -> Files \cup {NoFile}]
    BY DEF AgiInit, Rule
  <2>5. asks \in [Call -> 0 .. MaxAsks] /\ polls \in [Call -> 0 .. MaxPolls]
    BY <2>1 DEF AgiInit
  <2> QED BY <1>2, <2>1, <2>2, <2>3, <2>4, <2>5, ZenonT(40) DEF AgiInit, AgiTypeOK
<1>4. script \in [Call -> Scripts]
  BY DEF AgiInit, Scripts
<1>5. RowsOfCalls /\ RecordsOwn /\ RecordedOwn
  BY <1>1 DEF AgiInit, Recordable, RowsOfCalls, RecordsOwn, RecordedOwn
<1> QED BY <1>3, <1>4, <1>5 DEF AgiInv, AgiTyped

LEMMA AgiTypes ==
  ASSUME AgiInv
  PROVE  /\ AgiTypeOK /\ script \in [Call -> Scripts]
         /\ asks \in [Call -> Nat] /\ NoCall \notin Call
BY AgiAssumption DEF AgiInv, AgiTyped, AgiTypeOK

\* The scripts are sequences of commands, and what is left of one is one.
LEMMA ScriptsSequences == Scripts \subseteq Seq(Command)
BY DEF Scripts, Recordable, Command

LEMMA ScriptTails ==
  ASSUME NEW s \in Scripts, s # << >>
  PROVE  /\ Tail(s) \in Scripts
         /\ Tail(s) \in Recordable => s \in Recordable
         /\ Head(s) = "record" => s \in Recordable
<1>1. CASE s = <<"MIXMONITOR=1", "record", "finish">>
  BY <1>1 DEF Scripts, Recordable
<1>2. CASE s = <<"record", "finish">>
  <2>1. Tail(s) = <<"finish">>
    BY <1>2
  <2> QED BY <1>2, <2>1 DEF Scripts, Recordable
<1>3. CASE s = <<"MIXMONITOR=0", "finish">>
  <2>1. Tail(s) = <<"finish">> /\ Head(s) = "MIXMONITOR=0"
    BY <1>3
  <2> QED BY <1>3, <2>1 DEF Scripts, Recordable
<1>4. CASE s = <<"push", "contacts", "finish">>
  <2>1. Tail(s) = <<"contacts", "finish">> /\ Head(s) = "push"
    BY <1>4
  <2> QED BY <1>4, <2>1 DEF Scripts, Recordable
<1>5. CASE s = <<"contacts", "finish">>
  <2>1. Tail(s) = <<"finish">> /\ Head(s) = "contacts"
    BY <1>5
  <2> QED BY <1>5, <2>1 DEF Scripts, Recordable
<1>6. CASE s = <<"finish">>
  <2>1. Tail(s) = << >> /\ Head(s) = "finish"
    BY <1>6
  <2> QED BY <1>6, <2>1 DEF Scripts, Recordable
<1> QED BY <1>1, <1>2, <1>3, <1>4, <1>5, <1>6 DEF Scripts, Recordable

\* A handler that goes on or ends keeps the rows.
LEMMA GoesOn ==
  ASSUME AgiInv, NEW c \in Call, NEW commands \in Scripts, Begin(c, commands),
         commands \in Recordable => script[c] \in Recordable,
         UNCHANGED <<monitors, file, recording>>,
         \/ UNCHANGED asks
         \/ asks' = [asks EXCEPT ![c] = @ + 1]
  PROVE  script' \in [Call -> Scripts] /\ RowsOfCalls' /\ RecordsOwn' /\ RecordedOwn'
<1>0. asks \in [Call -> Nat] /\ script \in [Call -> Scripts] /\ NoCall \notin Call /\ AgiTypeOK
  BY AgiTypes
<1>1. script' \in [Call -> Scripts]
  BY <1>0 DEF Begin
<1>2. \A d \in Call : asks[d] \in Nat /\ asks'[d] >= asks[d] /\ asks'[d] \in Nat
  BY <1>0
<1>3. RowsOfCalls'
  <2>1. \A f \in DOMAIN monitors : monitors[f].call \in Call \cup {NoCall}
    BY <1>0 DEF AgiTypeOK
  <2> QED BY <1>2, <2>1 DEF RowsOfCalls, AgiInv
<1>4. \A d \in Call : script'[d] \in Recordable => script[d] \in Recordable
  BY <1>0 DEF Begin
<1>5. RecordsOwn'
  BY <1>2, <1>4 DEF RecordsOwn, AgiInv, Owned
<1>6. RecordedOwn'
  <2>1. \A r \in recording : r[2] \in Call
    BY <1>0 DEF AgiTypeOK
  <2> QED BY <1>2, <2>1 DEF RecordedOwn, AgiInv, Owned
<1> QED BY <1>1, <1>3, <1>5, <1>6

LEMMA UnmonitoredStep ==
  ASSUME AgiInv, NEW c \in Call, Unmonitored(c)
  PROVE  AgiInv' /\ RowsKept
<1>0. AgiTypeOK /\ script \in [Call -> Scripts]
  BY AgiTypes
<1>1. <<"MIXMONITOR=0", "finish">> \in Scripts \ Recordable
  BY DEF Scripts, Recordable
<1>2. script' \in [Call -> Scripts] /\ RowsOfCalls' /\ RecordsOwn' /\ RecordedOwn'
  BY <1>1, GoesOn DEF Unmonitored
<1>3. asks' \in [Call -> 0 .. MaxAsks]
  BY <1>0, AgiAssumption DEF Unmonitored, AgiTypeOK
<1>4. script' \in [Call -> Seq(Command)]
  BY <1>2, ScriptsSequences
<1>5. AgiTypeOK'
  BY <1>0, <1>3, <1>4 DEF AgiTypeOK, Unmonitored
<1> QED BY <1>2, <1>5 DEF AgiInv, AgiTyped, RowsKept, Unmonitored

LEMMA PushWakeupStep ==
  ASSUME AgiInv, NEW c \in Call, PushWakeup(c)
  PROVE  AgiInv' /\ RowsKept
<1>0. AgiTypeOK /\ script \in [Call -> Scripts]
  BY AgiTypes
<1>1. <<"push", "contacts", "finish">> \in Scripts \ Recordable
  BY DEF Scripts, Recordable
<1>2. script' \in [Call -> Scripts] /\ RowsOfCalls' /\ RecordsOwn' /\ RecordedOwn'
  BY <1>1, GoesOn DEF PushWakeup
<1>3. polls' \in [Call -> 0 .. MaxPolls]
  BY <1>0, AgiAssumption DEF PushWakeup, AgiTypeOK
<1>4. script' \in [Call -> Seq(Command)]
  BY <1>2, ScriptsSequences
<1>5. AgiTypeOK'
  BY <1>0, <1>3, <1>4 DEF AgiTypeOK, PushWakeup
<1> QED BY <1>2, <1>5 DEF AgiInv, AgiTyped, RowsKept, PushWakeup

LEMMA PushedStep ==
  ASSUME AgiInv, NEW c \in Call, Pushed(c)
  PROVE  AgiInv' /\ RowsKept
<1>0. AgiTypeOK /\ script \in [Call -> Scripts]
  BY AgiTypes
<1>1. Tail(script[c]) \in Scripts /\ (Tail(script[c]) \in Recordable => script[c] \in Recordable)
  <2>1. PICK s \in Scripts : s = script[c]
    BY <1>0
  <2> QED BY <2>1, ScriptTails DEF Pushed
<1>2. <<"finish">> \in Scripts \ Recordable
  BY DEF Scripts, Recordable
<1>3. PICK commands \in Scripts :
        Begin(c, commands) /\ (commands \in Recordable => script[c] \in Recordable)
  BY <1>1, <1>2 DEF Pushed
<1>4. script' \in [Call -> Scripts] /\ RowsOfCalls' /\ RecordsOwn' /\ RecordedOwn'
  BY <1>3, GoesOn DEF Pushed
<1>5. script' \in [Call -> Seq(Command)]
  BY <1>4, ScriptsSequences
<1>6. AgiTypeOK'
  BY <1>0, <1>5 DEF AgiTypeOK, Pushed
<1> QED BY <1>4, <1>6 DEF AgiInv, AgiTyped, RowsKept, Pushed

LEMMA ContactsStep ==
  ASSUME AgiInv, NEW c \in Call, Contacts(c)
  PROVE  AgiInv' /\ RowsKept
<1>0. AgiTypeOK /\ script \in [Call -> Scripts]
  BY AgiTypes
<1>1. Tail(script[c]) \in Scripts /\ (Tail(script[c]) \in Recordable => script[c] \in Recordable)
  <2>1. PICK s \in Scripts : s = script[c]
    BY <1>0
  <2> QED BY <2>1, ScriptTails DEF Contacts
<1>2. PICK commands \in Scripts :
        Begin(c, commands) /\ (commands \in Recordable => script[c] \in Recordable)
  <2>1. CASE UNCHANGED script
    BY <1>0, <2>1 DEF Begin
  <2>2. CASE Begin(c, Tail(script[c]))
    BY <1>1, <2>2
  <2> QED BY <2>1, <2>2 DEF Contacts
<1>3. script' \in [Call -> Scripts] /\ RowsOfCalls' /\ RecordsOwn' /\ RecordedOwn'
  BY <1>2, GoesOn DEF Contacts
<1>4. script' \in [Call -> Seq(Command)]
  BY <1>3, ScriptsSequences
<1>5. polls' \in [Call -> 0 .. MaxPolls]
  <2>1. polls \in [Call -> 0 .. MaxPolls] /\ MaxPolls \in Nat
    BY <1>0, AgiAssumption DEF AgiTypeOK
  <2>2. CASE UNCHANGED polls
    BY <2>1, <2>2
  <2>3. CASE polls' = [polls EXCEPT ![c] = @ + 1] /\ polls[c] # MaxPolls
    BY <2>1, <2>3
  <2> QED BY <2>2, <2>3 DEF Contacts, Waited
<1>6. AgiTypeOK'
  BY <1>0, <1>4, <1>5 DEF AgiTypeOK, Contacts
<1> QED BY <1>3, <1>6 DEF AgiInv, AgiTyped, RowsKept, Contacts

LEMMA CallFailsStep ==
  ASSUME AgiInv, NEW c \in Call, CallFails(c)
  PROVE  AgiInv' /\ RowsKept
<1>0. AgiTypeOK /\ script \in [Call -> Scripts]
  BY AgiTypes
<1>1. << >> \in Scripts \ Recordable
  BY DEF Scripts, Recordable
<1>2. script' \in [Call -> Scripts] /\ RowsOfCalls' /\ RecordsOwn' /\ RecordedOwn'
  BY <1>1, GoesOn DEF CallFails
<1>3. script' \in [Call -> Seq(Command)]
  BY <1>2, ScriptsSequences
<1>4. AgiTypeOK'
  BY <1>0, <1>3 DEF AgiTypeOK, CallFails
<1> QED BY <1>2, <1>4 DEF AgiInv, AgiTyped, RowsKept, CallFails

\* MixMonitor starts for a call that asked: it has the row if it asked once.
LEMMA AnswerStep ==
  ASSUME AgiInv, NEW c \in Call, Answer(c)
  PROVE  AgiInv' /\ RowsKept
<1>0. AgiTypeOK /\ script \in [Call -> Scripts]
  BY AgiTypes
<1>1. /\ Tail(script[c]) \in Scripts
      /\ Tail(script[c]) \in Recordable => script[c] \in Recordable
      /\ Head(script[c]) = "record" => script[c] \in Recordable
  <2>1. PICK s \in Scripts : s = script[c]
    BY <1>0
  <2> QED BY <2>1, ScriptTails DEF Answer
<1>2. script' \in [Call -> Scripts]
  BY <1>0, <1>1 DEF Answer, Begin
<1>3. \A d \in Call : script'[d] \in Recordable => script[d] \in Recordable
  BY <1>0, <1>1 DEF Answer, Begin
<1>4. RecordsOwn' /\ RowsOfCalls'
  BY <1>3 DEF RecordsOwn, RowsOfCalls, AgiInv, Owned, Answer
<1>5. RecordedOwn'
  BY <1>1 DEF RecordedOwn, RecordsOwn, AgiInv, Owned, Answer
<1>6. script' \in [Call -> Seq(Command)]
  BY <1>2, ScriptsSequences
<1>7. \A r \in recording' : r[1] \in Files /\ r[2] \in Call
  <2>1. \A r \in recording : r[1] \in Files /\ r[2] \in Call
    BY <1>0 DEF AgiTypeOK
  <2>2. CASE Head(script[c]) # "record"
    BY <2>1, <2>2 DEF Answer
  <2>3. CASE Head(script[c]) = "record"
    <3>1. file[c] \in Files
      BY <1>1, <2>3 DEF AgiInv, RecordsOwn
    <3> QED BY <2>1, <2>3, <3>1 DEF Answer
  <2> QED BY <2>2, <2>3
<1>8. AgiTypeOK'
  BY <1>0, <1>6, <1>7 DEF AgiTypeOK, Answer
<1> QED BY <1>2, <1>4, <1>5, <1>8 DEF AgiInv, AgiTyped, RowsKept, Answer

\* The row that is taken again is nobody's, and a call that did not ask has none.
LEMMA ReuseStep ==
  ASSUME AgiInv, NEW c \in Call, NEW f \in DOMAIN monitors, Reuse(c, f)
  PROVE  AgiInv' /\ RowsKept
<1>0. AgiTypeOK /\ script \in [Call -> Scripts] /\ asks \in [Call -> Nat] /\ NoCall \notin Call
  BY AgiTypes
<1>1. asks' \in [Call -> 0 .. MaxAsks] /\ asks'[c] = asks[c] + 1
      /\ \A d \in Call : asks[d] \in Nat /\ asks'[d] \in Nat /\ asks'[d] >= asks[d] /\ (d # c => asks'[d] = asks[d])
  <2>1. asks \in [Call -> 0 .. MaxAsks] /\ MaxAsks \in Nat
    BY <1>0, AgiAssumption DEF AgiTypeOK
  <2> QED BY <2>1 DEF Reuse
<1>2. monitors[f].call = NoCall
  BY DEF Reuse, Reusable, AgiInv, RowsOfCalls
<1>3. CASE UNCHANGED <<monitors, script, file>>
  <2>1. AgiTypeOK'
    BY <1>0, <1>1, <1>3 DEF AgiTypeOK, Reuse
  <2>2. \A g \in DOMAIN monitors : monitors[g].call \in Call \cup {NoCall}
    BY <1>0 DEF AgiTypeOK
  <2>3. RowsOfCalls'
    BY <1>1, <1>3, <2>2 DEF AgiInv, RowsOfCalls
  <2>4. RecordsOwn'
    BY <1>1, <1>3 DEF AgiInv, RecordsOwn, Owned
  <2>5. \A r \in recording : r[2] \in Call
    BY <1>0 DEF AgiTypeOK
  <2>6. RecordedOwn'
    BY <1>1, <1>3, <2>5 DEF AgiInv, RecordedOwn, Owned, Reuse
  <2> QED BY <1>0, <1>3, <2>1, <2>3, <2>4, <2>6 DEF AgiInv, AgiTyped, RowsKept
<1>4. CASE MonitorOf(c) \subseteq {f}
           /\ monitors' = [monitors EXCEPT ![f].used = TRUE, ![f].call = c] /\ Chosen(c, f)
  <2>1. /\ DOMAIN monitors' = DOMAIN monitors
        /\ \A g \in DOMAIN monitors :
             /\ g # f => monitors'[g] = monitors[g]
             /\ g = f => /\ monitors'[g].call = c /\ monitors'[g].used = TRUE
                         /\ monitors'[g].parties = monitors[g].parties
                         /\ monitors'[g].requested = monitors[g].requested
    BY <1>4
  <2>2. \A g, d : Owned(g, d) /\ d # NoCall => Owned(g, d)'
    BY <1>2, <2>1 DEF Owned
  <2>3. file' = [file EXCEPT ![c] = f] /\ f \in Files
    BY <1>0, <1>4 DEF Chosen, AgiTypeOK
  <2>4. script' \in [Call -> Scripts]
    BY <1>0, <1>4 DEF Chosen, Begin, Scripts, Recordable
  <2>5. script' \in [Call -> Seq(Command)] /\ file' \in [Call -> Files \cup {NoFile}]
    BY <1>0, <2>3, <2>4, ScriptsSequences DEF AgiTypeOK
  <2>6. \A g \in DOMAIN monitors' :
          /\ g \in Files
          /\ monitors'[g].parties \in Range(Parties) /\ monitors'[g].call \in Call \cup {NoCall}
          /\ monitors'[g].requested \in BOOLEAN /\ monitors'[g].used \in BOOLEAN
    BY <1>0, <2>1 DEF AgiTypeOK
  <2>7. AgiTypeOK'
    BY <1>0, <1>1, <2>5, <2>6, ZenonT(40) DEF AgiTypeOK, Reuse
  <2>8. RowsOfCalls'
    <3>1. \A g \in DOMAIN monitors : monitors[g].call \in Call \cup {NoCall}
      BY <1>0 DEF AgiTypeOK
    <3>2. asks'[c] > 0
      BY <1>1
    <3> QED BY <1>1, <2>1, <3>1, <3>2 DEF AgiInv, RowsOfCalls
  <2>9. RecordsOwn'
    <3> SUFFICES ASSUME NEW d \in Call, script'[d] \in Recordable
                 PROVE  asks'[d] > 0 /\ file'[d] \in Files /\ (asks'[d] = 1 => Owned(file[d], d)')
      BY DEF RecordsOwn, Owned
    <3>1. CASE d = c
      BY <1>0, <1>1, <2>1, <2>3, <3>1 DEF AgiTypeOK, Owned
    <3>2. CASE d # c
      <4>1. script'[d] = script[d] /\ file'[d] = file[d]
        BY <1>0, <1>4, <2>3, <3>2 DEF Chosen, Begin, AgiTypeOK
      <4> QED BY <1>0, <1>1, <2>1, <2>2, <3>2, <4>1 DEF AgiInv, RecordsOwn, Owned
    <3> QED BY <3>1, <3>2
  <2>10. RecordedOwn'
    <3> SUFFICES ASSUME NEW r \in recording
                 PROVE  asks'[r[2]] > 0 /\ (asks'[r[2]] = 1 => Owned(r[1], r[2])')
      BY DEF RecordedOwn, Owned, Reuse
    <3>1. r[2] \in Call /\ asks[r[2]] > 0 /\ (asks[r[2]] = 1 => Owned(r[1], r[2]))
      BY <1>0 DEF AgiInv, RecordedOwn, AgiTypeOK
    <3>2. asks'[r[2]] = 1 => asks[r[2]] = 1
      BY <1>1, <3>1
    <3> QED BY <1>0, <1>1, <2>2, <3>1, <3>2
  <2>11. RowsKept
    BY <1>2, <2>1 DEF RowsKept
  <2> QED BY <2>4, <2>7, <2>8, <2>9, <2>10, <2>11 DEF AgiInv, AgiTyped
<1> QED BY <1>3, <1>4 DEF Reuse

\* The row that is inserted is new, and a call that asks for the first time has none.
LEMMA InsertStep ==
  ASSUME AgiInv, NEW c \in Call, Insert(c)
  PROVE  AgiInv' /\ RowsKept
<1> DEFINE f == NewFile(Parties[c])
<1>0. AgiTypeOK /\ script \in [Call -> Scripts] /\ asks \in [Call -> Nat] /\ NoCall \notin Call
  BY AgiTypes
<1>1. asks' \in [Call -> 0 .. MaxAsks] /\ asks'[c] = asks[c] + 1
      /\ \A d \in Call : asks[d] \in Nat /\ asks'[d] \in Nat /\ asks'[d] >= asks[d] /\ (d # c => asks'[d] = asks[d])
  <2>1. asks \in [Call -> 0 .. MaxAsks] /\ MaxAsks \in Nat
    BY <1>0, AgiAssumption DEF AgiTypeOK
  <2> QED BY <2>1 DEF Insert
<1>2. f \in Files /\ Parties[c] \in Range(Parties)
  <2>1. Parties[c] \in Range(Parties)
    BY AgiAssumption DEF Range
  <2>2. Safe[Parties[c]] \in Range(Safe)
    BY <2>1, AgiAssumption DEF Range
  <2>3. clock \in 0 .. MaxTime
    BY <1>0, AgiAssumption DEF AgiTypeOK
  <2> QED BY <2>1, <2>2, <2>3 DEF NewFile, Files, File
<1>3. /\ UNCHANGED <<clock, allow, rule, polls, contact, recording>>
      /\ \/ UNCHANGED <<monitors, script, file>> /\ ~Conflict(c)
         \/ UNCHANGED monitors /\ Chosen(c, f) /\ Conflict(c)
         \/ /\ f \notin DOMAIN monitors
            /\ monitors' = With(monitors, f, [parties |-> Parties[c], call |-> c,
                                         requested |-> FALSE, used |-> FALSE])
            /\ Chosen(c, f)
  BY DEF Insert, InsertFails
<1>4. Conflict(c) => asks[c] > 0
  BY <1>0 DEF Conflict, MonitorOf, AgiInv, RowsOfCalls
<1> HIDE DEF f
<1>5. ASSUME script' = script \/ Begin(c, <<"MIXMONITOR=1", "record", "finish">>) \/ Begin(c, << >>)
      PROVE  script' \in [Call -> Scripts] /\ \A d \in Call : d # c => script'[d] = script[d]
  BY <1>0, <1>5 DEF Begin, Scripts, Recordable
<1>6. script' \in [Call -> Scripts] /\ \A d \in Call : d # c => script'[d] = script[d]
  BY <1>3, <1>5 DEF Chosen
<1>7. file' = file \/ file' = [file EXCEPT ![c] = f]
  BY <1>3 DEF Chosen
<1>8. file' \in [Call -> Files \cup {NoFile}] /\ \A d \in Call : d # c => file'[d] = file[d]
  <2>1. file \in [Call -> Files \cup {NoFile}]
    BY <1>0 DEF AgiTypeOK
  <2> QED BY <1>2, <1>7, <2>1
<1>9. /\ \A g \in DOMAIN monitors : g \in DOMAIN monitors' /\ monitors'[g] = monitors[g]
      /\ \A g \in DOMAIN monitors' \ DOMAIN monitors :
           /\ g = f /\ monitors'[g].call = c /\ monitors'[g].parties = Parties[c]
           /\ monitors'[g].requested = FALSE /\ monitors'[g].used = FALSE
  BY <1>3 DEF With
<1>10. \A g, d : Owned(g, d) => Owned(g, d)'
  BY <1>9 DEF Owned
<1>11. AgiTypeOK'
  <2>1. \A g \in DOMAIN monitors' :
          /\ g \in Files
          /\ monitors'[g].parties \in Range(Parties) /\ monitors'[g].call \in Call \cup {NoCall}
          /\ monitors'[g].requested \in BOOLEAN /\ monitors'[g].used \in BOOLEAN
    BY <1>0, <1>2, <1>9 DEF AgiTypeOK
  <2>2. script' \in [Call -> Seq(Command)]
    BY <1>6, ScriptsSequences
  <2> QED BY <1>0, <1>1, <1>3, <1>8, <2>1, <2>2, ZenonT(40) DEF AgiTypeOK
<1>12. RowsOfCalls'
  <2>1. \A g \in DOMAIN monitors : monitors[g].call \in Call \cup {NoCall}
    BY <1>0 DEF AgiTypeOK
  <2>2. asks'[c] > 0
    BY <1>1
  <2>3. ASSUME NEW g \in DOMAIN monitors, monitors[g].call # NoCall
        PROVE  asks'[monitors[g].call] > 0
    BY <1>1, <2>1, <2>3 DEF AgiInv, RowsOfCalls
  <2> QED BY <1>9, <2>2, <2>3 DEF AgiInv, RowsOfCalls
<1>13. RecordsOwn'
  <2> SUFFICES ASSUME NEW d \in Call, script'[d] \in Recordable
               PROVE  asks'[d] > 0 /\ file'[d] \in Files /\ (asks'[d] = 1 => Owned(file[d], d)')
    BY DEF RecordsOwn, Owned
  <2>1. CASE d # c
    BY <1>0, <1>1, <1>6, <1>8, <1>10, <2>1 DEF AgiInv, RecordsOwn
  <2>2. CASE d = c
    <3>1. Chosen(c, f)
      <4>1. CASE UNCHANGED script
        BY <2>2, <4>1 DEF Insert, Recordable
      <4> QED BY <1>3, <4>1
    <3>2. file'[c] = f
      BY <1>0, <3>1 DEF Chosen, AgiTypeOK
    <3>3. asks'[c] = 1 => ~Conflict(c)
      BY <1>1, <1>4
    <3>4. asks'[c] = 1 => f \in DOMAIN monitors' /\ monitors'[f].call = c
      <4>1. CASE UNCHANGED <<monitors, script, file>> /\ ~Conflict(c)
        BY <2>2, <4>1 DEF Insert, Recordable
      <4>2. CASE Conflict(c)
        BY <3>3, <4>2
      <4>3. CASE monitors' = With(monitors, f, [parties |-> Parties[c], call |-> c,
                                         requested |-> FALSE, used |-> FALSE])
        BY <4>3 DEF With
      <4> QED BY <1>3, <4>1, <4>2, <4>3
    <3> QED BY <1>1, <1>2, <2>2, <3>2, <3>4 DEF Owned
  <2> QED BY <2>1, <2>2
<1>14. RecordedOwn'
  <2> SUFFICES ASSUME NEW r \in recording
               PROVE  asks'[r[2]] > 0 /\ (asks'[r[2]] = 1 => Owned(r[1], r[2])')
    BY <1>3 DEF RecordedOwn, Owned
  <2>1. r[2] \in Call /\ asks[r[2]] > 0 /\ (asks[r[2]] = 1 => Owned(r[1], r[2]))
    BY <1>0 DEF AgiInv, RecordedOwn, AgiTypeOK
  <2>2. asks'[r[2]] = 1 => asks[r[2]] = 1
    BY <1>1, <2>1
  <2> QED BY <1>1, <1>10, <2>1, <2>2
<1>15. RowsKept
  BY <1>9 DEF RowsKept
<1> QED BY <1>6, <1>11, <1>12, <1>13, <1>14, <1>15 DEF AgiInv, AgiTyped

LEMMA AgiStep ==
  ASSUME AgiInv, [AgiNext]_agiVars
  PROVE  AgiInv' /\ RowsKept
<1>0. AgiTypeOK
  BY AgiTypes
<1>1. CASE Tick
  <2>1. clock' \in 1 .. MaxTime
    BY <1>0, <1>1, AgiAssumption DEF Tick, AgiTypeOK
  <2> QED BY <1>0, <1>1, <2>1
       DEF Tick, AgiInv, AgiTyped, AgiTypeOK, RowsOfCalls, RecordsOwn, RecordedOwn, Owned, RowsKept
<1>2. CASE StaffRules
  <2>1. rule' \in [Range(Parties) -> Rule] /\ allow' \in BOOLEAN
    BY <1>0, <1>2, AgiAssumption DEF StaffRules, AgiTypeOK
  <2> QED BY <1>0, <1>2, <2>1
       DEF StaffRules, AgiInv, AgiTyped, AgiTypeOK, RowsOfCalls, RecordsOwn, RecordedOwn, Owned, RowsKept
<1>3. CASE Registers
  BY <1>0, <1>3
   DEF Registers, AgiInv, AgiTyped, AgiTypeOK, RowsOfCalls, RecordsOwn, RecordedOwn, Owned, RowsKept
<1>4. CASE UNCHANGED agiVars
  BY <1>0, <1>4
   DEF agiVars, AgiInv, AgiTyped, AgiTypeOK, RowsOfCalls, RecordsOwn, RecordedOwn, Owned, RowsKept
<1> QED BY <1>1, <1>2, <1>3, <1>4, UnmonitoredStep, InsertStep, PushWakeupStep, AnswerStep,
           PushedStep, ContactsStep, CallFailsStep, ReuseStep DEF AgiNext

LEMMA AgiMeans == AgiInv => FileShared /\ RecordingFound
<1> SUFFICES ASSUME AgiInv PROVE FileShared /\ RecordingFound
  OBVIOUS
<1>0. asks \in [Call -> Nat] /\ NoCall \notin Call /\ \A r \in recording : r[2] \in Call
  BY AgiTypes DEF AgiTypeOK
<1>1. RecordingFound
  BY DEF AgiInv, RecordedOwn, Owned, RecordingFound
<1>2. FileShared
  BY <1>0 DEF AgiInv, RecordedOwn, Owned, FileShared
<1> QED BY <1>1, <1>2

-----------------------------------------------------------------------------
(* Scripts of FastAGI. *)

\* Going round: the remainder after one step more.
LEMMA ModSplits ==
  ASSUME NEW m \in Nat, NEW n \in Nat, n > 0
  PROVE  m % n \in 0 .. n - 1 /\ m \div n \in Nat /\ m = n * (m \div n) + (m % n)
BY SMT

LEMMA AtLeastOnce == ASSUME NEW n \in Nat, NEW d \in Int, d >= 1 PROVE n * d >= n
BY SMT

LEMMA SplitOnce ==
  ASSUME NEW n \in Nat, n > 0, NEW p \in Int, NEW q \in Int,
         NEW r \in 0 .. n - 1, NEW s \in 0 .. n - 1, n * p + r = n * q + s
  PROVE  r = s
<1>1. n * (q - p) = n * q - n * p /\ n * (p - q) = n * p - n * q
  BY SMT
<1>2. CASE q - p >= 1
  BY <1>1, <1>2, AtLeastOnce
<1>3. CASE p - q >= 1
  BY <1>1, <1>3, AtLeastOnce
<1>4. CASE p = q
  BY <1>4
<1> QED BY <1>2, <1>3, <1>4

LEMMA ModNext ==
  ASSUME NEW m \in Nat, NEW n \in Nat, n > 0
  PROVE (m + 1) % n = IF (m % n) + 1 = n THEN 0 ELSE (m % n) + 1
<1>1. PICK q, r, p, s : q = m \div n /\ r = m % n /\ p = (m + 1) \div n /\ s = (m + 1) % n
  OBVIOUS
<1>2. q \in Nat /\ r \in 0 .. n - 1 /\ m = n * q + r
  BY <1>1, ModSplits
<1>3. p \in Nat /\ s \in 0 .. n - 1 /\ m + 1 = n * p + s
  <2>1. m + 1 \in Nat
    OBVIOUS
  <2> QED BY <1>1, <2>1, ModSplits
<1>4. CASE r + 1 = n
  <2>1. PICK x \in Int, z \in 0 .. n - 1 : x = q + 1 /\ z = 0
    BY <1>2
  <2>2. n * x = n * q + n
    BY <1>2, <2>1, SMT
  <2>3. n * x + z = n * p + s
    BY <1>2, <1>3, <1>4, <2>1, <2>2
  <2>4. s = z
    BY <1>2, <1>3, <2>3, SplitOnce
  <2> QED BY <1>1, <1>4, <2>1, <2>4
<1>5. CASE r + 1 # n
  <2>1. n * q + (r + 1) = n * p + s /\ r + 1 \in 0 .. n - 1
    BY <1>2, <1>3, <1>5
  <2>2. s = r + 1
    BY <1>2, <1>3, <2>1, SplitOnce
  <2> QED BY <1>1, <1>5, <2>2
<1> QED BY <1>4, <1>5

\* How often a sequence of dials has a peer.
Times(tried, p) == Cardinality({i \in DOMAIN tried : tried[i][1] = p})

LEMMA TimesNone == ASSUME NEW p PROVE Times(<< >>, p) = 0
<1>1. {i \in DOMAIN << >> : << >>[i][1] = p} = {}
  OBVIOUS
<1> QED BY <1>1, FS_EmptySet DEF Times

LEMMA TimesType ==
  ASSUME NEW S, NEW tried \in Seq(S), NEW p
  PROVE  IsFiniteSet({i \in DOMAIN tried : tried[i][1] = p}) /\ Times(tried, p) \in Nat
<1>0. Len(tried) \in Int /\ 1 \in Int /\ DOMAIN tried = 1 .. Len(tried)
  OBVIOUS
<1>1. IsFiniteSet(1 .. Len(tried)) /\ {i \in DOMAIN tried : tried[i][1] = p} \in SUBSET (1 .. Len(tried))
  <2>1. IsFiniteSet(1 .. Len(tried))
    BY <1>0, FS_Interval
  <2> QED BY <1>0, <2>1
<1>2. IsFiniteSet({i \in DOMAIN tried : tried[i][1] = p})
  BY <1>1, FS_Subset
<1> QED BY <1>2, FS_CardinalityType DEF Times

LEMMA TimesAppend ==
  ASSUME NEW S, NEW tried \in Seq(S), NEW dial \in S, NEW p
  PROVE  Times(Append(tried, dial), p) = IF dial[1] = p THEN Times(tried, p) + 1 ELSE Times(tried, p)
<1> DEFINE before == {i \in DOMAIN tried : tried[i][1] = p}
           after == {i \in DOMAIN Append(tried, dial) : Append(tried, dial)[i][1] = p}
           next == Len(tried) + 1
<1>1. IsFiniteSet(before) /\ next \notin before
  <2>1. IsFiniteSet(before)
    BY TimesType
  <2> QED BY <2>1
<1>2. after = IF dial[1] = p THEN before \cup {next} ELSE before
  OBVIOUS
<1>3. Cardinality(before \cup {next}) = Cardinality(before) + 1
  <2> HIDE DEF before, next
  <2> QED BY <1>1, FS_AddElement
<1> QED BY <1>2, <1>3 DEF Times

\* The dials went round the order so many times, and the peers of its beginning have one
\* more.
RoundTimes(order, tried, times) ==
  \A slot \in DOMAIN order :
    Times(tried, order[slot]) = IF slot <= Len(tried) % Len(order) THEN times + 1 ELSE times

GoesRound(order, tried) == \E times \in Nat : RoundTimes(order, tried, times)

Once(order) == \A slot, rival \in DOMAIN order : slot # rival => order[slot] # order[rival]

LEMMA RoundBegins ==
  ASSUME NEW S, NEW order \in Seq(S)
  PROVE  GoesRound(order, << >>)
<1>1. order # << >> => 0 % Len(order) = 0
  BY ModSplits, SMT
<1>2. ASSUME NEW slot \in DOMAIN order
      PROVE  Times(<< >>, order[slot]) = IF slot <= Len(<< >>) % Len(order) THEN 0 + 1 ELSE 0
  BY <1>1, <1>2, TimesNone
<1>3. RoundTimes(order, << >>, 0)
  BY <1>2 DEF RoundTimes
<1> QED BY <1>3 DEF GoesRound

\* The next peer is dialled: it is the first of those that were dialled least.
LEMMA RoundGoesOn ==
  ASSUME NEW P, NEW order \in Seq(P), order # << >>, Once(order),
         NEW S, NEW tried \in Seq(S), NEW dial \in S,
         dial[1] = order[(Len(tried) % Len(order)) + 1],
         GoesRound(order, tried)
  PROVE  GoesRound(order, Append(tried, dial))
<1>1. PICK times \in Nat : RoundTimes(order, tried, times)
  BY DEF GoesRound
<1>2. PICK n, m, k, j : n = Len(order) /\ m = Len(tried) /\ k = m % n /\ j = (m + 1) % n
  OBVIOUS
<1>3. n \in Nat /\ n > 0 /\ m \in Nat /\ DOMAIN order = 1 .. n /\ Len(Append(tried, dial)) = m + 1
  BY <1>2
<1>4. k \in 0 .. n - 1 /\ j = IF k + 1 = n THEN 0 ELSE k + 1
  BY <1>2, <1>3, ModSplits, ModNext
<1>5. k + 1 \in 1 .. n /\ dial[1] = order[k + 1]
  BY <1>2, <1>3, <1>4
<1>6. \A slot \in 1 .. n : Times(tried, order[slot]) = IF slot <= k THEN times + 1 ELSE times
  BY <1>1, <1>2, <1>3 DEF RoundTimes
<1>7. \A slot \in 1 .. n : Times(Append(tried, dial), order[slot]) = IF slot <= k + 1 THEN times + 1 ELSE times
  <2> SUFFICES ASSUME NEW slot \in 1 .. n
               PROVE  Times(Append(tried, dial), order[slot]) = IF slot <= k + 1 THEN times + 1 ELSE times
    OBVIOUS
  <2>1. CASE slot = k + 1
    <3>1. Times(Append(tried, dial), order[slot]) = Times(tried, order[slot]) + 1
      BY <1>5, <2>1, TimesAppend
    <3>2. Times(tried, order[slot]) = times
      BY <1>4, <1>6, <2>1
    <3> QED BY <2>1, <3>1, <3>2
  <2>2. CASE slot # k + 1
    <3>1. order[slot] # order[k + 1]
      BY <1>3, <1>5, <2>2 DEF Once
    <3>2. Times(Append(tried, dial), order[slot]) = Times(tried, order[slot])
      BY <1>5, <3>1, TimesAppend
    <3>3. slot <= k + 1 <=> slot <= k
      BY <1>3, <1>4, <2>2
    <3> QED BY <1>6, <3>2, <3>3
  <2> QED BY <2>1, <2>2
<1>8. Len(Append(tried, dial)) % Len(order) = j
  BY <1>2, <1>3
<1>9. CASE k + 1 = n
  <2>1. \A slot \in 1 .. n : slot <= k + 1 /\ ~(slot <= j)
    BY <1>3, <1>4, <1>9
  <2>2. PICK more \in Nat : more = times + 1
    OBVIOUS
  <2>3. RoundTimes(order, Append(tried, dial), more)
    BY <1>3, <1>7, <1>8, <2>1, <2>2 DEF RoundTimes
  <2> QED BY <2>3 DEF GoesRound
<1>10. CASE k + 1 # n
  <2>1. RoundTimes(order, Append(tried, dial), times)
    BY <1>3, <1>4, <1>7, <1>8, <1>10 DEF RoundTimes
  <2> QED BY <2>1 DEF GoesRound
<1> QED BY <1>9, <1>10

LEMMA RoundEven ==
  ASSUME NEW P, NEW order \in Seq(P), NEW tried, GoesRound(order, tried),
         NEW slot \in DOMAIN order, NEW rival \in DOMAIN order
  PROVE  Times(tried, order[slot]) <= Times(tried, order[rival]) + 1
<1>1. PICK times \in Nat : RoundTimes(order, tried, times)
  BY DEF GoesRound
<1>2. Times(tried, order[slot]) \in {times, times + 1} /\ Times(tried, order[rival]) \in {times, times + 1}
  BY <1>1, ZenonT(20) DEF RoundTimes
<1> QED BY <1>2

LEMMA SequenceOf ==
  ASSUME NEW T, NEW n \in Nat, NEW f \in [1 .. n -> T]
  PROVE  f \in Seq(T) /\ Len(f) = n
<1>1. f \in Seq(T)
  OBVIOUS
<1>2. Len(f) = n
  OBVIOUS
<1> QED BY <1>1, <1>2

LEMMA EmptySequence == Len(<< >>) = 0 /\ (\A i \in DOMAIN << >> : FALSE)
<1>1. Len(<< >>) = 0
  OBVIOUS
<1>2. \A i \in DOMAIN << >> : FALSE
  OBVIOUS
<1> QED BY <1>1, <1>2

LEMMA OneMore ==
  ASSUME NEW S, NEW s \in Seq(S), NEW e \in S
  PROVE  /\ Len(Append(s, e)) = Len(s) + 1 /\ Append(s, e) # << >>
         /\ \A i \in DOMAIN Append(s, e) :
              i # Len(s) + 1 => i \in DOMAIN s /\ Append(s, e)[i] = s[i]
OBVIOUS

\* Where the dials of a call stand at each place of its script.
Unreached == {"CHANUNAVAIL", "CANCEL"}

LastStatus(c) == dials[c][Len(dials[c])][2]

DialTrue(c) ==
  /\ \A i \in DOMAIN dials[c] : i # Len(dials[c]) => dials[c][i][2] \in Unreached
  /\ Len(dials[c]) <= MaxAttempts
  /\ doing[c] = "new" => dials[c] = << >>
  /\ doing[c] \in {"dial", "status"} => shuffled[c] # << >>
  /\ doing[c] = "dial" =>
       /\ Len(dials[c]) < MaxAttempts
       /\ dials[c] # << >> => LastStatus(c) \in Unreached
  /\ doing[c] = "status" => dials[c] # << >>
  /\ doing[c] = "tell 1" => dials[c] # << >> /\ LastStatus(c) = "ANSWER"
  /\ doing[c] = "tell 0" /\ dials[c] # << >> =>
       LastStatus(c) # "ANSWER" /\ (Len(dials[c]) = MaxAttempts \/ LastStatus(c) \in Stops)

DialsTrue == \A c \in Placed : DialTrue(c)

OrderTrue(c) == Once(shuffled[c]) /\ GoesRound(shuffled[c], dials[c])

OrdersTrue == \A c \in Placed : OrderTrue(c)

\* A script that has answered has ended.
ToldTrue(t) ==
  /\ t.call \in Placed /\ doing[t.call] \in {"finish", "over"}
  /\ t.name = "TRUNK_GROUP_DIALLED" =>
       /\ t.value = 1 => dials[t.call] # << >> /\ LastStatus(t.call) = "ANSWER"
       /\ t.value # 1 /\ dials[t.call] # << >> =>
            /\ LastStatus(t.call) # "ANSWER"
            /\ Len(dials[t.call]) = MaxAttempts \/ LastStatus(t.call) \in Stops

ToldsTrue == \A t \in answers : ToldTrue(t)

ScriptInv ==
  ScriptTypeOK /\ DialsTrue /\ OrdersTrue /\ ToldsTrue /\ PromisedIsStored

LEMMA ScriptBounds == MaxAttempts \in Nat /\ MaxStaff \in Nat
BY ScriptAssumption

LEMMA ScriptInitially == ScriptInit => ScriptInv
<1> SUFFICES ASSUME ScriptInit PROVE ScriptInv
  OBVIOUS
<1>1. ScriptTypeOK
  <2>1. shown \in Sight
    BY DEF ScriptInit, Sight
  <2>2. staff \in 0 .. MaxStaff
    BY ScriptBounds DEF ScriptInit
  <2>3. shuffled \in [Placed -> Seq(Trunk)] /\ dials \in [Placed -> Seq(Trunk \X DialStatus)]
    BY DEF ScriptInit
  <2> QED BY <2>1, <2>2, <2>3 DEF ScriptInit, ScriptTypeOK, Place
<1>2. DialsTrue
  BY ScriptBounds DEF ScriptInit, DialsTrue, DialTrue
<1>3. OrdersTrue
  <2> SUFFICES ASSUME NEW c \in Placed PROVE OrderTrue(c)
    BY DEF OrdersTrue
  <2>1. shuffled[c] = << >> /\ dials[c] = << >>
    BY DEF ScriptInit
  <2>2. << >> \in Seq(Trunk)
    OBVIOUS
  <2>3. GoesRound(<< >>, << >>)
    BY <2>2, RoundBegins
  <2> QED BY <2>1, <2>3 DEF OrderTrue, Once
<1>4. ToldsTrue /\ PromisedIsStored
  BY DEF ScriptInit, ToldsTrue, PromisedIsStored
<1> QED BY <1>1, <1>2, <1>3, <1>4 DEF ScriptInv

\* What staff, the listener and Asterisk write touches no script, and takes no callback
\* away.
LEMMA StaffStep ==
  ASSUME ScriptInv,
         \/ \E chosen \in SUBSET Trunk : SetMembers(chosen)
         \/ \E p \in Trunk : PeerDeleted(p)
         \/ ServiceDeleted
         \/ \E m \in Agent : MemberChanges(m)
         \/ QueueCached
  PROVE  ScriptInv'
<1>1. UNCHANGED <<stored, doing, shuffled, dials, answers>>
  BY DEF SetMembers, PeerDeleted, ServiceDeleted, MemberChanges, QueueCached, rest
<1>2. DialsTrue' /\ OrdersTrue' /\ ToldsTrue'
  BY <1>1 DEF ScriptInv, DialsTrue, DialTrue, OrdersTrue, OrderTrue, ToldsTrue, ToldTrue, LastStatus
<1>3. PromisedIsStored'
  <2>1. CASE service' = service
    BY <1>1, <2>1 DEF ScriptInv, PromisedIsStored
  <2>2. CASE ServiceDeleted
    BY <1>1, <2>2 DEF ServiceDeleted, ScriptInv, PromisedIsStored
  <2> QED BY <2>1, <2>2 DEF SetMembers, PeerDeleted, MemberChanges, QueueCached
<1>4. staff' \in 0 .. MaxStaff
  <2>1. staff \in 0 .. MaxStaff /\ MayStaff
    BY DEF ScriptInv, ScriptTypeOK, SetMembers, PeerDeleted, ServiceDeleted, MemberChanges, QueueCached
  <2> QED BY <2>1, ScriptBounds DEF MayStaff
<1>5. trunks' \subseteq Trunk /\ group' \subseteq trunks'
  BY DEF ScriptInv, ScriptTypeOK, SetMembers, PeerDeleted, ServiceDeleted, MemberChanges, QueueCached
<1>6. service' \in BOOLEAN
  BY DEF ScriptInv, ScriptTypeOK, SetMembers, PeerDeleted, ServiceDeleted, MemberChanges, QueueCached
<1>7. shown' \in Sight /\ cached' \in Sight \cup {NoSight}
  <2>1. CASE UNCHANGED <<shown, cached>>
    BY <2>1 DEF ScriptInv, ScriptTypeOK
  <2>2. CASE QueueCached
    BY <2>2 DEF QueueCached, ScriptInv, ScriptTypeOK
  <2>3. ASSUME NEW m \in Agent, MemberChanges(m)
        PROVE  shown' \in Sight /\ cached' \in Sight \cup {NoSight}
    BY <2>3 DEF MemberChanges, ScriptInv, ScriptTypeOK, Sight
  <2> QED BY <2>1, <2>2, <2>3 DEF SetMembers, PeerDeleted, ServiceDeleted
<1>8. ScriptTypeOK'
  BY <1>1, <1>4, <1>5, <1>6, <1>7 DEF ScriptInv, ScriptTypeOK
<1> QED BY <1>2, <1>3, <1>8 DEF ScriptInv

\* A script goes to a place that its dials allow.
LEMMA GotoKeeps ==
  ASSUME ScriptInv, NEW c \in Placed, NEW place \in Place, Goto(c, place),
         doing[c] \notin {"finish", "over"},
         UNCHANGED <<dials, shuffled, answers>>,
         DialTrue(c)'
  PROVE  /\ doing' \in [Placed -> Place] /\ DialsTrue' /\ OrdersTrue' /\ ToldsTrue'
<1>1. doing' \in [Placed -> Place] /\ \A d \in Placed : d # c => doing'[d] = doing[d]
  BY DEF Goto, ScriptInv, ScriptTypeOK
<1>2. DialsTrue'
  <2> SUFFICES ASSUME NEW d \in Placed, d # c PROVE DialTrue(d)'
    BY DEF DialsTrue
  <2>1. DialTrue(d)
    BY DEF ScriptInv, DialsTrue
  <2> QED BY <1>1, <2>1 DEF DialTrue, LastStatus
<1>3. OrdersTrue'
  BY DEF ScriptInv, OrdersTrue, OrderTrue
<1>4. ToldsTrue'
  <2> SUFFICES ASSUME NEW t \in answers PROVE ToldTrue(t)'
    BY DEF ToldsTrue
  <2>1. ToldTrue(t)
    BY DEF ScriptInv, ToldsTrue
  <2> QED BY <1>1, <2>1 DEF ToldTrue, LastStatus
<1> QED BY <1>1, <1>2, <1>3, <1>4

\* A script answers with what became of its dials, and ends.
LEMMA TellKeeps ==
  ASSUME ScriptInv, NEW c \in Placed, doing[c] \notin {"finish", "over"},
         Goto(c, "finish"), UNCHANGED <<dials, shuffled>>,
         NEW t, t.call = c, answers' = answers \cup {t}, ToldTrue(t)'
  PROVE  doing' \in [Placed -> Place] /\ DialsTrue' /\ OrdersTrue' /\ ToldsTrue'
<1>1. doing' \in [Placed -> Place] /\ \A d \in Placed : doing'[d] = IF d = c THEN "finish" ELSE doing[d]
  BY DEF Goto, ScriptInv, ScriptTypeOK, Place
<1>2. DialsTrue'
  <2> SUFFICES ASSUME NEW d \in Placed PROVE DialTrue(d)'
    BY DEF DialsTrue
  <2>1. DialTrue(d)
    BY DEF ScriptInv, DialsTrue
  <2> QED BY <1>1, <2>1 DEF DialTrue, LastStatus
<1>3. OrdersTrue'
  BY DEF ScriptInv, OrdersTrue, OrderTrue
<1>4. ToldsTrue'
  <2> SUFFICES ASSUME NEW u \in answers PROVE ToldTrue(u)'
    BY DEF ToldsTrue
  <2>1. ToldTrue(u)
    BY DEF ScriptInv, ToldsTrue
  <2> QED BY <1>1, <2>1 DEF ToldTrue, LastStatus
<1> QED BY <1>1, <1>2, <1>3, <1>4

LEMMA BeginDialStep ==
  ASSUME ScriptInv, NEW c \in Placed, BeginDial(c)
  PROVE  ScriptInv'
<1>1. UNCHANGED <<trunks, group, service, stored, shown, cached, staff, dials, answers>>
  BY DEF BeginDial, world
<1>2. doing[c] = "new" /\ dials[c] = << >>
  BY DEF BeginDial, ScriptInv, DialsTrue, DialTrue
<1> DEFINE Leads(place) ==
       /\ place \in {"tell 0", "dial"} /\ Goto(c, place)
       /\ place = "dial" => MaxAttempts # 0 /\ TrunkEntries # {}
<1>3. PICK place : Leads(place)
  <2>1. CASE TrunkEntries = {} \/ MaxAttempts = 0
    <3>1. Goto(c, "tell 0")
      BY <2>1 DEF BeginDial
    <3>2. Leads("tell 0")
      BY <3>1
    <3> QED BY <3>2
  <2>2. CASE TrunkEntries # {} /\ MaxAttempts # 0
    <3>1. Goto(c, "dial")
      BY <2>2 DEF BeginDial
    <3>2. Leads("dial")
      BY <2>2, <3>1
    <3> QED BY <3>2
  <2> QED BY <2>1, <2>2
<1>4. doing' \in [Placed -> Place]
      /\ \A d \in Placed : doing'[d] = IF d = c THEN place ELSE doing[d]
  BY <1>3 DEF Goto, ScriptInv, ScriptTypeOK, Place
<1> DEFINE Shuffled ==
       /\ shuffled' \in [Placed -> Seq(Trunk)]
       /\ \A d \in Placed : d # c => shuffled'[d] = shuffled[d]
       /\ Once(shuffled'[c]) /\ (TrunkEntries # {} => shuffled'[c] # << >>)
<1>5. Shuffled
  <2>1. CASE UNCHANGED shuffled /\ TrunkEntries = {}
    BY <2>1 DEF ScriptInv, ScriptTypeOK, OrdersTrue, OrderTrue
  <2>2. ASSUME TrunkEntries # {}, NEW order \in SetToSeqs(TrunkEntries),
               shuffled' = [shuffled EXCEPT ![c] = order]
        PROVE  Shuffled
    <3>1. TrunkEntries \in SUBSET Trunk
      BY DEF TrunkEntries, ScriptInv, ScriptTypeOK
    <3>2. PICK n : n = Cardinality(TrunkEntries)
      OBVIOUS
    <3>3. n \in Nat /\ n # 0
      <4>1. IsFiniteSet(TrunkEntries)
        BY <3>1, ScriptAssumption, FS_Subset
      <4> QED BY <2>2, <3>2, <4>1, FS_CardinalityType, FS_EmptySet
    <3>4. order \in [1 .. n -> TrunkEntries] /\ \A i, j \in 1 .. n : i # j => order[i] # order[j]
      BY <2>2, <3>2 DEF SetToSeqs
    <3>5. order \in [1 .. n -> Trunk] /\ DOMAIN order = 1 .. n
      BY <3>1, <3>4
    <3>6. order \in Seq(Trunk) /\ Len(order) = n
      BY <3>3, <3>5, SequenceOf
    <3>7. order # << >> /\ Once(order)
      <4>1. order # << >>
        BY <3>3, <3>6, EmptySequence
      <4> QED BY <3>4, <3>5, <4>1 DEF Once
    <3>8. shuffled \in [Placed -> Seq(Trunk)]
      BY DEF ScriptInv, ScriptTypeOK
    <3> QED BY <2>2, <3>6, <3>7, <3>8
  <2>3. TrunkEntries # {} =>
          \E order \in SetToSeqs(TrunkEntries) : shuffled' = [shuffled EXCEPT ![c] = order]
    BY DEF BeginDial
  <2>4. TrunkEntries = {} => UNCHANGED shuffled
    BY DEF BeginDial
  <2> QED BY <2>1, <2>2, <2>3, <2>4
<1>6. DialsTrue'
  <2> SUFFICES ASSUME NEW d \in Placed PROVE DialTrue(d)'
    BY DEF DialsTrue
  <2>1. CASE d = c
    <3>1. 0 <= MaxAttempts /\ (MaxAttempts # 0 => 0 < MaxAttempts)
      BY ScriptBounds
    <3> QED BY <1>1, <1>2, <1>3, <1>4, <1>5, <2>1, <3>1, EmptySequence, ZenonT(40) DEF DialTrue
  <2>2. CASE d # c
    BY <1>1, <1>4, <1>5, <2>2 DEF ScriptInv, DialsTrue, DialTrue, LastStatus
  <2> QED BY <2>1, <2>2
<1>7. OrdersTrue'
  <2> SUFFICES ASSUME NEW d \in Placed PROVE OrderTrue(d)'
    BY DEF OrdersTrue
  <2>1. CASE d = c
    <3>1. PICK order \in Seq(Trunk) : order = shuffled'[c]
      BY <1>5
    <3>2. GoesRound(order, << >>)
      BY RoundBegins
    <3> QED BY <1>1, <1>2, <1>5, <2>1, <3>1, <3>2 DEF OrderTrue
  <2>2. CASE d # c
    BY <1>1, <1>5, <2>2 DEF ScriptInv, OrdersTrue, OrderTrue
  <2> QED BY <2>1, <2>2
<1>8. ToldsTrue'
  <2> SUFFICES ASSUME NEW t \in answers PROVE ToldTrue(t)'
    BY <1>1 DEF ToldsTrue
  <2>1. ToldTrue(t)
    BY DEF ScriptInv, ToldsTrue
  <2>2. t.call # c
    BY <1>2, <2>1 DEF ToldTrue
  <2> QED BY <1>1, <1>4, <2>1, <2>2 DEF ToldTrue, LastStatus
<1>9. ScriptTypeOK' /\ PromisedIsStored'
  BY <1>1, <1>4, <1>5 DEF ScriptInv, ScriptTypeOK, PromisedIsStored
<1> QED BY <1>6, <1>7, <1>8, <1>9 DEF ScriptInv

\* A dial ends in a status, of the peer whose turn it is.
LEMMA DialStep ==
  ASSUME ScriptInv, NEW c \in Placed, Dial(c)
  PROVE  ScriptInv'
<1>1. UNCHANGED <<trunks, group, service, stored, shown, cached, staff, shuffled, answers>>
  BY DEF Dial, world
<1>2. PICK status : status \in Results(c) /\ dials' = [dials EXCEPT ![c] = Append(@, <<PeerOf(c), status>>)]
  BY DEF Dial
<1>3. PICK tried, order, peer :
        tried = dials[c] /\ order = shuffled[c] /\ peer = PeerOf(c)
  OBVIOUS
<1>4. /\ doing[c] = "dial" /\ order # << >> /\ Len(tried) < MaxAttempts
      /\ \A i \in DOMAIN tried : tried[i][2] \in Unreached
      /\ order \in Seq(Trunk) /\ tried \in Seq(Trunk \X DialStatus)
      /\ Once(order) /\ GoesRound(order, tried)
  <2>1. doing[c] = "dial" /\ DialTrue(c) /\ OrderTrue(c)
    BY DEF Dial, ScriptInv, DialsTrue, OrdersTrue
  <2>2. order \in Seq(Trunk) /\ tried \in Seq(Trunk \X DialStatus)
    BY <1>3 DEF ScriptInv, ScriptTypeOK
  <2>3. \A i \in DOMAIN tried : tried[i][2] \in Unreached
    <3>1. \A i \in DOMAIN tried : i # Len(tried) => tried[i][2] \in Unreached
      BY <1>3, <2>1 DEF DialTrue
    <3>2. tried # << >> => tried[Len(tried)][2] \in Unreached
      BY <1>3, <2>1 DEF DialTrue, LastStatus
    <3> QED BY <2>2, <3>1, <3>2
  <2> QED BY <1>3, <2>1, <2>2, <2>3 DEF DialTrue, OrderTrue
<1>5. peer = order[(Len(tried) % Len(order)) + 1] /\ peer \in Trunk
  <2>1. Len(tried) \in Nat /\ Len(order) \in Nat /\ Len(order) > 0
    BY <1>4
  <2>2. Len(tried) % Len(order) \in 0 .. Len(order) - 1
    BY <2>1, ModSplits
  <2>3. (Len(tried) % Len(order)) + 1 \in 1 .. Len(order)
    BY <2>1, <2>2
  <2>4. peer = order[(Len(tried) % Len(order)) + 1]
    BY <1>3 DEF PeerOf
  <2> QED BY <1>4, <2>3, <2>4
<1>6. status \in DialStatus
  BY <1>2 DEF Results, DialStatus
<1>7. PICK dial \in Trunk \X DialStatus : dial = <<peer, status>>
  BY <1>5, <1>6
<1>8. dials' \in [Placed -> Seq(Trunk \X DialStatus)] /\ dials'[c] = Append(tried, dial)
      /\ \A d \in Placed : d # c => dials'[d] = dials[d]
  BY <1>2, <1>3, <1>4, <1>7 DEF ScriptInv, ScriptTypeOK
<1>9. doing' \in [Placed -> Place]
      /\ \A d \in Placed : doing'[d] = IF d = c THEN "status" ELSE doing[d]
  BY DEF Dial, Goto, ScriptInv, ScriptTypeOK, Place
<1>10. DialsTrue'
  <2> SUFFICES ASSUME NEW d \in Placed PROVE DialTrue(d)'
    BY DEF DialsTrue
  <2>1. CASE d = c
    <3>1. Len(Append(tried, dial)) = Len(tried) + 1 /\ Append(tried, dial) # << >>
          /\ \A i \in DOMAIN Append(tried, dial) :
               i # Len(tried) + 1 => i \in DOMAIN tried /\ Append(tried, dial)[i] = tried[i]
      BY <1>4, OneMore
    <3>2. Len(tried) + 1 <= MaxAttempts
      BY <1>4, ScriptBounds
    <3>3. doing'[d] = "status" /\ dials'[d] = Append(tried, dial) /\ shuffled'[d] = order
      BY <1>1, <1>3, <1>8, <1>9, <2>1
    <3>4. \A i \in DOMAIN Append(tried, dial) :
            i # Len(Append(tried, dial)) => Append(tried, dial)[i][2] \in Unreached
      BY <1>4, <3>1
    <3> QED BY <1>4, <3>1, <3>2, <3>3, <3>4, ZenonT(30) DEF DialTrue
  <2>2. CASE d # c
    BY <1>1, <1>8, <1>9, <2>2 DEF ScriptInv, DialsTrue, DialTrue, LastStatus
  <2> QED BY <2>1, <2>2
<1>11. OrdersTrue'
  <2> SUFFICES ASSUME NEW d \in Placed PROVE OrderTrue(d)'
    BY DEF OrdersTrue
  <2>1. CASE d = c
    <3>1. GoesRound(order, Append(tried, dial))
      BY <1>4, <1>5, <1>7, RoundGoesOn
    <3> QED BY <1>1, <1>3, <1>4, <1>8, <2>1, <3>1 DEF OrderTrue
  <2>2. CASE d # c
    BY <1>1, <1>8, <2>2 DEF ScriptInv, OrdersTrue, OrderTrue
  <2> QED BY <2>1, <2>2
<1>12. ToldsTrue'
  <2> SUFFICES ASSUME NEW t \in answers PROVE ToldTrue(t)'
    BY <1>1 DEF ToldsTrue
  <2>1. ToldTrue(t)
    BY DEF ScriptInv, ToldsTrue
  <2>2. t.call # c
    BY <1>4, <2>1 DEF ToldTrue
  <2> QED BY <1>1, <1>8, <1>9, <2>1, <2>2 DEF ToldTrue, LastStatus
<1>13. ScriptTypeOK' /\ PromisedIsStored'
  BY <1>1, <1>8, <1>9 DEF ScriptInv, ScriptTypeOK, PromisedIsStored
<1> QED BY <1>10, <1>11, <1>12, <1>13 DEF ScriptInv

LEMMA ReadStatusStep ==
  ASSUME ScriptInv, NEW c \in Placed, ReadStatus(c)
  PROVE  ScriptInv'
<1>1. UNCHANGED <<trunks, group, service, stored, shown, cached, staff, shuffled, dials, answers>>
  BY DEF ReadStatus, world
<1>2. doing[c] = "status" /\ DialTrue(c) /\ dials[c] # << >> /\ dials[c] \in Seq(Trunk \X DialStatus)
  BY DEF ReadStatus, ScriptInv, ScriptTypeOK, DialsTrue, DialTrue
<1>3. PICK status : status = LastStatus(c)
  OBVIOUS
<1>4. status \in DialStatus
  BY <1>2, <1>3 DEF LastStatus
<1> DEFINE Leads(place) ==
       /\ place \in {"finish", "tell 1", "tell 0", "dial"} /\ Goto(c, place)
       /\ place = "tell 1" => status = "ANSWER"
       /\ place = "tell 0" => status # "ANSWER" /\ (status \in Stops \/ Exhausted(c))
       /\ place = "dial" => status \notin {"ANSWER", "unset"} \cup Stops /\ ~Exhausted(c)
<1>5. PICK place : Leads(place)
  <2>1. Last(dials[c])[2] = status
    BY <1>3 DEF Last, LastStatus
  <2>2. CASE status = "unset" /\ Goto(c, "finish")
    <3>1. Leads("finish")
      BY <2>2
    <3> QED BY <3>1
  <2>3. CASE status = "ANSWER" /\ Goto(c, "tell 1")
    <3>1. Leads("tell 1")
      BY <2>3
    <3> QED BY <3>1
  <2>4. CASE /\ status \notin {"unset", "ANSWER"}
             /\ Goto(c, IF status \in Stops \/ Exhausted(c) THEN "tell 0" ELSE "dial")
    <3>1. CASE status \in Stops \/ Exhausted(c)
      <4>1. Leads("tell 0")
        BY <2>4, <3>1
      <4> QED BY <4>1
    <3>2. CASE ~(status \in Stops \/ Exhausted(c))
      <4>1. Leads("dial")
        BY <2>4, <3>2
      <4> QED BY <4>1
    <3> QED BY <3>1, <3>2
  <2> HIDE DEF Leads
  <2> QED BY <2>1, <2>2, <2>3, <2>4 DEF ReadStatus
<1>6. DialTrue(c)'
  <2>1. doing'[c] = place
    BY <1>5 DEF Goto, ScriptInv, ScriptTypeOK
  <2>2. LastStatus(c)' = status /\ UNCHANGED <<dials, shuffled>>
    BY <1>1, <1>3 DEF ReadStatus, LastStatus
  <2>3. /\ Exhausted(c) => Len(dials[c]) = MaxAttempts
        /\ ~Exhausted(c) => Len(dials[c]) < MaxAttempts
    <3>1. Len(dials[c]) <= MaxAttempts
      BY <1>2 DEF DialTrue
    <3>2. Len(dials[c]) \in Nat
      <4>1. dials[c] \in Seq(Trunk \X DialStatus)
        BY <1>2
      <4> QED BY <4>1
    <3> QED BY <3>1, <3>2, ScriptBounds DEF Exhausted
  <2>5. place = "dial" => status \in Unreached
    BY <1>4, <1>5 DEF DialStatus, Unreached, Stops
  <2>6. shuffled[c] # << >>
    BY <1>2 DEF DialTrue
  <2> QED BY <1>2, <1>5, <2>1, <2>2, <2>3, <2>5, <2>6, ZenonT(40) DEF DialTrue
<1>7. place \in Place /\ doing[c] \notin {"finish", "over"}
  BY <1>2, <1>5 DEF Place
<1>8. doing' \in [Placed -> Place] /\ DialsTrue' /\ OrdersTrue' /\ ToldsTrue'
  BY <1>5, <1>6, <1>7, GotoKeeps DEF ReadStatus
<1>9. ScriptTypeOK' /\ PromisedIsStored'
  BY <1>1, <1>8 DEF ReadStatus, ScriptInv, ScriptTypeOK, PromisedIsStored
<1> QED BY <1>8, <1>9 DEF ScriptInv

LEMMA FinishStep ==
  ASSUME ScriptInv, NEW c \in Placed, FinishScript(c)
  PROVE  ScriptInv'
<1>1. UNCHANGED <<trunks, group, service, stored, shown, cached, staff, shuffled, dials, answers>>
  BY DEF FinishScript, world
<1>2. doing' \in [Placed -> Place] /\ \A d \in Placed : doing'[d] = IF d = c THEN "over" ELSE doing[d]
  BY DEF FinishScript, Goto, ScriptInv, ScriptTypeOK, Place
<1>3. DialsTrue'
  <2> SUFFICES ASSUME NEW d \in Placed PROVE DialTrue(d)'
    BY DEF DialsTrue
  <2>1. DialTrue(d)
    BY DEF ScriptInv, DialsTrue
  <2> QED BY <1>1, <1>2, <2>1 DEF DialTrue, LastStatus
<1>4. OrdersTrue'
  BY <1>1 DEF ScriptInv, OrdersTrue, OrderTrue
<1>5. ToldsTrue'
  <2> SUFFICES ASSUME NEW t \in answers PROVE ToldTrue(t)'
    BY <1>1 DEF ToldsTrue
  <2>1. ToldTrue(t)
    BY DEF ScriptInv, ToldsTrue
  <2> QED BY <1>1, <1>2, <2>1 DEF ToldTrue, LastStatus
<1>6. ScriptTypeOK' /\ PromisedIsStored'
  BY <1>1, <1>2 DEF ScriptInv, ScriptTypeOK, PromisedIsStored
<1> QED BY <1>3, <1>4, <1>5, <1>6 DEF ScriptInv

LEMMA BrokenStep ==
  ASSUME ScriptInv, NEW c \in Placed, Broken(c)
  PROVE  ScriptInv'
<1>1. UNCHANGED <<trunks, group, service, stored, shown, cached, staff, shuffled, dials, answers>>
  BY DEF Broken, world
<1>2. Goto(c, "failed") /\ "failed" \in Place /\ doing[c] \notin {"finish", "over"}
  BY DEF Broken, Place
<1>3. DialTrue(c)'
  <2>1. doing'[c] = "failed"
    BY <1>2 DEF Goto, ScriptInv, ScriptTypeOK
  <2> QED BY <1>1, <2>1 DEF ScriptInv, DialsTrue, DialTrue
<1>4. doing' \in [Placed -> Place] /\ DialsTrue' /\ OrdersTrue' /\ ToldsTrue'
  BY <1>1, <1>2, <1>3, GotoKeeps
<1>5. ScriptTypeOK' /\ PromisedIsStored'
  BY <1>1, <1>4 DEF ScriptInv, ScriptTypeOK, PromisedIsStored
<1> QED BY <1>4, <1>5 DEF ScriptInv

LEMMA TellDialledStep ==
  ASSUME ScriptInv, NEW c \in Placed, TellDialled(c)
  PROVE  ScriptInv'
<1>1. UNCHANGED <<trunks, group, service, stored, shown, cached, staff, shuffled, dials>>
  BY DEF TellDialled, world
<1>2. PICK t : /\ t = [call |-> c, name |-> "TRUNK_GROUP_DIALLED",
                       value |-> IF doing[c] = "tell 1" THEN 1 ELSE 0]
               /\ answers' = answers \cup {t}
  BY DEF TellDialled, Tells
<1>3. /\ t.call = c /\ t.name = "TRUNK_GROUP_DIALLED"
      /\ doing[c] = "tell 1" => t.value = 1
      /\ doing[c] = "tell 0" => t.value # 1
  <2>1. t.call = c /\ t.name = "TRUNK_GROUP_DIALLED" /\ t.value = IF doing[c] = "tell 1" THEN 1 ELSE 0
    BY <1>2
  <2>2. 0 # 1
    OBVIOUS
  <2> QED BY <2>1, <2>2, Zenon
<1>4. doing[c] \in {"tell 0", "tell 1"} /\ DialTrue(c) /\ Goto(c, "finish") /\ doing'[c] = "finish"
  BY DEF TellDialled, Goto, ScriptInv, ScriptTypeOK, DialsTrue
<1>5. ToldTrue(t)'
  BY <1>1, <1>3, <1>4 DEF ToldTrue, DialTrue, LastStatus
<1>6. doing' \in [Placed -> Place] /\ DialsTrue' /\ OrdersTrue' /\ ToldsTrue'
  BY <1>1, <1>2, <1>3, <1>4, <1>5, TellKeeps
<1>7. PromisedIsStored'
  BY <1>1, <1>2, <1>3 DEF ScriptInv, PromisedIsStored
<1>8. ScriptTypeOK'
  BY <1>1, <1>2, <1>3, <1>6 DEF ScriptInv, ScriptTypeOK
<1> QED BY <1>6, <1>7, <1>8 DEF ScriptInv

\* The scripts that answer at once: none of them says that somebody was reached, and a
\* callback is promised when it is stored.
LEMMA AtOnceStep ==
  ASSUME ScriptInv, NEW c \in Placed,
         StatusCached(c) \/ StatusAsked(c) \/ Unnamed(c) \/ (AddCallback(c) /\ service)
  PROVE  ScriptInv'
<1>1. UNCHANGED <<trunks, group, service, shown, cached, staff, shuffled, dials>>
      /\ stored' \subseteq Placed /\ stored \subseteq stored'
  BY DEF StatusCached, StatusAsked, Unnamed, AddCallback, world, ScriptInv, ScriptTypeOK
<1>2. PICK t : /\ t.call = c /\ answers' = answers \cup {t}
               /\ t.name = "TRUNK_GROUP_DIALLED" => t.value = 0
               /\ t.name = "CALLBACK_ADDED" /\ t.value = 1 => c \in stored' /\ service
  <2>0. ASSUME NEW name, NEW value, Tells(c, name, value),
               name = "TRUNK_GROUP_DIALLED" => value = 0,
               name = "CALLBACK_ADDED" /\ value = 1 => c \in stored' /\ service
        PROVE  \E t : /\ t.call = c /\ answers' = answers \cup {t}
                      /\ t.name = "TRUNK_GROUP_DIALLED" => t.value = 0
                      /\ t.name = "CALLBACK_ADDED" /\ t.value = 1 => c \in stored' /\ service
    <3> DEFINE t == [call |-> c, name |-> name, value |-> value]
    <3>1. t.call = c /\ t.name = name /\ t.value = value
      OBVIOUS
    <3>2. answers' = answers \cup {t}
      BY <2>0 DEF Tells
    <3> HIDE DEF t
    <3> QED BY <2>0, <3>1, <3>2
  <2>1. CASE StatusCached(c)
    <3>1. PICK value : Tells(c, "READYTORECEIVE", value)
      BY <2>1 DEF StatusCached
    <3> QED BY <2>0, <3>1
  <2>2. CASE StatusAsked(c)
    <3>1. PICK value : Tells(c, "READYTORECEIVE", value)
      BY <2>2 DEF StatusAsked
    <3> QED BY <2>0, <3>1
  <2>3. CASE Unnamed(c)
    <3>1. PICK name : Tells(c, name, 0)
      BY <2>3 DEF Unnamed
    <3>2. 0 # 1
      OBVIOUS
    <3> QED BY <2>0, <3>1, <3>2
  <2>4. CASE AddCallback(c) /\ service
    BY <2>4 DEF AddCallback, Tells
  <2> QED BY <2>1, <2>2, <2>3, <2>4
<1>3. doing[c] = "new" /\ DialTrue(c) /\ Goto(c, "finish") /\ doing'[c] = "finish"
  BY DEF StatusCached, StatusAsked, Unnamed, AddCallback, Goto, ScriptInv, ScriptTypeOK, DialsTrue
<1>4. ToldTrue(t)'
  BY <1>1, <1>2, <1>3 DEF ToldTrue, DialTrue
<1>5. doing' \in [Placed -> Place] /\ DialsTrue' /\ OrdersTrue' /\ ToldsTrue'
  BY <1>1, <1>2, <1>3, <1>4, TellKeeps
<1>6. PromisedIsStored'
  BY <1>1, <1>2 DEF ScriptInv, PromisedIsStored
<1>7. ScriptTypeOK'
  BY <1>1, <1>2, <1>5 DEF ScriptInv, ScriptTypeOK
<1> QED BY <1>5, <1>6, <1>7 DEF ScriptInv

LEMMA AddFailsStep ==
  ASSUME ScriptInv, NEW c \in Placed, AddCallbackBroken(c) \/ (AddCallback(c) /\ ~service)
  PROVE  ScriptInv'
<1>1. UNCHANGED <<trunks, group, service, shown, cached, staff, shuffled, dials, answers>>
      /\ stored' \subseteq Placed /\ stored \subseteq stored'
  BY DEF AddCallback, AddCallbackBroken, ScriptInv, ScriptTypeOK
<1>2. Goto(c, "failed") /\ "failed" \in Place /\ doing[c] \notin {"finish", "over"}
  BY DEF AddCallback, AddCallbackBroken, Place
<1>3. DialTrue(c)'
  <2>1. doing'[c] = "failed"
    BY <1>2 DEF Goto, ScriptInv, ScriptTypeOK
  <2> QED BY <1>1, <2>1 DEF ScriptInv, DialsTrue, DialTrue
<1>4. doing' \in [Placed -> Place] /\ DialsTrue' /\ OrdersTrue' /\ ToldsTrue'
  BY <1>1, <1>2, <1>3, GotoKeeps
<1>5. ScriptTypeOK' /\ PromisedIsStored'
  BY <1>1, <1>4 DEF ScriptInv, ScriptTypeOK, PromisedIsStored
<1> QED BY <1>4, <1>5 DEF ScriptInv

LEMMA ScriptStep ==
  ASSUME ScriptInv, [ScriptNext]_scriptVars
  PROVE  ScriptInv'
<1>1. CASE UNCHANGED scriptVars
  BY <1>1 DEF scriptVars, ScriptInv, ScriptTypeOK, DialsTrue, DialTrue, OrdersTrue, OrderTrue,
              ToldsTrue, ToldTrue, LastStatus, PromisedIsStored
<1>2. ASSUME NEW c \in Placed,
             \/ BeginDial(c) \/ Dial(c) \/ ReadStatus(c) \/ TellDialled(c) \/ FinishScript(c) \/ Broken(c)
             \/ StatusCached(c) \/ StatusAsked(c)
             \/ AddCallback(c) \/ AddCallbackBroken(c) \/ Unnamed(c)
      PROVE  ScriptInv'
  BY <1>2, BeginDialStep, DialStep, ReadStatusStep, TellDialledStep, FinishStep, BrokenStep,
     AtOnceStep, AddFailsStep
<1> QED BY <1>1, <1>2, StaffStep DEF ScriptNext

LEMMA ScriptMeans ==
  ScriptInv =>
    OneReached /\ ToldAsDialled /\ AttemptsGoRound /\ AttemptsBounded /\ PromisedIsStored /\ ScriptTypeOK
<1> SUFFICES ASSUME ScriptInv
             PROVE  OneReached /\ ToldAsDialled /\ AttemptsGoRound /\ AttemptsBounded
  BY DEF ScriptInv
<1>0. \A c \in Placed : dials[c] \in Seq(Trunk \X DialStatus)
  BY DEF ScriptInv, ScriptTypeOK
<1>1. OneReached
  BY DEF ScriptInv, DialsTrue, DialTrue, OneReached, StatusAt, Unreached
<1>2. ToldAsDialled
  <2> SUFFICES ASSUME NEW t \in answers, t.name = "TRUNK_GROUP_DIALLED", NEW n, n = Len(dials[t.call])
               PROVE  /\ (t.value = 1) <=> (n > 0 /\ StatusAt(t.call, n) = "ANSWER")
                      /\ t.value = 0 /\ n > 0 => n = MaxAttempts \/ StatusAt(t.call, n) \in {"BUSY", "NOANSWER"}
    BY DEF ToldAsDialled
  <2>1. ToldTrue(t)
    BY DEF ScriptInv, ToldsTrue
  <2>2. dials[t.call] # << >> <=> n > 0
    BY <1>0, <2>1 DEF ToldTrue
  <2>3. StatusAt(t.call, n) = LastStatus(t.call)
    BY DEF StatusAt, LastStatus
  <2>4. t.value = 0 => t.value # 1
    OBVIOUS
  <2> QED BY <2>1, <2>2, <2>3, <2>4 DEF ToldTrue, Stops
<1>3. AttemptsGoRound
  <2> SUFFICES ASSUME NEW c \in Placed, NEW p \in Range(shuffled[c]), NEW q \in Range(shuffled[c])
               PROVE  Times(dials[c], p) <= Times(dials[c], q) + 1
    BY DEF AttemptsGoRound, Times
  <2>1. PICK order, tried : order = shuffled[c] /\ tried = dials[c]
    OBVIOUS
  <2>2. order \in Seq(Trunk) /\ GoesRound(order, tried)
    BY <2>1 DEF ScriptInv, ScriptTypeOK, OrdersTrue, OrderTrue
  <2>3. PICK i \in DOMAIN order, j \in DOMAIN order : p = order[i] /\ q = order[j]
    BY <2>1 DEF Range
  <2> QED BY <2>1, <2>2, <2>3, RoundEven
<1>4. AttemptsBounded
  BY DEF ScriptInv, DialsTrue, DialTrue, AttemptsBounded
<1> QED BY <1>1, <1>2, <1>3, <1>4

-----------------------------------------------------------------------------
(* Lists of callers. *)

\* One row for a caller and a destination; the newest key is rowKey.
ListedRight ==
  /\ \A k \in DOMAIN listed : k \in 1 .. rowKey /\ listed[k] \in Entries
  /\ \A k, l \in DOMAIN listed : Numbers(listed[k]) = Numbers(listed[l]) => k = l

\* What was promised is the row as it stands.
PromisesListed ==
  \A entry \in promised : entry \in Entries /\ \E k \in DOMAIN listed : listed[k] = entry

\* Forms that are open, and rows that are to be signed, have a key that is known.
FormsRight ==
  /\ DOMAIN opened = Web /\ DOMAIN posted = Web
  /\ \A w \in Web : opened[w] # <<>> => opened[w][1] \in 1 .. rowKey /\ opened[w][2] \in Entries
  /\ \A w \in Web : posted[w] # <<>> => posted[w][1] \in 1 .. rowKey /\ posted[w][2] \in Entries

EntriesRight ==
  /\ DOMAIN entering = Web
  /\ \A w \in Web : entering[w] # <<>> => entering[w] \in ListName \X Entries
  /\ \A k \in DOMAIN entries :
       k \in 1 .. rowKey /\ entries[k] \in ListName \X Entries /\ entries[k][1] \in named

ListsTyped ==
  /\ rowKey \in 0 .. MaxListed /\ day \in 0 .. LastDay
  /\ named \subseteq ListName /\ DOMAIN contacts \subseteq Caller

ListsInv == ListsTyped /\ ListedRight /\ PromisesListed /\ FormsRight /\ EntriesRight

LEMMA ListsBounds == LastDay \in Nat /\ MaxListed \in Nat
BY ListsAssumption

LEMMA ListsInitially == ListsInit => ListsInv
BY ListsBounds
DEF ListsInit, ListsInv, ListsTyped, ListedRight, PromisesListed, FormsRight, EntriesRight

\* A row is stored where no other has its numbers, and the promise that it replaces is
\* taken back.
LEMMA Puts ==
  ASSUME ListsInv, NEW key, NEW row \in Entries,
         rowKey' \in Nat, rowKey' >= rowKey, key \in 1 .. rowKey',
         Unique(key, row),
         DOMAIN listed' = DOMAIN listed \cup {key},
         \A k \in DOMAIN listed' : listed'[k] = IF k = key THEN row ELSE listed[k],
         \A entry \in promised' :
           entry = row \/ (entry \in promised /\ (key \in DOMAIN listed => entry # listed[key]))
  PROVE  ListedRight' /\ PromisesListed'
<1>1. \A k \in DOMAIN listed' : k \in 1 .. rowKey' /\ listed'[k] \in Entries
  BY ListsBounds DEF ListsInv, ListedRight, ListsTyped
<1>2. \A k \in DOMAIN listed : Numbers(listed[k]) = Numbers(row) => k = key
  BY DEF Unique, OfPair
<1>3. \A k, l \in DOMAIN listed' : Numbers(listed'[k]) = Numbers(listed'[l]) => k = l
  BY <1>2 DEF ListsInv, ListedRight
<1>4. PromisesListed'
  <2> SUFFICES ASSUME NEW entry \in promised'
               PROVE  entry \in Entries /\ \E k \in DOMAIN listed' : listed'[k] = entry
    BY DEF PromisesListed
  <2>1. CASE entry = row
    BY <2>1
  <2>2. CASE entry \in promised /\ (key \in DOMAIN listed => entry # listed[key])
    <3>1. PICK k \in DOMAIN listed : listed[k] = entry
      BY <2>2 DEF ListsInv, PromisesListed
    <3> QED BY <2>2, <3>1 DEF ListsInv, PromisesListed
  <2> QED BY <2>1, <2>2
<1> QED BY <1>1, <1>3, <1>4 DEF ListedRight

\* What the other tables know stays when the newest key grows.
LEMMA KeysGrow ==
  ASSUME ListsInv, rowKey' \in 0 .. MaxListed, rowKey' >= rowKey,
         UNCHANGED <<named, contacts, day>>
  PROVE  /\ ListsTyped'
         /\ UNCHANGED <<opened, posted>> => FormsRight'
         /\ UNCHANGED <<entries, entering>> => EntriesRight'
         /\ UNCHANGED <<listed, promised>> => ListedRight' /\ PromisesListed'
<1>0. rowKey \in Nat /\ rowKey' \in Nat
  BY ListsBounds DEF ListsInv, ListsTyped
<1>1. \A k \in 1 .. rowKey : k \in 1 .. rowKey'
  BY <1>0
<1>2. ListsTyped'
  BY DEF ListsInv, ListsTyped
<1>3. ASSUME UNCHANGED <<opened, posted>> PROVE FormsRight'
  BY <1>1, <1>3 DEF ListsInv, FormsRight
<1>4. ASSUME UNCHANGED <<entries, entering>> PROVE EntriesRight'
  BY <1>1, <1>4 DEF ListsInv, EntriesRight
<1>5. ASSUME UNCHANGED <<listed, promised>> PROVE ListedRight' /\ PromisesListed'
  BY <1>1, <1>5 DEF ListsInv, ListedRight, PromisesListed
<1> QED BY <1>2, <1>3, <1>4, <1>5

LEMMA UpsertStep ==
  ASSUME ListsInv, NEW w \in Web, NEW entry \in Entries, NEW given \in BOOLEAN,
         Upsert(w, entry, given)
  PROVE  ListsInv'
<1>0. rowKey \in Nat /\ rowKey <= MaxListed /\ MaxListed \in Nat
  BY ListsBounds DEF ListsInv, ListsTyped
<1>1. UNCHANGED <<opened, named, entries, entering, contacts, day>>
  BY DEF Upsert
<1>2. CASE Looked(entry) # {}
  <2>1. PICK key \in Looked(entry) : key = CHOOSE k \in Looked(entry) : TRUE
    BY <1>2
  <2>2. key \in DOMAIN listed /\ Numbers(listed[key]) = Numbers(entry) /\ listed[key] \in Entries
        /\ key \in 1 .. rowKey
    BY <2>1 DEF Looked, OfPair, ListsInv, ListedRight
  <2>3. PICK row : row = IF given THEN entry ELSE [entry EXCEPT !.until = listed[key].until]
    OBVIOUS
  <2>4. /\ listed' = [listed EXCEPT ![key] = row] /\ UNCHANGED <<rowKey, posted>>
        /\ promised' = IF given THEN TakenBack({Numbers(entry)}) \cup {entry} ELSE promised
    BY <1>2, <2>1, <2>3 DEF Upsert
  <2>5. row \in Entries /\ Numbers(row) = Numbers(entry) /\ (~given => row = listed[key])
    <3>1. CASE given
      BY <2>3, <3>1
    <3>2. CASE ~given
      <4>1. /\ listed[key].caller = entry.caller /\ listed[key].dest = entry.dest
        BY <2>2 DEF Numbers
      <4>2. row = [entry EXCEPT !.until = listed[key].until]
        BY <2>3, <3>2
      <4>3. row = listed[key]
        BY <2>2, <4>1, <4>2 DEF Entries
      <4> QED BY <2>2, <4>3
    <3> QED BY <3>1, <3>2
  <2>6. Unique(key, row)
    BY <2>2, <2>5 DEF Unique, OfPair, ListsInv, ListedRight
  <2>7. DOMAIN listed' = DOMAIN listed \cup {key}
        /\ \A k \in DOMAIN listed' : listed'[k] = IF k = key THEN row ELSE listed[k]
    BY <2>2, <2>4
  <2>8. ASSUME NEW e \in promised'
        PROVE  e = row \/ (e \in promised /\ (key \in DOMAIN listed => e # listed[key]))
    <3>1. CASE given
      <4>1. e = entry \/ (e \in promised /\ Numbers(e) # Numbers(entry))
        BY <3>1, <2>4, <2>8 DEF TakenBack
      <4> QED BY <2>2, <2>3, <3>1, <4>1
    <3>2. CASE ~given
      BY <2>2, <2>4, <2>5, <2>8, <3>2
    <3> QED BY <3>1, <3>2
  <2>9. ListedRight' /\ PromisesListed'
    <3>1. rowKey' \in Nat /\ rowKey' >= rowKey /\ key \in 1 .. rowKey'
      BY <1>0, <2>2, <2>4
    <3> QED BY <2>5, <2>6, <2>7, <2>8, <3>1, Puts
  <2>10. rowKey' \in 0 .. MaxListed /\ rowKey' >= rowKey
    BY <1>0, <2>4
  <2> QED BY <1>1, <2>4, <2>9, <2>10, KeysGrow DEF ListsInv
<1>3. CASE Looked(entry) = {}
  <2>1. PICK row : row = IF given THEN entry ELSE [entry EXCEPT !.until = Never]
    OBVIOUS
  <2>2. row \in Entries /\ Numbers(row) = Numbers(entry)
    <3>1. Never \in Until
      BY ListsBounds DEF Never, Until
    <3> QED BY <2>1, <3>1 DEF Entries, Numbers
  <2>3. /\ rowKey < MaxListed /\ rowKey' = rowKey + 1 /\ listed' = With(listed, rowKey + 1, row)
        /\ posted' = [posted EXCEPT ![w] = <<rowKey + 1, row>>] /\ UNCHANGED promised
    BY <1>3, <2>1 DEF Upsert
  <2>4. PICK key : key = rowKey + 1
    OBVIOUS
  <2>5. key \notin DOMAIN listed /\ rowKey' \in 0 .. MaxListed /\ rowKey' \in Nat /\ rowKey' >= rowKey /\ key \in 1 .. rowKey'
    BY <1>0, <2>3, <2>4 DEF ListsInv, ListedRight
  <2>6. Unique(key, row)
    BY <1>3, <2>2 DEF Unique, Looked
  <2>7. DOMAIN listed' = DOMAIN listed \cup {key}
        /\ \A k \in DOMAIN listed' : listed'[k] = IF k = key THEN row ELSE listed[k]
    BY <2>3, <2>4 DEF With
  <2>8. \A e \in promised' : e = row \/ e \in promised
    BY <2>3
  <2>9. ListedRight' /\ PromisesListed'
    BY <2>2, <2>5, <2>6, <2>7, <2>8, Puts
  <2>10. FormsRight'
    <3>1. \A k \in 1 .. rowKey : k \in 1 .. rowKey'
      BY <1>0, <2>3
    <3>2. /\ DOMAIN posted' = Web /\ posted'[w] = <<key, row>>
          /\ \A v \in Web : v # w => posted'[v] = posted[v]
      BY <2>3, <2>4 DEF ListsInv, FormsRight
    <3> QED BY <1>1, <2>2, <2>5, <3>1, <3>2 DEF ListsInv, FormsRight
  <2> QED BY <1>1, <2>5, <2>9, <2>10, KeysGrow DEF ListsInv
<1> QED BY <1>2, <1>3

LEMMA SignStep ==
  ASSUME ListsInv, NEW w \in Web, SignRow(w)
  PROVE  ListsInv'
<1>1. UNCHANGED <<listed, opened, named, entries, entering, contacts, day, rowKey>>
  BY DEF SignRow
<1>2. FormsRight'
  BY <1>1 DEF SignRow, ListsInv, FormsRight
<1>3. PromisesListed'
  BY <1>1 DEF SignRow, ListsInv, PromisesListed, ListedRight
<1> QED BY <1>1, <1>2, <1>3 DEF ListsInv, ListsTyped, ListedRight, EntriesRight

LEMMA OpenFormStep ==
  ASSUME ListsInv, NEW w \in Web, NEW key \in 1 .. MaxListed, NEW entry \in Entries,
         NEW put \in BOOLEAN, OpenForm(w, key, entry, put)
  PROVE  ListsInv'
<1>0. rowKey \in Nat /\ rowKey <= MaxListed /\ MaxListed \in Nat
  BY ListsBounds DEF ListsInv, ListsTyped
<1>1. key \in 1 .. rowKey \/ key = rowKey + 1
  BY DEF OpenForm, ListsInv, ListedRight
<1>2. rowKey' \in 0 .. MaxListed /\ rowKey' >= rowKey /\ key \in 1 .. rowKey'
  <2>1. rowKey' = IF key > rowKey THEN key ELSE rowKey
    BY DEF OpenForm
  <2> QED BY <1>0, <1>1, <2>1
<1>3. UNCHANGED <<listed, posted, named, entries, entering, contacts, day, promised>>
  BY DEF OpenForm
<1>4. FormsRight'
  <2>1. \A k \in 1 .. rowKey : k \in 1 .. rowKey'
    BY <1>0, <1>2
  <2>2. DOMAIN opened' = Web /\ opened'[w] = <<key, entry>> /\ \A v \in Web : v # w => opened'[v] = opened[v]
    BY DEF OpenForm, ListsInv, FormsRight
  <2> QED BY <1>2, <1>3, <2>1, <2>2 DEF ListsInv, FormsRight
<1> QED BY <1>2, <1>3, <1>4, KeysGrow DEF ListsInv

LEMMA SaveFormStep ==
  ASSUME ListsInv, NEW w \in Web, SaveForm(w)
  PROVE  ListsInv'
<1>0. rowKey \in Nat /\ rowKey <= MaxListed /\ MaxListed \in Nat
  BY ListsBounds DEF ListsInv, ListsTyped
<1>1. PICK key, row : key = opened[w][1] /\ row = opened[w][2]
  OBVIOUS
<1>2. key \in 1 .. rowKey /\ row \in Entries
  BY <1>1 DEF SaveForm, ListsInv, FormsRight
<1>3. UNCHANGED <<posted, named, entries, entering, contacts, day, rowKey>>
  BY DEF SaveForm
<1>4. FormsRight'
  BY <1>3 DEF SaveForm, ListsInv, FormsRight
<1>5. ListedRight' /\ PromisesListed'
  <2>1. CASE UNCHANGED <<listed, promised>>
    BY <1>3, <2>1 DEF ListsInv, ListedRight, PromisesListed
  <2>2. CASE ~UNCHANGED <<listed, promised>>
    <3>1. Unique(key, row) /\ listed' = With(listed, key, row)
      BY <1>1, <2>2 DEF SaveForm, MayStore
    <3>2. DOMAIN listed' = DOMAIN listed \cup {key}
          /\ \A k \in DOMAIN listed' : listed'[k] = IF k = key THEN row ELSE listed[k]
      BY <3>1 DEF With
    <3>3. \A e \in promised' : e = row \/ (e \in promised /\ (key \in DOMAIN listed => e # listed[key]))
      BY <1>1, <2>2 DEF SaveForm, TakenBack
    <3>4. rowKey' \in Nat /\ rowKey' >= rowKey /\ key \in 1 .. rowKey'
      BY <1>0, <1>2, <1>3
    <3> QED BY <1>2, <3>1, <3>2, <3>3, <3>4, Puts
  <2> QED BY <2>1, <2>2
<1>6. rowKey' \in 0 .. MaxListed /\ rowKey' >= rowKey
  BY <1>0, <1>3
<1> QED BY <1>3, <1>4, <1>5, <1>6, KeysGrow DEF ListsInv

LEMMA DeleteListedStep ==
  ASSUME ListsInv, NEW key \in 1 .. MaxListed, DeleteListed(key)
  PROVE  ListsInv'
<1>0. rowKey \in Nat /\ rowKey <= MaxListed /\ MaxListed \in Nat
  BY ListsBounds DEF ListsInv, ListsTyped
<1>1. UNCHANGED <<opened, posted, named, entries, entering, contacts, day, rowKey>>
  BY DEF DeleteListed
<1>2. DOMAIN listed' = DOMAIN listed \ {key} /\ \A k \in DOMAIN listed' : listed'[k] = listed[k]
  BY DEF DeleteListed, Without, Restrict
<1>3. ListedRight'
  BY <1>1, <1>2 DEF ListsInv, ListedRight
<1>4. PromisesListed'
  <2> SUFFICES ASSUME NEW e \in promised'
               PROVE  e \in Entries /\ \E k \in DOMAIN listed' : listed'[k] = e
    BY DEF PromisesListed
  <2>1. e \in promised /\ Numbers(e) # Numbers(listed[key])
    BY DEF DeleteListed, TakenBack
  <2>2. PICK k \in DOMAIN listed : listed[k] = e
    BY <2>1 DEF ListsInv, PromisesListed
  <2> QED BY <1>2, <2>1, <2>2 DEF ListsInv, PromisesListed
<1>5. rowKey' \in 0 .. MaxListed /\ rowKey' >= rowKey
  BY <1>0, <1>1
<1> QED BY <1>1, <1>3, <1>4, <1>5, KeysGrow DEF ListsInv

LEMMA ImportListedStep ==
  ASSUME ListsInv, NEW caller \in Caller, ImportListed(caller)
  PROVE  ListsInv'
<1>0. rowKey \in Nat /\ rowKey <= MaxListed /\ MaxListed \in Nat
  BY ListsBounds DEF ListsInv, ListsTyped
<1>1. UNCHANGED <<opened, posted, named, entries, entering, contacts, day>>
  BY DEF ImportListed
<1>2. PICK key, row : key = rowKey + 1 /\ row = [caller |-> caller, dest |-> Everywhere, until |-> Never]
  OBVIOUS
<1>3. row \in Entries /\ row.caller = caller
  <2>1. Never \in Until
    BY ListsBounds DEF Never, Until
  <2> QED BY <1>2, <2>1 DEF Entries
<1>4. rowKey < MaxListed /\ rowKey' = rowKey + 1 /\ listed' = With(listed, key, row)
  BY <1>2 DEF ImportListed
<1>5. /\ key \notin DOMAIN listed /\ rowKey' \in 0 .. MaxListed /\ rowKey' \in Nat
      /\ rowKey' >= rowKey /\ key \in 1 .. rowKey'
  BY <1>0, <1>2, <1>4 DEF ListsInv, ListedRight
<1>6. Unique(key, row)
  BY <1>3 DEF Unique, OfPair, Numbers, ImportListed
<1>7. DOMAIN listed' = DOMAIN listed \cup {key}
      /\ \A k \in DOMAIN listed' : listed'[k] = IF k = key THEN row ELSE listed[k]
  BY <1>4 DEF With
<1>8. \A e \in promised' : e = row \/ e \in promised
  BY <1>2 DEF ImportListed, TakenBack
<1>9. ListedRight' /\ PromisesListed'
  BY <1>3, <1>5, <1>6, <1>7, <1>8, Puts
<1> QED BY <1>1, <1>5, <1>9, KeysGrow DEF ListsInv

\* The named lists: what is entered is of a list that is there.
LEMMA NamedStep ==
  ASSUME ListsInv, NEW list \in ListName,
         AddList(list) \/ DeleteList(list) \/ (\E key \in 1 .. MaxListed : DeleteEntry(list, key))
  PROVE  ListsInv'
<1>0. rowKey \in Nat /\ rowKey <= MaxListed /\ MaxListed \in Nat
  BY ListsBounds DEF ListsInv, ListsTyped
<1>1. UNCHANGED <<listed, opened, posted, entering, contacts, day, rowKey, promised>>
  BY DEF AddList, DeleteList, DeleteEntry
<1>2. EntriesRight' /\ named' \subseteq ListName
  <2>1. CASE AddList(list)
    BY <1>1, <2>1 DEF AddList, ListsInv, ListsTyped, EntriesRight
  <2>2. CASE DeleteList(list)
    <3>1. \A k \in DOMAIN entries' :
            k \in DOMAIN entries /\ entries[k][1] # list /\ entries'[k] = entries[k]
      BY <2>2 DEF DeleteList, Restrict
    <3> QED BY <1>1, <2>2, <3>1 DEF DeleteList, ListsInv, ListsTyped, EntriesRight
  <2>3. CASE \E key \in 1 .. MaxListed : DeleteEntry(list, key)
    <3>1. named' = named /\ \A k \in DOMAIN entries' : k \in DOMAIN entries /\ entries'[k] = entries[k]
      BY <2>3 DEF DeleteEntry, Without, Restrict
    <3> QED BY <1>1, <3>1 DEF ListsInv, ListsTyped, EntriesRight
  <2> QED BY <2>1, <2>2, <2>3
<1>3. ListsTyped' /\ FormsRight' /\ ListedRight' /\ PromisesListed'
  BY <1>1, <1>2 DEF ListsInv, ListsTyped, FormsRight, ListedRight, PromisesListed
<1> QED BY <1>2, <1>3 DEF ListsInv

LEMMA OpenEntryStep ==
  ASSUME ListsInv, NEW w \in Web, NEW list \in ListName, NEW entry \in Entries,
         OpenEntry(w, list, entry)
  PROVE  ListsInv'
<1>1. UNCHANGED <<listed, opened, posted, named, entries, contacts, day, rowKey, promised>>
  BY DEF OpenEntry
<1>2. DOMAIN entering' = Web /\ \A v \in Web : entering'[v] = IF v = w THEN <<list, entry>> ELSE entering[v]
  BY DEF OpenEntry, ListsInv, EntriesRight
<1>3. EntriesRight'
  BY <1>1, <1>2 DEF ListsInv, EntriesRight
<1>4. ListsTyped' /\ FormsRight' /\ ListedRight' /\ PromisesListed'
  BY <1>1 DEF ListsInv, ListsTyped, FormsRight, ListedRight, PromisesListed
<1> QED BY <1>3, <1>4 DEF ListsInv

LEMMA SaveEntryStep ==
  ASSUME ListsInv, NEW w \in Web, SaveEntry(w)
  PROVE  ListsInv'
<1>0. rowKey \in Nat /\ rowKey <= MaxListed /\ MaxListed \in Nat
  BY ListsBounds DEF ListsInv, ListsTyped
<1>1. UNCHANGED <<listed, opened, posted, named, contacts, day, promised>>
  BY DEF SaveEntry
<1>2. PICK key, row : key = rowKey + 1 /\ row = entering[w]
  OBVIOUS
<1>3. rowKey' \in 0 .. MaxListed /\ rowKey' >= rowKey /\ \A k \in 1 .. rowKey : k \in 1 .. rowKey'
  BY <1>0 DEF SaveEntry
<1>4. ASSUME NEW k \in DOMAIN entries'
      PROVE  k \in 1 .. rowKey' /\ entries'[k] \in ListName \X Entries /\ entries'[k][1] \in named
  <2>1. CASE UNCHANGED <<entries, rowKey>>
    BY <1>3, <2>1 DEF ListsInv, EntriesRight
  <2>2. CASE row[1] \in named /\ rowKey' = rowKey + 1 /\ entries' = With(entries, key, row)
    <3>1. k \in DOMAIN entries \cup {key} /\ entries'[k] = IF k = key THEN row ELSE entries[k]
      BY <2>2 DEF With
    <3>2. row \in ListName \X Entries /\ key \in 1 .. rowKey'
      BY <1>0, <1>2, <2>2 DEF SaveEntry, ListsInv, EntriesRight
    <3> QED BY <1>3, <2>2, <3>1, <3>2 DEF ListsInv, EntriesRight
  <2> QED BY <1>2, <2>1, <2>2 DEF SaveEntry, HasList
<1>5. DOMAIN entering' = Web /\ \A v \in Web : entering'[v] = IF v = w THEN <<>> ELSE entering[v]
  BY DEF SaveEntry, ListsInv, EntriesRight
<1>6. EntriesRight'
  BY <1>1, <1>4, <1>5 DEF ListsInv, EntriesRight
<1> QED BY <1>1, <1>3, <1>6, KeysGrow DEF ListsInv

LEMMA ContactsListsStep ==
  ASSUME ListsInv, NEW caller \in Caller,
         \/ DeleteContact(caller) \/ SaveContact(caller, "name")
         \/ \E update \in BOOLEAN : ImportContact(caller, "file", update)
  PROVE  ListsInv'
<1>1. UNCHANGED <<listed, opened, posted, named, entries, entering, day, rowKey, promised>>
  BY DEF DeleteContact, SaveContact, ImportContact
<1>2. DOMAIN contacts' \subseteq DOMAIN contacts \cup {caller}
  <2>1. CASE DeleteContact(caller)
    BY <2>1 DEF DeleteContact, Without, Restrict
  <2>2. CASE SaveContact(caller, "name")
    BY <2>2 DEF SaveContact, With
  <2>3. ASSUME NEW update \in BOOLEAN, ImportContact(caller, "file", update)
        PROVE  DOMAIN contacts' \subseteq DOMAIN contacts \cup {caller}
    BY <2>3 DEF ImportContact, With
  <2> QED BY <2>1, <2>2, <2>3
<1> QED BY <1>1, <1>2
     DEF ListsInv, ListsTyped, FormsRight, ListedRight, PromisesListed, EntriesRight

LEMMA ListsStep ==
  ASSUME ListsInv, [ListsNext]_listVars
  PROVE  ListsInv'
<1>1. CASE DayPasses
  <2>1. day' \in 0 .. LastDay
    BY <1>1, ListsBounds DEF DayPasses, ListsInv, ListsTyped
  <2> QED BY <1>1, <2>1
       DEF DayPasses, ListsInv, ListsTyped, FormsRight, ListedRight, PromisesListed, EntriesRight
<1>2. CASE UNCHANGED listVars
  BY <1>2 DEF listVars, ListsInv, ListsTyped, FormsRight, ListedRight, PromisesListed, EntriesRight
<1> QED BY <1>1, <1>2, UpsertStep, SignStep, OpenFormStep, OpenEntryStep, SaveFormStep,
           SaveEntryStep, DeleteListedStep, NamedStep, ImportListedStep, ContactsListsStep DEF ListsNext

LEMMA ListsMeans == ListsInv => PromisesKept /\ NoTwins /\ EntriesListed /\ ListsTypeOK
<1> SUFFICES ASSUME ListsInv PROVE PromisesKept /\ NoTwins /\ EntriesListed /\ ListsTypeOK
  OBVIOUS
<1>0. rowKey \in Nat /\ rowKey <= MaxListed /\ MaxListed \in Nat
  BY ListsBounds DEF ListsInv, ListsTyped
<1>1. PromisesKept
  <2> SUFFICES ASSUME NEW entry \in promised, entry.until > day, NEW dest \in Destination,
                      entry.dest \in {dest, Everywhere}
               PROVE  Says(entry.caller, dest)
    BY DEF PromisesKept
  <2>1. PICK k \in DOMAIN listed : listed[k] = entry
    BY DEF ListsInv, PromisesListed
  <2>2. entry.caller # ""
    BY ListsAssumption DEF ListsInv, PromisesListed, Entries
  <2> QED BY <2>1, <2>2 DEF Says, IsListed, Matches
<1>2. NoTwins
  BY DEF ListsInv, ListedRight, NoTwins, Unique, OfPair
<1>3. EntriesListed
  BY DEF ListsInv, EntriesRight, EntriesListed
<1>4. \A k \in 1 .. rowKey : k \in 1 .. MaxListed
  BY <1>0
<1>5. Range(listed) \subseteq Entries /\ DOMAIN listed \subseteq 1 .. MaxListed
  BY <1>4 DEF Range, ListsInv, ListedRight
<1>6. Range(entries) \subseteq ListName \X Entries /\ DOMAIN entries \subseteq 1 .. MaxListed
  BY <1>4 DEF Range, ListsInv, EntriesRight
<1>7. ListsTypeOK
  BY <1>4, <1>5, <1>6 DEF ListsInv, ListsTyped, FormsRight, PromisesListed, EntriesRight, ListsTypeOK
<1> QED BY <1>1, <1>2, <1>3, <1>7

-----------------------------------------------------------------------------
(* Recordings. *)

Mp3Row == [is : {"none", "part", "whole"}, written : 0 .. FinalDay]

\* A run has a file in hand.
HasFile(k, c) == current[k] = c

RowsNamed == \A c \in Recorded : layout[c] = "row" => hasRow[c]

\* A run between two files has none in hand, and a file in hand is over and off the list.
RunsAt ==
  \A k \in CronRun :
    /\ run[k] \in {"idle", "loop"} <=> current[k] = NoRecording
    /\ run[k] = "idle" => toConvert[k] = {}
    /\ \A c \in Recorded : current[k] = c => wav[c] # "open" /\ c \notin toConvert[k]

\* As long as no run has slipped through the gap of lsof, one at most has a file in hand.
OneHasFile ==
  \A c \in Recorded :
    ~slipped[c] => \A k, l \in CronRun : HasFile(k, c) /\ HasFile(l, c) => k = l

\* A file that was converted is gone, and no run has it unless one has slipped.
DoneGone ==
  \A c \in Recorded : done[c] => wav[c] = "none" /\ (~slipped[c] => \A k \in CronRun : ~HasFile(k, c))

\* A file is gone because it was converted or because it is old.
WavGone == \A c \in Recorded : wav[c] = "none" => done[c] \/ today > WavDays

\* Before syncmp3 removes what is old, it has copied what was made before today.
CopiedFirst ==
  sync \in {"copy", "clean"} =>
    \A c \in Recorded : mp3[c] # NoMp3 /\ mp3[c].written < today =>
      backup[c] = mp3[c] \/ (sync = "copy" /\ c \in toCopy)

\* A whole mp3 is here, or in the backup, or was there until it was old.
RecSafe(c) ==
  \/ mp3[c].is = "whole"
  \/ mp3[c] = NoMp3 /\ (backup[c].is = "whole" \/ (backup[c] = NoMp3 /\ today > BackupDays))

ConvertedSafe ==
  \A c \in Recorded :
    ~slipped[c] /\ (done[c] \/ \E k \in CronRun : run[k] = "made" /\ current[k] = c) => RecSafe(c)

RecInv ==
  /\ RecTypeOK /\ RowsNamed /\ RunsAt /\ OneHasFile /\ DoneGone /\ WavGone /\ CopiedFirst
  /\ ConvertedSafe

LEMMA RecBounds ==
  /\ WavDays \in Nat /\ Mp3Days \in Nat /\ BackupDays \in Nat /\ FinalDay \in Nat
  /\ 0 \in 0 .. FinalDay
BY RecordingsAssumption

LEMMA NoneRecorded == NoRecording \notin Recorded
BY RecordingsAssumption DEF NoRecording

LEMMA RecInitially == RecInit => RecInv
<1> SUFFICES ASSUME RecInit PROVE RecInv
  OBVIOUS
<1>1. RecTypeOK
  <2>1. NoMp3 \in Mp3Row
    BY RecBounds DEF NoMp3, Mp3, Mp3Row
  <2>2. mp3 \in [Recorded -> Mp3Row] /\ backup \in [Recorded -> Mp3Row]
    BY <2>1 DEF RecInit
  <2>3. today \in 0 .. FinalDay
    BY RecBounds DEF RecInit
  <2>4. /\ layout \in [Recorded -> {"row", "flat"}] /\ hasRow \in [Recorded -> BOOLEAN]
        /\ wav \in [Recorded -> {"none", "open", "closed"}]
    BY DEF RecInit
  <2>5. /\ run \in [CronRun -> {"idle", "loop", "checked", "lame", "made"}]
        /\ toConvert \in [CronRun -> SUBSET Recorded]
        /\ current \in [CronRun -> Recorded \cup {NoRecording}]
        /\ sync \in {"idle", "copy", "clean", "clean backup"} /\ toCopy \subseteq Recorded
        /\ done \in [Recorded -> BOOLEAN] /\ slipped \in [Recorded -> BOOLEAN]
    BY DEF RecInit
  <2> QED BY <2>2, <2>3, <2>4, <2>5 DEF RecTypeOK, Mp3Row
<1>2. RowsNamed /\ DoneGone /\ WavGone /\ CopiedFirst
  BY DEF RecInit, RowsNamed, DoneGone, WavGone, CopiedFirst
<1>3. RunsAt /\ OneHasFile
  BY NoneRecorded DEF RecInit, RunsAt, OneHasFile, HasFile
<1>4. ConvertedSafe
  BY DEF RecInit, ConvertedSafe
<1> QED BY <1>1, <1>2, <1>3, <1>4 DEF RecInv

LEMMA RecFacts ==
  ASSUME RecInv
  PROVE  /\ \A c \in Recorded : mp3[c] \in Mp3Row /\ backup[c] \in Mp3Row
         /\ mp3 \in [Recorded -> Mp3Row] /\ backup \in [Recorded -> Mp3Row]
         /\ wav \in [Recorded -> {"none", "open", "closed"}]
         /\ \A k \in CronRun : run[k] \in {"checked", "lame", "made"} => current[k] \in Recorded
         /\ NoMp3 \in Mp3Row
<1>1. mp3 \in [Recorded -> Mp3Row] /\ backup \in [Recorded -> Mp3Row]
  BY DEF RecInv, RecTypeOK, Mp3Row
<1>2. \A k \in CronRun : run[k] \in {"checked", "lame", "made"} => current[k] \in Recorded
  BY DEF RecInv, RecTypeOK, RunsAt
<1>3. wav \in [Recorded -> {"none", "open", "closed"}]
  BY DEF RecInv, RecTypeOK
<1>4. NoMp3 \in Mp3Row
  BY RecBounds DEF NoMp3, Mp3, Mp3Row
<1> QED BY <1>1, <1>2, <1>3, <1>4

LEMMA Expires ==
  ASSUME NEW t \in Nat, NEW w \in Nat, NEW d \in Nat, t - w > d
  PROVE  w < t /\ t > d
OBVIOUS

\* What is removed is older than the days.
LEMMA KeptIs ==
  ASSUME NEW some, some \in [Recorded -> Mp3Row], NEW days, days \in Nat, RecInv
  PROVE  /\ Kept(some, days) \in [Recorded -> Mp3Row]
         /\ \A c \in Recorded :
              \/ Kept(some, days)[c] = some[c]
              \/ Kept(some, days)[c] = NoMp3 /\ some[c].written < today /\ today > days
<1>1. NoMp3 \in Mp3Row
  BY RecFacts
<1>2. Kept(some, days) \in [Recorded -> Mp3Row]
  BY <1>1 DEF Kept
<1>3. ASSUME NEW c \in Recorded
      PROVE  \/ Kept(some, days)[c] = some[c]
             \/ Kept(some, days)[c] = NoMp3 /\ some[c].written < today /\ today > days
  <2>1. PICK t, w : t = today /\ w = some[c].written
    OBVIOUS
  <2>2. w \in 0 .. FinalDay /\ t \in 0 .. FinalDay
    BY <2>1 DEF Mp3Row, RecInv, RecTypeOK
  <2>3. t \in Nat /\ w \in Nat
    BY <2>2, RecBounds
  <2>4. t - w > days => w < t /\ t > days
    BY <2>3, Expires
  <2> QED BY <2>1, <2>4 DEF Kept
<1> QED BY <1>2, <1>3

LEMMA RecTypesStep ==
  ASSUME RecInv, RecNext
  PROVE  RecTypeOK'
<1> USE DEF recFiles, runs, syncs, fixed
<1>1. ASSUME UNCHANGED today PROVE today' \in 0 .. FinalDay
  BY <1>1 DEF RecInv, RecTypeOK
<1>2. CASE NextDay
  <2>1. PICK t, u : t = today /\ u = today'
    OBVIOUS
  <2>2. t \in 0 .. FinalDay /\ t < FinalDay /\ u = t + 1
    BY <1>2, <2>1 DEF NextDay, RecInv, RecTypeOK
  <2>3. u \in 0 .. FinalDay
    BY <2>2, RecBounds
  <2> QED BY <1>2, <2>1, <2>3 DEF NextDay, RecInv, RecTypeOK
<1> DEFINE OkMp3(w) == Mp3("part", today) \in Mp3Row /\ Mp3("whole", today) \in Mp3Row
<1>3. OkMp3(0)
  BY DEF Mp3, Mp3Row, RecInv, RecTypeOK
<1> DEFINE Elsewhere == /\ layout \in [Recorded -> {"row", "flat"}] /\ hasRow \in [Recorded -> BOOLEAN]
                     /\ wav \in [Recorded -> {"none", "open", "closed"}]
                     /\ run \in [CronRun -> {"idle", "loop", "checked", "lame", "made"}]
                     /\ toConvert \in [CronRun -> SUBSET Recorded]
                     /\ current \in [CronRun -> Recorded \cup {NoRecording}]
                     /\ sync \in {"idle", "copy", "clean", "clean backup"} /\ toCopy \subseteq Recorded
                     /\ done \in [Recorded -> BOOLEAN] /\ slipped \in [Recorded -> BOOLEAN]
           Mp3s == mp3 \in [Recorded -> Mp3Row] /\ backup \in [Recorded -> Mp3Row]
<1>4. Elsewhere /\ Mp3s
  BY RecFacts DEF RecInv, RecTypeOK
<1>5. ASSUME UNCHANGED today, Elsewhere', Mp3s' PROVE RecTypeOK'
  BY <1>1, <1>5 DEF RecTypeOK, Mp3Row
<1>6. ASSUME NEW c \in Recorded, Close(c) \/ Copy(c) PROVE RecTypeOK'
  <2>1. Elsewhere' /\ UNCHANGED today
    BY <1>4, <1>6 DEF Close, Copy
  <2>2. Mp3s'
    <3>1. PICK row, there : row = mp3[c] /\ there = backup
      OBVIOUS
    <3>2. row \in Mp3Row /\ there \in [Recorded -> Mp3Row]
      BY <1>4, <3>1
    <3>3. [there EXCEPT ![c] = row] \in [Recorded -> Mp3Row]
      BY <3>2
    <3>4. UNCHANGED mp3 /\ (UNCHANGED backup \/ backup' = [there EXCEPT ![c] = row])
      BY <1>6, <3>1 DEF Close, Copy
    <3> QED BY <1>4, <3>3, <3>4
  <2> QED BY <1>5, <2>1, <2>2
<1>7. ASSUME NEW k \in CronRun,
             RunBegins(k) \/ RemoveWav(k) \/ RunEnds(k) \/ \E c \in Recorded : CheckFile(k, c)
      PROVE RecTypeOK'
  <2>1. UNCHANGED <<today, mp3, backup, layout, hasRow, sync, toCopy>>
    BY <1>7 DEF RunBegins, RemoveWav, RunEnds, CheckFile
  <2>2. CASE RunBegins(k)
    BY <1>4, <1>5, <2>1, <2>2 DEF RunBegins, Step
  <2>3. CASE RemoveWav(k)
    BY <1>4, <1>5, <2>1, <2>3 DEF RemoveWav, Step, LetGo
  <2>4. CASE RunEnds(k)
    BY <1>4, <1>5, <2>1, <2>4 DEF RunEnds, Step, LetGo
  <2>5. ASSUME NEW c \in Recorded, CheckFile(k, c) PROVE RecTypeOK'
    BY <1>4, <1>5, <2>1, <2>5 DEF CheckFile, Step
  <2> QED BY <1>7, <2>2, <2>3, <2>4, <2>5
<1>8. ASSUME NEW k \in CronRun, LameBegins(k) \/ LameEnds(k) \/ LameFails(k) PROVE RecTypeOK'
  <2>1. UNCHANGED <<today, wav, backup, layout, hasRow, sync, toCopy, toConvert, done, slipped>>
    BY <1>8 DEF LameBegins, LameEnds, LameFails, FailureRemoves
  <2>2. Elsewhere'
    BY <1>4, <1>8, <2>1 DEF LameBegins, LameEnds, LameFails, Step, LetGo
  <2>3. current[k] \in Recorded
    BY <1>8, RecFacts DEF LameBegins, LameEnds, LameFails
  <2>4. \/ UNCHANGED mp3
        \/ \E row \in Mp3Row : mp3' = [mp3 EXCEPT ![current[k]] = row]
    BY <1>3, <1>8, RecFacts DEF LameBegins, LameEnds, LameFails, FailureRemoves
  <2>5. Mp3s'
    <3>1. ASSUME NEW row \in Mp3Row, mp3' = [mp3 EXCEPT ![current[k]] = row] PROVE Mp3s'
      BY <1>4, <2>1, <3>1
    <3> QED BY <1>4, <2>1, <2>4, <3>1
  <2>6. UNCHANGED today
    BY <2>1
  <2> QED BY <1>5, <2>2, <2>5, <2>6
<1>9. CASE SyncBegins \/ CopyFails \/ CopyEnds
  BY <1>4, <1>5, <1>9 DEF SyncBegins, CopyFails, CopyEnds, AfterFailure
<1>10. CASE Clean
  <2>1. mp3' \in [Recorded -> Mp3Row]
    BY <1>4, <1>10, KeptIs, RecBounds DEF Clean
  <2>2. wav' \in [Recorded -> {"none", "open", "closed"}]
    BY <1>4, <1>10 DEF Clean
  <2> QED BY <1>4, <1>5, <1>10, <2>1, <2>2 DEF Clean
<1>11. CASE CleanBackup
  <2>1. backup' \in [Recorded -> Mp3Row]
    BY <1>4, <1>11, KeptIs, RecBounds DEF CleanBackup
  <2> QED BY <1>4, <1>5, <1>11, <2>1 DEF CleanBackup
<1> QED BY <1>2, <1>6, <1>7, <1>8, <1>9, <1>10, <1>11 DEF RecNext

\* What a run does with the files, in the lists and in hand.
LEMMA RunMoves ==
  ASSUME RecInv, NEW k \in CronRun, RecNext,
         RunBegins(k) \/ LameBegins(k) \/ LameEnds(k) \/ LameFails(k) \/ RemoveWav(k) \/ RunEnds(k)
         \/ \E c \in Recorded : CheckFile(k, c)
  PROVE  /\ \A l \in CronRun : l # k =>
              run'[l] = run[l] /\ toConvert'[l] = toConvert[l] /\ current'[l] = current[l]
         /\ UNCHANGED <<today, layout, hasRow, sync, toCopy, backup>>
         /\ \A c \in Recorded : ~slipped'[c] =>
              /\ ~slipped[c]
              /\ HasFile(k, c)' =>
                   \/ HasFile(k, c)
                   \/ ~done[c] /\ \A l \in CronRun \ {k} : ~HasFile(l, c)
<1> USE DEF recFiles, runs, syncs, fixed
<1>1. CASE RunBegins(k)
  BY <1>1 DEF RunBegins, Step, HasFile, RecInv, RecTypeOK
<1>2. CASE LameBegins(k) \/ LameEnds(k) \/ LameFails(k) \/ RemoveWav(k) \/ RunEnds(k)
  <2>1. /\ \A l \in CronRun : l # k =>
              run'[l] = run[l] /\ toConvert'[l] = toConvert[l] /\ current'[l] = current[l]
        /\ UNCHANGED <<today, layout, hasRow, sync, toCopy, backup, slipped>>
    <3>1. UNCHANGED <<today, layout, hasRow, sync, toCopy, backup, slipped>>
      BY <1>2 DEF LameBegins, LameEnds, LameFails, RemoveWav, RunEnds, FailureRemoves
    <3>2. \E to : run' = [run EXCEPT ![k] = to]
      BY <1>2 DEF LameBegins, LameEnds, LameFails, RemoveWav, RunEnds, Step
    <3>3. UNCHANGED current \/ current' = [current EXCEPT ![k] = NoRecording]
      BY <1>2 DEF LameBegins, LameEnds, LameFails, RemoveWav, RunEnds, LetGo
    <3>4. UNCHANGED toConvert \/ toConvert' = [toConvert EXCEPT ![k] = {}]
      BY <1>2 DEF LameBegins, LameEnds, LameFails, RemoveWav, RunEnds
    <3>5. /\ DOMAIN run = CronRun /\ DOMAIN toConvert = CronRun /\ DOMAIN current = CronRun
      BY DEF RecInv, RecTypeOK
    <3> QED BY <3>1, <3>2, <3>3, <3>4, <3>5
  <2>2. \A c \in Recorded : HasFile(k, c)' => HasFile(k, c)
    BY <1>2, NoneRecorded
    DEF LameBegins, LameEnds, LameFails, RemoveWav, RunEnds, Step, LetGo, HasFile, RecInv, RecTypeOK
  <2> QED BY <2>1, <2>2
<1>3. ASSUME NEW c \in Recorded, CheckFile(k, c)
      PROVE  /\ \A l \in CronRun : l # k =>
                  run'[l] = run[l] /\ toConvert'[l] = toConvert[l] /\ current'[l] = current[l]
             /\ UNCHANGED <<today, layout, hasRow, sync, toCopy, backup>>
             /\ \A d \in Recorded : ~slipped'[d] =>
                  /\ ~slipped[d]
                  /\ HasFile(k, d)' =>
                       \/ HasFile(k, d)
                       \/ ~done[d] /\ \A l \in CronRun \ {k} : ~HasFile(l, d)
  <2>1. UNCHANGED <<today, layout, hasRow, sync, toCopy, backup>>
        /\ toConvert' = [toConvert EXCEPT ![k] = toConvert[k] \ {c}]
    BY <1>3 DEF CheckFile
  <2>2. /\ DOMAIN run = CronRun /\ DOMAIN toConvert = CronRun /\ DOMAIN current = CronRun
        /\ DOMAIN slipped = Recorded
    BY DEF RecInv, RecTypeOK
  <2>3. CASE InUse(c)
    BY <1>3, <2>1, <2>2, <2>3 DEF CheckFile, HasFile
  <2>4. CASE ~InUse(c)
    <3>1. /\ run' = [run EXCEPT ![k] = "checked"] /\ current' = [current EXCEPT ![k] = c]
          /\ slipped' = IF UnseenByLsof(k, c) THEN [slipped EXCEPT ![c] = TRUE] ELSE slipped
      BY <1>3, <2>4 DEF CheckFile, Step
    <3>2. ~UnseenByLsof(k, c) => ~done[c] /\ \A l \in CronRun \ {k} : ~HasFile(l, c)
      <4>1. SUFFICES ASSUME ~UnseenByLsof(k, c), NEW l \in CronRun \ {k}, current[l] = c
                     PROVE  FALSE
        BY DEF UnseenByLsof, HasFile
      <4>2. run[l] \in {"checked", "lame", "made"}
        BY <4>1, NoneRecorded DEF RecInv, RunsAt, RecTypeOK
      <4> QED BY <2>4, <4>1, <4>2 DEF UnseenByLsof, InUse
    <3>3. \A d \in Recorded : d # c => slipped'[d] = slipped[d] /\ (HasFile(k, d)' => HasFile(k, d))
      BY <2>2, <3>1 DEF HasFile
    <3>4. ~slipped'[c] => ~slipped[c] /\ ~UnseenByLsof(k, c)
      BY <2>2, <3>1
    <3> QED BY <2>1, <2>2, <3>1, <3>2, <3>3, <3>4
  <2> QED BY <2>3, <2>4
<1> QED BY <1>1, <1>2, <1>3

\* The steps of syncmp3 and of the world leave the runs alone.
LEMMA RunsStay ==
  ASSUME (\E c \in Recorded : Close(c) \/ Copy(c)) \/ NextDay
         \/ SyncBegins \/ CopyFails \/ CopyEnds \/ Clean \/ CleanBackup
  PROVE  UNCHANGED <<run, toConvert, current, slipped, done, layout, hasRow>>
BY DEF Close, Copy, NextDay, SyncBegins, CopyFails, CopyEnds, Clean, CleanBackup, recFiles, runs,
       syncs, fixed

\* The steps by who takes them.
LEMMA RecSteps ==
  ASSUME RecNext
  PROVE  \/ (\E c \in Recorded : Close(c) \/ Copy(c)) \/ NextDay
            \/ SyncBegins \/ CopyFails \/ CopyEnds \/ Clean \/ CleanBackup
         \/ \E k \in CronRun :
              RunBegins(k) \/ LameBegins(k) \/ LameEnds(k) \/ LameFails(k) \/ RemoveWav(k)
              \/ RunEnds(k) \/ \E c \in Recorded : CheckFile(k, c)
BY DEF RecNext

\* A file that is gone stays gone, and one that is over is not begun again.
LEMMA WavStep ==
  ASSUME RecInv, RecNext
  PROVE  /\ \A c \in Recorded : (wav[c] = "none" => wav'[c] = "none") /\ (wav'[c] = "open" => wav[c] = "open")
         /\ \A c \in Recorded : (wav'[c] = "none" => wav[c] = "none" \/ done'[c] \/ today > WavDays)
         /\ \A c \in Recorded : done[c] => done'[c]
         /\ (\A c \in Recorded : done'[c] => done[c])
            \/ \E k \in CronRun : RemoveWav(k)
<1> USE DEF recFiles, runs, syncs, fixed
<1>1. CASE Clean
  BY <1>1 DEF Clean, RecInv, RecTypeOK
<1>2. ASSUME NEW k \in CronRun, RemoveWav(k) PROVE
         /\ \A c \in Recorded : (wav[c] = "none" => wav'[c] = "none") /\ (wav'[c] = "open" => wav[c] = "open")
         /\ \A c \in Recorded : (wav'[c] = "none" => wav[c] = "none" \/ done'[c] \/ today > WavDays)
         /\ \A c \in Recorded : done[c] => done'[c]
  BY <1>2, RecFacts DEF RemoveWav, RecInv, RecTypeOK
<1>3. CASE \E c \in Recorded : Close(c)
  BY <1>3, RecFacts DEF Close, RecInv, RecTypeOK
<1>4. CASE UNCHANGED <<wav, done>>
  BY <1>4
<1>5. \/ UNCHANGED <<wav, done>> \/ Clean \/ (\E k \in CronRun : RemoveWav(k))
      \/ \E c \in Recorded : Close(c)
  BY DEF RecNext, Copy, NextDay, RunBegins, LameBegins, LameEnds, LameFails, FailureRemoves, RunEnds,
         CheckFile, SyncBegins, CopyFails, CopyEnds, CleanBackup
<1> QED BY <1>1, <1>2, <1>3, <1>4, <1>5

LEMMA RunsAtStep ==
  ASSUME RecInv, RecNext
  PROVE  RunsAt'
<1>1. CASE UNCHANGED <<run, toConvert, current>>
  BY <1>1, WavStep DEF RunsAt, RecInv
<1>2. ASSUME NEW k \in CronRun,
             RunBegins(k) \/ LameBegins(k) \/ LameEnds(k) \/ LameFails(k) \/ RemoveWav(k) \/ RunEnds(k)
             \/ \E c \in Recorded : CheckFile(k, c)
      PROVE  RunsAt'
  <2>1. \A l \in CronRun : l # k =>
          run'[l] = run[l] /\ toConvert'[l] = toConvert[l] /\ current'[l] = current[l]
    BY <1>2, RunMoves
  <2>2. \A l \in CronRun : l # k =>
          /\ run'[l] \in {"idle", "loop"} <=> current'[l] = NoRecording
          /\ run'[l] = "idle" => toConvert'[l] = {}
          /\ \A c \in Recorded : current'[l] = c => wav'[c] # "open" /\ c \notin toConvert'[l]
    BY <2>1, WavStep DEF RunsAt, RecInv
  <2> DEFINE Now == /\ run'[k] \in {"idle", "loop"} <=> current'[k] = NoRecording
                    /\ run'[k] = "idle" => toConvert'[k] = {}
                    /\ \A c \in Recorded : current'[k] = c => wav'[c] # "open" /\ c \notin toConvert'[k]
  <2>3. ASSUME RunBegins(k) PROVE Now
    BY <2>3, NoneRecorded DEF RunBegins, Step, RunsAt, RecInv, RecTypeOK
  <2>4. ASSUME LameBegins(k) \/ LameEnds(k) PROVE Now
    <3>1. UNCHANGED toConvert /\ run[k] \in {"checked", "lame"}
      BY <2>4 DEF LameBegins, LameEnds
    <3>2. \/ run' = [run EXCEPT ![k] = "loop"] /\ current' = [current EXCEPT ![k] = NoRecording]
          \/ run' = [run EXCEPT ![k] = "lame"] /\ UNCHANGED current
          \/ run' = [run EXCEPT ![k] = "made"] /\ UNCHANGED current
      BY <2>4 DEF LameBegins, LameEnds, Step, LetGo
    <3>3. /\ DOMAIN run = CronRun /\ DOMAIN toConvert = CronRun /\ DOMAIN current = CronRun
          /\ current[k] # NoRecording
      BY <3>1 DEF RecInv, RecTypeOK, RunsAt
    <3>4. \A c \in Recorded : current[k] = c => wav'[c] # "open" /\ c \notin toConvert[k]
      BY WavStep DEF RecInv, RunsAt
    <3> QED BY <3>1, <3>2, <3>3, <3>4, NoneRecorded
  <2>5. ASSUME LameFails(k) \/ RemoveWav(k) \/ RunEnds(k) PROVE Now
    BY <2>5, NoneRecorded DEF LameFails, RemoveWav, RunEnds, Step, LetGo, RecInv, RecTypeOK
  <2>6. ASSUME NEW c \in Recorded, CheckFile(k, c) PROVE Now
    <3>1. wav'[c] = wav[c] /\ run[k] = "loop" /\ toConvert' = [toConvert EXCEPT ![k] = @ \ {c}]
      BY <2>6 DEF CheckFile, recFiles
    <3>2. /\ DOMAIN run = CronRun /\ DOMAIN toConvert = CronRun /\ DOMAIN current = CronRun
      BY DEF RecInv, RecTypeOK
    <3>3. CASE UNCHANGED <<run, current>>
      BY <3>1, <3>2, <3>3, NoneRecorded DEF RunsAt, RecInv
    <3>4. CASE wav[c] # "open" /\ run' = [run EXCEPT ![k] = "checked"]
               /\ current' = [current EXCEPT ![k] = c]
      BY <3>1, <3>2, <3>4, NoneRecorded
    <3> QED BY <2>6, <3>3, <3>4 DEF CheckFile, InUse, Step
  <2>7. Now
    BY <1>2, <2>3, <2>4, <2>5, <2>6
  <2> QED BY <2>2, <2>7 DEF RunsAt
<1> QED BY <1>1, <1>2, RecSteps, RunsStay

LEMMA OneHasFileStep ==
  ASSUME RecInv, RecNext
  PROVE  OneHasFile'
<1>1. CASE UNCHANGED <<run, toConvert, current, slipped>>
  BY <1>1 DEF OneHasFile, RecInv, HasFile
<1>2. ASSUME NEW k \in CronRun,
             RunBegins(k) \/ LameBegins(k) \/ LameEnds(k) \/ LameFails(k) \/ RemoveWav(k) \/ RunEnds(k)
             \/ \E c \in Recorded : CheckFile(k, c)
      PROVE  OneHasFile'
  <2>1. \A l \in CronRun, c \in Recorded : l # k => (HasFile(l, c)' <=> HasFile(l, c))
    BY <1>2, RunMoves DEF HasFile
  <2>2. \A c \in Recorded : ~slipped'[c] =>
              /\ ~slipped[c]
              /\ HasFile(k, c)' =>
                   \/ HasFile(k, c)
                   \/ ~done[c] /\ \A l \in CronRun \ {k} : ~HasFile(l, c)
    BY <1>2, RunMoves
  <2>3. ASSUME NEW c \in Recorded, ~slipped'[c], NEW l \in CronRun, NEW m \in CronRun,
               HasFile(l, c)', HasFile(m, c)', l # m
        PROVE  FALSE
    <3>1. ~slipped[c] /\ (HasFile(l, c) /\ HasFile(m, c) => l = m)
      BY <2>2, <2>3 DEF RecInv, OneHasFile
    <3> QED BY <2>1, <2>2, <2>3, <3>1
  <2> QED BY <2>3 DEF OneHasFile
<1> QED BY <1>1, <1>2, RecSteps, RunsStay

LEMMA DoneGoneStep ==
  ASSUME RecInv, RecNext
  PROVE  DoneGone'
<1>1. CASE UNCHANGED <<run, toConvert, current, slipped, done>>
  BY <1>1, WavStep DEF DoneGone, RecInv, HasFile
<1>2. ASSUME NEW k \in CronRun,
             RunBegins(k) \/ LameBegins(k) \/ LameEnds(k) \/ LameFails(k) \/ RemoveWav(k) \/ RunEnds(k)
             \/ \E c \in Recorded : CheckFile(k, c)
      PROVE  DoneGone'
  <2>1. \A l \in CronRun, c \in Recorded : l # k => (HasFile(l, c)' <=> HasFile(l, c))
    BY <1>2, RunMoves DEF HasFile
  <2>2. \A c \in Recorded : ~slipped'[c] =>
              /\ ~slipped[c]
              /\ HasFile(k, c)' =>
                   \/ HasFile(k, c)
                   \/ ~done[c] /\ \A l \in CronRun \ {k} : ~HasFile(l, c)
    BY <1>2, RunMoves
  <2>3. ASSUME NEW c \in Recorded, done[c]
        PROVE  wav'[c] = "none" /\ (~slipped'[c] => \A l \in CronRun : ~HasFile(l, c)')
    <3>1. wav[c] = "none" /\ (~slipped[c] => \A l \in CronRun : ~HasFile(l, c))
      BY <2>3 DEF DoneGone, RecInv
    <3>2. wav'[c] = "none"
      BY <3>1, WavStep
    <3>3. ASSUME ~slipped'[c], NEW l \in CronRun PROVE ~HasFile(l, c)'
      BY <2>1, <2>2, <2>3, <3>1, <3>3
    <3> QED BY <3>2, <3>3
  <2>4. ASSUME NEW c \in Recorded, done'[c], ~done[c]
        PROVE  wav'[c] = "none" /\ (~slipped'[c] => \A l \in CronRun : ~HasFile(l, c)')
    <3>1. PICK l \in CronRun : RemoveWav(l)
      BY <2>4, WavStep
    <3>2. current[l] = c /\ wav'[c] = "none" /\ c \notin toConvert'[l] /\ current'[l] # c
          /\ UNCHANGED <<toConvert, slipped>>
          /\ \A m \in CronRun : m # l => current'[m] = current[m]
      BY <2>4, <3>1, NoneRecorded DEF RemoveWav, LetGo, RunsAt, RecInv, RecTypeOK
    <3>3. ASSUME ~slipped'[c], NEW m \in CronRun PROVE ~HasFile(m, c)'
      <4>1. ~slipped[c] /\ HasFile(l, c)
        BY <3>2, <3>3 DEF HasFile
      <4>2. m # l => ~HasFile(m, c)
        BY <4>1 DEF OneHasFile, RecInv
      <4> QED BY <3>2, <4>2 DEF HasFile
    <3> QED BY <3>2, <3>3
  <2>5. \A c \in Recorded : done'[c] => done[c] \/ ~done[c]
    OBVIOUS
  <2> QED BY <2>3, <2>4 DEF DoneGone
<1> QED BY <1>1, <1>2, RecSteps, RunsStay

LEMMA LaterToo ==
  ASSUME RecInv, RecNext, NEW days \in Nat, today > days
  PROVE  today' > days
<1>1. PICK t, u : t = today /\ u = today'
  OBVIOUS
<1>2. t \in 0 .. FinalDay
  BY <1>1 DEF RecInv, RecTypeOK
<1>3. u = t \/ u = t + 1
  BY <1>1 DEF RecNext, Close, Copy, NextDay, RunBegins, LameBegins, LameEnds, LameFails,
     FailureRemoves, RemoveWav, RunEnds, CheckFile, SyncBegins, CopyFails, CopyEnds, Clean, CleanBackup
<1>4. t > days
  BY <1>1
<1>5. u > days
  BY <1>2, <1>3, <1>4, RecBounds
<1> QED BY <1>1, <1>5

LEMMA WavGoneStep ==
  ASSUME RecInv, RecNext
  PROVE  WavGone'
<1> SUFFICES ASSUME NEW c \in Recorded, wav'[c] = "none" PROVE done'[c] \/ today' > WavDays
  BY DEF WavGone
<1>1. done'[c] \/ today > WavDays
  BY WavStep DEF WavGone, RecInv
<1> QED BY <1>1, LaterToo, RecBounds

LEMMA CopiedFirstStep ==
  ASSUME RecInv, RecNext
  PROVE  CopiedFirst'
<1> USE DEF recFiles, runs, syncs, fixed
<1>1. CASE UNCHANGED <<today, sync, toCopy, backup>>
  <2>1. \A c \in Recorded : \/ mp3'[c] = mp3[c] \/ mp3'[c] = NoMp3 \/ mp3'[c].written = today
    <3>1. CASE UNCHANGED mp3
      BY <3>1
    <3>2. ASSUME NEW k \in CronRun, LameBegins(k) \/ LameEnds(k) \/ LameFails(k)
          PROVE  \A c \in Recorded : \/ mp3'[c] = mp3[c] \/ mp3'[c] = NoMp3 \/ mp3'[c].written = today
      BY <3>2, RecFacts DEF LameBegins, LameEnds, LameFails, FailureRemoves, Mp3
    <3>3. CASE Clean
      BY <1>1, <3>3 DEF Clean
    <3>4. UNCHANGED mp3 \/ Clean \/ \E k \in CronRun : LameBegins(k) \/ LameEnds(k) \/ LameFails(k)
      BY DEF RecNext, Close, Copy, NextDay, RunBegins, RemoveWav, RunEnds, CheckFile, SyncBegins,
             CopyFails, CopyEnds, CleanBackup
    <3> QED BY <3>1, <3>2, <3>3, <3>4
  <2>2. ~(today < today)
    <3>1. PICK t : t = today
      OBVIOUS
    <3>2. t \in 0 .. FinalDay
      BY <3>1 DEF RecInv, RecTypeOK
    <3>3. ~(t < t)
      BY <3>2, RecBounds
    <3> QED BY <3>1, <3>3
  <2> QED BY <1>1, <2>1, <2>2 DEF CopiedFirst, RecInv
<1>2. CASE NextDay \/ CopyFails \/ Clean \/ CleanBackup
  BY <1>2 DEF NextDay, CopyFails, Clean, CleanBackup, AfterFailure, CopiedFirst
<1>3. CASE SyncBegins
  BY <1>3 DEF SyncBegins, CopiedFirst
<1>4. CASE CopyEnds
  BY <1>4 DEF CopyEnds, CopiedFirst, RecInv
<1>5. ASSUME NEW c \in Recorded, Copy(c) PROVE CopiedFirst'
  BY <1>5, RecFacts DEF Copy, CopiedFirst, RecInv
<1>6. \/ UNCHANGED <<today, sync, toCopy, backup>> \/ NextDay \/ CopyFails \/ Clean \/ CleanBackup
      \/ SyncBegins \/ CopyEnds \/ \E c \in Recorded : Copy(c)
  BY DEF RecNext, Close, RunBegins, LameBegins, LameEnds, LameFails, FailureRemoves, RemoveWav,
         RunEnds, CheckFile
<1> QED BY <1>1, <1>2, <1>3, <1>4, <1>5, <1>6

\* What was safe stays so, unless lame takes it in hand again.
LEMMA SafeStep ==
  ASSUME RecInv, RecNext, NEW c \in Recorded, RecSafe(c),
         ~\E k \in CronRun : current[k] = c /\ (LameBegins(k) \/ LameEnds(k) \/ LameFails(k))
  PROVE  RecSafe(c)'
<1> USE DEF recFiles, runs, syncs, fixed
<1>1. NoMp3.is = "none"
  BY DEF NoMp3, Mp3
<1>2. CASE mp3'[c] = mp3[c] /\ backup'[c] = backup[c]
  BY <1>2, LaterToo, RecBounds DEF RecSafe
<1>3. CASE Clean
  <2>1. \/ mp3'[c] = mp3[c]
        \/ mp3'[c] = NoMp3 /\ mp3[c].written < today
    BY <1>3, KeptIs, RecFacts, RecBounds DEF Clean
  <2>2. UNCHANGED <<backup, today>> /\ sync = "clean"
    BY <1>3 DEF Clean
  <2>3. CASE mp3'[c] = NoMp3 /\ mp3[c].written < today /\ mp3[c].is = "whole"
    BY <1>1, <2>2, <2>3 DEF CopiedFirst, RecInv, RecSafe
  <2> QED BY <2>1, <2>2, <2>3 DEF RecSafe
<1>4. CASE CleanBackup
  <2>1. \/ backup'[c] = backup[c]
        \/ backup'[c] = NoMp3 /\ today > BackupDays
    BY <1>4, KeptIs, RecFacts, RecBounds DEF CleanBackup
  <2>2. UNCHANGED <<mp3, today>>
    BY <1>4 DEF CleanBackup
  <2> QED BY <2>1, <2>2 DEF RecSafe
<1>5. ASSUME NEW d \in Recorded, Copy(d) PROVE RecSafe(c)'
  <2>1. UNCHANGED <<mp3, today>> /\ (backup'[c] = backup[c] \/ (backup'[c] = mp3[c] /\ mp3[c] # NoMp3))
    BY <1>5, RecFacts DEF Copy
  <2> QED BY <2>1 DEF RecSafe
<1>6. ASSUME NEW k \in CronRun, current[k] # c, LameBegins(k) \/ LameEnds(k) \/ LameFails(k)
      PROVE  mp3'[c] = mp3[c] /\ backup'[c] = backup[c]
  BY <1>6, RecFacts DEF LameBegins, LameEnds, LameFails, FailureRemoves
<1>7. \/ UNCHANGED <<mp3, backup>> \/ Clean \/ CleanBackup
      \/ (\E d \in Recorded : Copy(d))
      \/ \E k \in CronRun : LameBegins(k) \/ LameEnds(k) \/ LameFails(k)
  BY DEF RecNext, Close, NextDay, RunBegins, RemoveWav, RunEnds, CheckFile, SyncBegins, CopyFails,
         CopyEnds
<1> QED BY <1>2, <1>3, <1>4, <1>5, <1>6, <1>7

LEMMA ConvertedSafeStep ==
  ASSUME RecInv, RecNext
  PROVE  ConvertedSafe'
<1> DEFINE Made(c) == \E k \in CronRun : run[k] = "made" /\ current[k] = c
<1>1. \A c \in Recorded : ~slipped'[c] => ~slipped[c]
  BY RecSteps, RunMoves, RunsStay
<1>2. ASSUME NEW c \in Recorded, ~slipped[c], done[c] \/ Made(c),
             NEW k \in CronRun, current[k] = c, LameBegins(k) \/ LameEnds(k) \/ LameFails(k)
      PROVE  FALSE
  <2>1. HasFile(k, c) /\ run[k] # "made"
    BY <1>2 DEF HasFile, LameBegins, LameEnds, LameFails
  <2> QED BY <1>2, <2>1 DEF DoneGone, OneHasFile, HasFile, RecInv
<1>3. ASSUME NEW c \in Recorded, ~slipped[c], done[c] \/ Made(c) PROVE RecSafe(c)'
  <2>1. RecSafe(c)
    BY <1>3 DEF ConvertedSafe, RecInv
  <2> QED BY <1>2, <1>3, <2>1, SafeStep
<1>4. ASSUME NEW c \in Recorded, ~Made(c), Made(c)' PROVE RecSafe(c)'
  <2>1. PICK k \in CronRun : run'[k] = "made" /\ current'[k] = c
    BY <1>4
  <2>2. LameEnds(k) /\ current[k] = c
    <3>1. CASE UNCHANGED <<run, current>>
      BY <1>4, <2>1, <3>1
    <3>2. ASSUME NEW l \in CronRun,
             RunBegins(l) \/ LameBegins(l) \/ LameEnds(l) \/ LameFails(l) \/ RemoveWav(l) \/ RunEnds(l)
             \/ \E d \in Recorded : CheckFile(l, d)
          PROVE  LameEnds(k) /\ current[k] = c
      <4>1. l = k
        <5>1. l # k => run'[k] = run[k] /\ current'[k] = current[k]
          BY <3>2, RunMoves
        <5> QED BY <1>4, <2>1, <5>1
      <4>2. LameEnds(k)
        BY <1>4, <2>1, <3>2, <4>1 DEF RunBegins, LameBegins, LameFails, RemoveWav, RunEnds, CheckFile,
           Step, RecInv, RecTypeOK
      <4>3. current[k] = c
        BY <2>1, <4>2, NoneRecorded DEF LameEnds, LetGo, RecInv, RecTypeOK
      <4> QED BY <4>2, <4>3
    <3> QED BY <3>1, <3>2, RecSteps, RunsStay
  <2>3. wav[c] # "open"
    BY <2>2 DEF RunsAt, RecInv
  <2>4. mp3'[c].is = "whole"
    <3>1. mp3[c] # NoMp3
      BY <2>1, <2>2 DEF LameEnds, Step, RecInv, RecTypeOK
    <3> QED BY <2>2, <2>3, <3>1, RecFacts DEF LameEnds, Mp3
  <2> QED BY <2>4 DEF RecSafe
<1>5. ASSUME NEW c \in Recorded, done'[c] PROVE done[c] \/ Made(c)
  <2>1. CASE ~done[c]
    <3>1. PICK k \in CronRun : RemoveWav(k)
      BY <1>5, <2>1, WavStep
    <3> QED BY <1>5, <2>1, <3>1 DEF RemoveWav, RecInv, RecTypeOK
  <2> QED BY <2>1
<1>6. ASSUME NEW c \in Recorded, ~slipped'[c], done'[c] \/ Made(c)' PROVE RecSafe(c)'
  <2> HIDE DEF Made
  <2> QED BY <1>1, <1>3, <1>4, <1>5, <1>6
<1> QED BY <1>6 DEF ConvertedSafe

LEMMA RecStep == RecInv /\ [RecNext]_recVars => RecInv'
<1> SUFFICES ASSUME RecInv, [RecNext]_recVars PROVE RecInv'
  OBVIOUS
<1>1. CASE UNCHANGED recVars
  <2>1. RecTypeOK'
    BY <1>1 DEF recVars, RecInv, RecTypeOK
  <2>2. RowsNamed' /\ RunsAt' /\ OneHasFile' /\ DoneGone'
    BY <1>1 DEF recVars, RecInv, RowsNamed, RunsAt, OneHasFile, DoneGone, HasFile
  <2>3. WavGone' /\ CopiedFirst' /\ ConvertedSafe'
    BY <1>1 DEF recVars, RecInv, WavGone, CopiedFirst, ConvertedSafe, RecSafe
  <2> QED BY <2>1, <2>2, <2>3 DEF RecInv
<1>2. CASE RecNext
  <2>1. RowsNamed'
    <3>1. UNCHANGED <<layout, hasRow>>
      BY <1>2, RecSteps, RunMoves, RunsStay
    <3> QED BY <3>1 DEF RowsNamed, RecInv
  <2> QED BY <1>2, <2>1, RecTypesStep, RunsAtStep, OneHasFileStep, DoneGoneStep, WavGoneStep,
             CopiedFirstStep, ConvertedSafeStep DEF RecInv
<1> QED BY <1>1, <1>2

\* What the invariant says of the properties that are checked.
LEMMA RecMeans == RecInv => RecordingsServed /\ RecTypeOK
<1> SUFFICES ASSUME RecInv PROVE RecordingsServed /\ RecTypeOK
  OBVIOUS
<1>0. NoMp3.is = "none"
  BY DEF NoMp3, Mp3
<1>1. RecordingsStay
  <2> SUFFICES ASSUME NEW c \in Recorded, Lost(c), ~slipped[c]
               PROVE  today > BackupDays \/ (~done[c] /\ today > WavDays)
    BY DEF RecordingsStay
  <2>1. CASE done[c]
    BY <1>0, <2>1 DEF Lost, RecInv, ConvertedSafe, RecSafe
  <2>2. CASE ~done[c]
    BY <2>2 DEF Lost, RecInv, WavGone
  <2> QED BY <2>1, <2>2
<1>2. ResolversAgree
  <2> SUFFICES ASSUME NEW c \in Recorded
               PROVE  AudioUrl(c) = RecordingUrl(c) /\ RecordingUrl(c) = (RecordingPath(c) # "nothing")
    BY DEF ResolversAgree
  <2>1. layout[c] \in {"row", "flat"} /\ (layout[c] = "row" => hasRow[c])
    BY DEF RecInv, RecTypeOK, RowsNamed
  <2>2. CASE layout[c] = "row"
    BY <2>1, <2>2 DEF AudioUrl, RecordingUrl, RecordingPath, CandidateFile, NamedFile, FlatFile
  <2>3. CASE layout[c] = "flat"
    BY <2>1, <2>3 DEF AudioUrl, RecordingUrl, RecordingPath, CandidateFile, NamedFile, FlatFile
  <2> QED BY <2>1, <2>2, <2>3
<1>3. WholeIsServed
  <2> SUFFICES ASSUME NEW c \in Recorded, done[c], ~slipped[c]
               PROVE  Given(c, RecordingPath(c)) # "part"
    BY DEF WholeIsServed
  <2>1. RecSafe(c)
    BY DEF RecInv, ConvertedSafe
  <2>2. RecordingPath(c) = "mp3" => mp3[c] # NoMp3
    BY DEF RecordingPath, CandidateFile, NamedFile, FlatFile
  <2>3. RecordingPath(c) = "backup" => mp3[c] = NoMp3 /\ backup[c] # NoMp3
    BY DEF RecordingPath, CandidateFile, NamedFile, FlatFile
  <2>4. RecordingPath(c) \in {"mp3", "wav", "backup", "nothing"}
    BY DEF RecordingPath, CandidateFile, NamedFile, FlatFile
  <2>5. CASE RecordingPath(c) = "mp3"
    BY <2>1, <2>2, <2>5 DEF RecSafe, Given
  <2>6. CASE RecordingPath(c) = "backup"
    BY <1>0, <2>1, <2>3, <2>6 DEF RecSafe, Given
  <2>7. CASE RecordingPath(c) \in {"wav", "nothing"}
    BY <2>7 DEF Given
  <2> QED BY <2>4, <2>5, <2>6, <2>7
<1>4. RangesInside
  <2> SUFFICES ASSUME NEW first \in 0 .. 3, NEW size \in 0 .. 3, NEW last \in (0 .. 4) \cup {NoLast}
      PROVE  LET r == ServedRange(first, last, size) IN
             /\ r # << >> => r[1] = first /\ first <= r[2] /\ r[2] < size
             /\ r = << >> <=> first >= size \/ last < first
    BY DEF RangesInside
  <2> DEFINE end == IF last = NoLast \/ last > size - 1 THEN size - 1 ELSE last
  <2>1. end \in Int /\ (first >= size \/ first > end <=> first >= size \/ last < first)
        /\ (~(first >= size \/ first > end) => first <= end /\ end < size)
    BY DEF NoLast
  <2> HIDE DEF end
  <2>2. <<first, end>> # << >>
    OBVIOUS
  <2>3. ServedRange(first, last, size) = IF first >= size \/ first > end THEN << >> ELSE <<first, end>>
    BY DEF ServedRange, end
  <2> QED BY <2>1, <2>2, <2>3
<1> QED BY <1>1, <1>2, <1>3, <1>4 DEF RecInv, RecordingsServed

-----------------------------------------------------------------------------
(* What Asterisk writes. *)

Known(c) == calls[c] # NotYet

\* Each call and what is written of it.
CallsFit ==
  \A c \in Uniqueid : Known(c) =>
    /\ calls[c] \in CallOf
    /\ calls[c].began <= now
    /\ calls[c].state = "waiting" => calls[c].talked = FALSE /\ calls[c].queue \in Queues
    /\ calls[c].queue \in Queues => \E e \in qlog : e.event = "ENTERQUEUE" /\ e.callid = c
    /\ calls[c].queue \in Queues /\ calls[c].talked = TRUE => \E e \in qlog : e.event = "COMPLETE" /\ e.callid = c
    /\ calls[c].state = "over" => \E d \in cdr : d.uniqueid = c

\* Each row of queue_log and its call.
LogFits ==
  \A e \in qlog :
    /\ e \in QueueLog /\ Known(e.callid)
    /\ e.queuename = calls[e.callid].queue /\ e.data2 = calls[e.callid].number
    /\ calls[e.callid].began <= e.time
    /\ e.event = "ENTERQUEUE" => e.time = calls[e.callid].began
    /\ e.event = "COMPLETE" => calls[e.callid].talked = TRUE /\ calls[e.callid].state # "waiting"
    /\ e.event = "ABANDON" => calls[e.callid].talked = FALSE /\ calls[e.callid].state # "waiting"

\* Each row of cdr and its call.
RecordsFit ==
  \A d \in cdr :
    /\ d \in CDR /\ Known(d.uniqueid)
    /\ calls[d.uniqueid].state = "over" /\ d.number = calls[d.uniqueid].number
    /\ d.way = calls[d.uniqueid].way /\ d.start = calls[d.uniqueid].began
    /\ calls[d.uniqueid].talked = TRUE => d.answered = TRUE

ReportsFit == ReportsTypeOK /\ CallsFit /\ LogFits /\ RecordsFit

LEMMA ReportBounds == LastTime \in Nat /\ NoQueue \notin Queues
BY ReportsAssumption DEF NoQueue

LEMMA NotYetIs == NotYet.state = "idle" /\ NotYet \notin CallOf
<1>1. NotYet.state = "idle"
  BY DEF NotYet
<1>2. \A call \in CallOf : call.state # "idle"
  BY DEF CallOf
<1> QED BY <1>1, <1>2

LEMMA ReportsFitInitially == ReportsInit => ReportsFit
<1> SUFFICES ASSUME ReportsInit PROVE ReportsFit
  OBVIOUS
<1>1. ReportsTypeOK
  <2>1. 0 \in Time
    BY ReportBounds DEF Time
  <2> QED BY <2>1 DEF ReportsInit, ReportsTypeOK
<1>2. CallsFit /\ LogFits /\ RecordsFit
  BY DEF ReportsInit, CallsFit, LogFits, RecordsFit, Known
<1> QED BY <1>1, <1>2 DEF ReportsFit

\* A call begins.
LEMMA Begun ==
  ASSUME ReportsFit, NEW c \in Uniqueid, Begins(c), NEW call \in CallOf, call.began = now,
         calls' = [calls EXCEPT ![c] = call]
  PROVE  /\ calls' \in [Uniqueid -> CallOf \cup {NotYet}]
         /\ Known(c)' /\ calls'[c] = call
         /\ \A other \in Uniqueid : other # c => calls'[other] = calls[other] /\ (Known(other)' <=> Known(other))
         /\ \A e \in qlog : e.callid # c
         /\ \A d \in cdr : d.uniqueid # c
<1>1. calls \in [Uniqueid -> CallOf \cup {NotYet}] /\ calls[c] = NotYet
  BY DEF ReportsFit, ReportsTypeOK, Begins
<1>2. calls'[c] = call /\ call # NotYet
  BY <1>1, NotYetIs
<1>3. (\A e \in qlog : e.callid # c) /\ (\A d \in cdr : d.uniqueid # c)
  BY <1>1 DEF ReportsFit, LogFits, RecordsFit, Known
<1> QED BY <1>1, <1>2, <1>3 DEF Known

LEMMA EnterQueueStep ==
  ASSUME ReportsFit, NEW c \in Uniqueid, NEW n \in Number, NEW q \in Queues, EnterQueue(c, n, q)
  PROVE  ReportsFit'
<1>1. PICK call, row :
        /\ call = [state |-> "waiting", number |-> n, queue |-> q, way |-> "in", began |-> now, talked |-> FALSE]
        /\ row = [callid |-> c, time |-> now, queuename |-> q, event |-> "ENTERQUEUE", data2 |-> n]
  OBVIOUS
<1>2. /\ Begins(c) /\ calls' = [calls EXCEPT ![c] = call] /\ qlog' = qlog \cup {row}
      /\ UNCHANGED <<now, cdr>>
  BY <1>1 DEF EnterQueue
<1>3. now \in Time
  BY DEF ReportsFit, ReportsTypeOK
<1>4. call \in CallOf /\ row \in QueueLog
  BY <1>1, <1>3 DEF CallOf, QueueLog
<1>5. /\ call.began = now /\ call.state = "waiting" /\ call.talked = FALSE /\ call.queue = q /\ call.number = n
      /\ row.callid = c /\ row.time = now /\ row.queuename = q /\ row.event = "ENTERQUEUE" /\ row.data2 = n
  BY <1>1
<1>6. /\ calls' \in [Uniqueid -> CallOf \cup {NotYet}]
      /\ Known(c)' /\ calls'[c] = call
      /\ \A other \in Uniqueid : other # c => calls'[other] = calls[other] /\ (Known(other)' <=> Known(other))
      /\ \A e \in qlog : e.callid # c
      /\ \A d \in cdr : d.uniqueid # c
  BY <1>2, <1>4, <1>5, Begun
<1>7. ReportsTypeOK'
  BY <1>2, <1>4, <1>6 DEF ReportsFit, ReportsTypeOK
<1>8. now <= now
  BY <1>3, ReportBounds DEF Time
<1>9. CallsFit'
  <2> SUFFICES ASSUME NEW other \in Uniqueid, Known(other)'
               PROVE  /\ calls'[other] \in CallOf /\ calls'[other].began <= now'
                      /\ calls'[other].state = "waiting" => calls'[other].talked = FALSE /\ calls'[other].queue \in Queues
                      /\ calls'[other].queue \in Queues => \E e \in qlog' : e.event = "ENTERQUEUE" /\ e.callid = other
                      /\ calls'[other].queue \in Queues /\ calls'[other].talked = TRUE =>
                           \E e \in qlog' : e.event = "COMPLETE" /\ e.callid = other
                      /\ calls'[other].state = "over" => \E d \in cdr' : d.uniqueid = other
    BY DEF CallsFit
  <2>1. CASE other = c
    BY <1>2, <1>4, <1>5, <1>6, <1>8, <2>1
  <2>2. CASE other # c
    BY <1>2, <1>6, <2>2 DEF ReportsFit, CallsFit
  <2> QED BY <2>1, <2>2
<1>10. LogFits'
  <2>1. \A e \in qlog : Known(e.callid) /\ e.callid \in Uniqueid
    BY DEF ReportsFit, LogFits, QueueLog
  <2> QED BY <1>2, <1>4, <1>5, <1>6, <1>8, <2>1 DEF ReportsFit, LogFits
<1>11. RecordsFit'
  <2>1. \A d \in cdr : d.uniqueid \in Uniqueid
    BY DEF ReportsFit, RecordsFit, CDR
  <2> QED BY <1>2, <1>6, <2>1 DEF ReportsFit, RecordsFit
<1> QED BY <1>7, <1>9, <1>10, <1>11 DEF ReportsFit

LEMMA ConverseStep ==
  ASSUME ReportsFit, NEW c \in Uniqueid, NEW n \in Number, NEW way \in {"in", "out"}, Converse(c, n, way)
  PROVE  ReportsFit'
<1>1. PICK call :
        call = [state |-> "ended", number |-> n, queue |-> NoQueue, way |-> way, began |-> now, talked |-> TRUE]
  OBVIOUS
<1>2. Begins(c) /\ calls' = [calls EXCEPT ![c] = call] /\ UNCHANGED <<now, qlog, cdr>>
  BY <1>1 DEF Converse
<1>3. now \in Time
  BY DEF ReportsFit, ReportsTypeOK
<1>4. call \in CallOf
  BY <1>1, <1>3 DEF CallOf
<1>5. call.began = now /\ call.state = "ended" /\ call.queue \notin Queues
  BY <1>1, ReportBounds
<1>6. /\ calls' \in [Uniqueid -> CallOf \cup {NotYet}]
      /\ Known(c)' /\ calls'[c] = call
      /\ \A other \in Uniqueid : other # c => calls'[other] = calls[other] /\ (Known(other)' <=> Known(other))
      /\ \A e \in qlog : e.callid # c
      /\ \A d \in cdr : d.uniqueid # c
  BY <1>2, <1>4, <1>5, Begun
<1>7. ReportsTypeOK'
  BY <1>2, <1>6 DEF ReportsFit, ReportsTypeOK
<1>8. now <= now
  BY <1>3, ReportBounds DEF Time
<1>9. CallsFit'
  <2> SUFFICES ASSUME NEW other \in Uniqueid, Known(other)'
               PROVE  /\ calls'[other] \in CallOf /\ calls'[other].began <= now'
                      /\ calls'[other].state = "waiting" => calls'[other].talked = FALSE /\ calls'[other].queue \in Queues
                      /\ calls'[other].queue \in Queues => \E e \in qlog' : e.event = "ENTERQUEUE" /\ e.callid = other
                      /\ calls'[other].queue \in Queues /\ calls'[other].talked = TRUE =>
                           \E e \in qlog' : e.event = "COMPLETE" /\ e.callid = other
                      /\ calls'[other].state = "over" => \E d \in cdr' : d.uniqueid = other
    BY DEF CallsFit
  <2>1. CASE other = c
    BY <1>2, <1>4, <1>5, <1>6, <1>8, <2>1
  <2>2. CASE other # c
    BY <1>2, <1>6, <2>2 DEF ReportsFit, CallsFit
  <2> QED BY <2>1, <2>2
<1>10. LogFits'
  <2>1. \A e \in qlog : e.callid \in Uniqueid
    BY DEF ReportsFit, LogFits, QueueLog
  <2> QED BY <1>2, <1>6, <2>1 DEF ReportsFit, LogFits
<1>11. RecordsFit'
  <2>1. \A d \in cdr : d.uniqueid \in Uniqueid
    BY DEF ReportsFit, RecordsFit, CDR
  <2> QED BY <1>2, <1>6, <2>1 DEF ReportsFit, RecordsFit
<1> QED BY <1>7, <1>9, <1>10, <1>11 DEF ReportsFit

\* A call goes on.
LEMMA GoneOn ==
  ASSUME ReportsFit, NEW c \in Uniqueid, Known(c), NEW call \in CallOf,
         calls' = [calls EXCEPT ![c] = call]
  PROVE  /\ calls' \in [Uniqueid -> CallOf \cup {NotYet}] /\ calls'[c] = call
         /\ \A other \in Uniqueid : (Known(other)' <=> Known(other)) /\ (other # c => calls'[other] = calls[other])
<1>1. calls \in [Uniqueid -> CallOf \cup {NotYet}]
  BY DEF ReportsFit, ReportsTypeOK
<1>2. calls'[c] = call /\ call # NotYet
  BY <1>1, NotYetIs
<1> QED BY <1>1, <1>2 DEF Known

LEMMA LeaveQueueStep ==
  ASSUME ReportsFit, NEW c \in Uniqueid, LeaveQueue(c)
  PROVE  ReportsFit'
<1>1. PICK served \in BOOLEAN :
        /\ calls' = [calls EXCEPT ![c].state = "ended", ![c].talked = served]
        /\ qlog' = qlog \cup {Logged(c, IF served THEN "COMPLETE" ELSE "ABANDON")}
  BY DEF LeaveQueue
<1>2. PICK old : old = calls[c]
  OBVIOUS
<1>3. UNCHANGED <<now, cdr>> /\ old.state = "waiting"
  BY <1>2 DEF LeaveQueue, InQueue
<1>4. Known(c)
  BY <1>2, <1>3, NotYetIs DEF Known
<1>5. old \in CallOf /\ old.began <= now /\ old.queue \in Queues /\ \E e \in qlog : e.event = "ENTERQUEUE" /\ e.callid = c
  BY <1>2, <1>3, <1>4 DEF ReportsFit, CallsFit
<1>6. PICK call : call = [old EXCEPT !.state = "ended", !.talked = served]
  OBVIOUS
<1>7. /\ call \in CallOf /\ call.state = "ended" /\ call.talked = served /\ call.number = old.number
      /\ call.queue = old.queue /\ call.way = old.way /\ call.began = old.began
  BY <1>5, <1>6 DEF CallOf
<1>8. calls' = [calls EXCEPT ![c] = call]
  BY <1>1, <1>2, <1>6 DEF ReportsFit, ReportsTypeOK
<1>9. /\ calls' \in [Uniqueid -> CallOf \cup {NotYet}] /\ calls'[c] = call
      /\ \A other \in Uniqueid : (Known(other)' <=> Known(other)) /\ (other # c => calls'[other] = calls[other])
  BY <1>4, <1>7, <1>8, GoneOn
<1>10. PICK row : row = Logged(c, IF served THEN "COMPLETE" ELSE "ABANDON")
  OBVIOUS
<1>11. /\ row.callid = c /\ row.time = now /\ row.queuename = old.queue /\ row.data2 = old.number
       /\ row.event = (IF served THEN "COMPLETE" ELSE "ABANDON")
  BY <1>2, <1>10 DEF Logged
<1>12. row \in QueueLog
  <2>1. now \in Time /\ old.number \in Number
    BY <1>5 DEF ReportsFit, ReportsTypeOK, CallOf
  <2> QED BY <1>2, <1>5, <1>10, <2>1 DEF Logged, QueueLog
<1>13. qlog' = qlog \cup {row}
  BY <1>1, <1>10
<1>14. ReportsTypeOK'
  BY <1>3, <1>9, <1>12, <1>13 DEF ReportsFit, ReportsTypeOK
<1>15. CallsFit'
  <2> SUFFICES ASSUME NEW other \in Uniqueid, Known(other)'
               PROVE  /\ calls'[other] \in CallOf /\ calls'[other].began <= now'
                      /\ calls'[other].state = "waiting" => calls'[other].talked = FALSE /\ calls'[other].queue \in Queues
                      /\ calls'[other].queue \in Queues => \E e \in qlog' : e.event = "ENTERQUEUE" /\ e.callid = other
                      /\ calls'[other].queue \in Queues /\ calls'[other].talked = TRUE =>
                           \E e \in qlog' : e.event = "COMPLETE" /\ e.callid = other
                      /\ calls'[other].state = "over" => \E d \in cdr' : d.uniqueid = other
    BY DEF CallsFit
  <2>1. CASE other = c
    BY <1>3, <1>5, <1>7, <1>9, <1>11, <1>13, <2>1
  <2>2. CASE other # c
    BY <1>3, <1>9, <1>13, <2>2 DEF ReportsFit, CallsFit
  <2> QED BY <2>1, <2>2
<1>16. LogFits'
  <2> SUFFICES ASSUME NEW e \in qlog'
               PROVE  /\ e \in QueueLog /\ Known(e.callid)'
                      /\ e.queuename = calls'[e.callid].queue /\ e.data2 = calls'[e.callid].number
                      /\ calls'[e.callid].began <= e.time
                      /\ e.event = "ENTERQUEUE" => e.time = calls'[e.callid].began
                      /\ e.event = "COMPLETE" => calls'[e.callid].talked = TRUE /\ calls'[e.callid].state # "waiting"
                      /\ e.event = "ABANDON" => calls'[e.callid].talked = FALSE /\ calls'[e.callid].state # "waiting"
    BY DEF LogFits
  <2>1. CASE e = row
    <3>1. served = TRUE \/ served = FALSE
      OBVIOUS
    <3> QED BY <1>4, <1>5, <1>7, <1>9, <1>11, <1>12, <2>1, <3>1
  <2>2. CASE e \in qlog
    <3>1. /\ e \in QueueLog /\ Known(e.callid)
          /\ e.queuename = calls[e.callid].queue /\ e.data2 = calls[e.callid].number
          /\ calls[e.callid].began <= e.time
          /\ e.event = "ENTERQUEUE" => e.time = calls[e.callid].began
          /\ e.event = "COMPLETE" => calls[e.callid].talked = TRUE /\ calls[e.callid].state # "waiting"
          /\ e.event = "ABANDON" => calls[e.callid].talked = FALSE /\ calls[e.callid].state # "waiting"
      BY <2>2 DEF ReportsFit, LogFits
    <3>2. e.callid \in Uniqueid
      BY <3>1 DEF QueueLog
    <3>3. CASE e.callid = c
      BY <1>2, <1>3, <1>7, <1>9, <3>1, <3>3
    <3>4. CASE e.callid # c
      <4>1. calls'[e.callid] = calls[e.callid] /\ Known(e.callid)'
        BY <1>9, <3>1, <3>2, <3>4
      <4> QED BY <3>1, <4>1
    <3> QED BY <3>3, <3>4
  <2> QED BY <1>13, <2>1, <2>2
<1>17. RecordsFit'
  <2>1. \A d \in cdr : d.uniqueid \in Uniqueid /\ d.uniqueid # c
    BY <1>2, <1>3 DEF ReportsFit, RecordsFit, CDR
  <2> QED BY <1>3, <1>9, <2>1 DEF ReportsFit, RecordsFit
<1> QED BY <1>14, <1>15, <1>16, <1>17 DEF ReportsFit

LEMMA WriteCDRStep ==
  ASSUME ReportsFit, NEW c \in Uniqueid, WriteCDR(c)
  PROVE  ReportsFit'
<1>1. PICK old : old = calls[c]
  OBVIOUS
<1>2. PICK answered \in BOOLEAN, row \in {[uniqueid |-> c, number |-> old.number, way |-> old.way,
                                          start |-> old.began, answered |-> ans] : ans \in BOOLEAN} :
        /\ old.talked => answered
        /\ row = [uniqueid |-> c, number |-> old.number, way |-> old.way, start |-> old.began, answered |-> answered]
        /\ cdr' = cdr \cup {row}
  BY <1>1 DEF WriteCDR
<1>3. old.state = "ended" /\ calls' = [calls EXCEPT ![c].state = "over"] /\ UNCHANGED <<now, qlog>>
  BY <1>1 DEF WriteCDR
<1>4. Known(c)
  BY <1>1, <1>3, NotYetIs DEF Known
<1>5. /\ old \in CallOf /\ old.began <= now
      /\ old.queue \in Queues => \E e \in qlog : e.event = "ENTERQUEUE" /\ e.callid = c
      /\ old.queue \in Queues /\ old.talked = TRUE => \E e \in qlog : e.event = "COMPLETE" /\ e.callid = c
  BY <1>1, <1>4 DEF ReportsFit, CallsFit
<1>6. PICK call : call = [old EXCEPT !.state = "over"]
  OBVIOUS
<1>7. /\ call \in CallOf /\ call.state = "over" /\ call.talked = old.talked /\ call.number = old.number
      /\ call.queue = old.queue /\ call.way = old.way /\ call.began = old.began
  BY <1>5, <1>6 DEF CallOf
<1>8. calls' = [calls EXCEPT ![c] = call]
  BY <1>1, <1>3, <1>6 DEF ReportsFit, ReportsTypeOK
<1>9. /\ calls' \in [Uniqueid -> CallOf \cup {NotYet}] /\ calls'[c] = call
      /\ \A other \in Uniqueid : (Known(other)' <=> Known(other)) /\ (other # c => calls'[other] = calls[other])
  BY <1>4, <1>7, <1>8, GoneOn
<1>10. row \in CDR
  <2>1. old.number \in Number /\ old.way \in {"in", "out"} /\ old.began \in Time
    BY <1>5 DEF CallOf
  <2> QED BY <1>2, <2>1 DEF CDR
<1>11. /\ row.uniqueid = c /\ row.number = old.number /\ row.way = old.way /\ row.start = old.began
       /\ row.answered = answered
  BY <1>2
<1>12. ReportsTypeOK'
  BY <1>2, <1>3, <1>9, <1>10 DEF ReportsFit, ReportsTypeOK
<1>13. CallsFit'
  <2> SUFFICES ASSUME NEW other \in Uniqueid, Known(other)'
               PROVE  /\ calls'[other] \in CallOf /\ calls'[other].began <= now'
                      /\ calls'[other].state = "waiting" => calls'[other].talked = FALSE /\ calls'[other].queue \in Queues
                      /\ calls'[other].queue \in Queues => \E e \in qlog' : e.event = "ENTERQUEUE" /\ e.callid = other
                      /\ calls'[other].queue \in Queues /\ calls'[other].talked = TRUE =>
                           \E e \in qlog' : e.event = "COMPLETE" /\ e.callid = other
                      /\ calls'[other].state = "over" => \E d \in cdr' : d.uniqueid = other
    BY DEF CallsFit
  <2>1. CASE other = c
    BY <1>2, <1>3, <1>5, <1>7, <1>9, <1>11, <2>1
  <2>2. CASE other # c
    BY <1>2, <1>3, <1>9, <2>2 DEF ReportsFit, CallsFit
  <2> QED BY <2>1, <2>2
<1>14. LogFits'
  <2> SUFFICES ASSUME NEW e \in qlog
               PROVE  /\ e \in QueueLog /\ Known(e.callid)'
                      /\ e.queuename = calls'[e.callid].queue /\ e.data2 = calls'[e.callid].number
                      /\ calls'[e.callid].began <= e.time
                      /\ e.event = "ENTERQUEUE" => e.time = calls'[e.callid].began
                      /\ e.event = "COMPLETE" => calls'[e.callid].talked = TRUE /\ calls'[e.callid].state # "waiting"
                      /\ e.event = "ABANDON" => calls'[e.callid].talked = FALSE /\ calls'[e.callid].state # "waiting"
    BY <1>3 DEF LogFits
  <2>1. /\ e \in QueueLog /\ Known(e.callid)
        /\ e.queuename = calls[e.callid].queue /\ e.data2 = calls[e.callid].number
        /\ calls[e.callid].began <= e.time
        /\ e.event = "ENTERQUEUE" => e.time = calls[e.callid].began
        /\ e.event = "COMPLETE" => calls[e.callid].talked = TRUE /\ calls[e.callid].state # "waiting"
        /\ e.event = "ABANDON" => calls[e.callid].talked = FALSE /\ calls[e.callid].state # "waiting"
    BY DEF ReportsFit, LogFits
  <2>2. e.callid \in Uniqueid
    BY <2>1 DEF QueueLog
  <2>3. CASE e.callid = c
    BY <1>1, <1>7, <1>9, <2>1, <2>2, <2>3
  <2>4. CASE e.callid # c
    <3>1. calls'[e.callid] = calls[e.callid] /\ Known(e.callid)'
      BY <1>9, <2>1, <2>2, <2>4
    <3> QED BY <2>1, <3>1
  <2> QED BY <2>3, <2>4
<1>15. RecordsFit'
  <2> SUFFICES ASSUME NEW d \in cdr'
               PROVE  /\ d \in CDR /\ Known(d.uniqueid)'
                      /\ calls'[d.uniqueid].state = "over" /\ d.number = calls'[d.uniqueid].number
                      /\ d.way = calls'[d.uniqueid].way /\ d.start = calls'[d.uniqueid].began
                      /\ calls'[d.uniqueid].talked = TRUE => d.answered = TRUE
    BY DEF RecordsFit
  <2>1. CASE d = row
    <3>1. old.talked = TRUE => answered = TRUE
      BY <1>2
    <3> QED BY <1>4, <1>7, <1>9, <1>10, <1>11, <2>1, <3>1
  <2>2. CASE d \in cdr
    <3>1. d.uniqueid \in Uniqueid /\ d.uniqueid # c
      BY <1>1, <1>3, <2>2 DEF ReportsFit, RecordsFit, CDR
    <3> QED BY <1>9, <2>2, <3>1 DEF ReportsFit, RecordsFit
  <2> QED BY <1>2, <2>1, <2>2
<1> QED BY <1>12, <1>13, <1>14, <1>15 DEF ReportsFit

LEMMA PassStep ==
  ASSUME ReportsFit, Pass
  PROVE  ReportsFit'
<1>1. now < LastTime /\ now' = now + 1 /\ UNCHANGED <<calls, qlog, cdr>> /\ now \in Time
  BY DEF Pass, ReportsFit, ReportsTypeOK
<1>2. now' \in Time /\ \A t \in Time : t <= now => t <= now'
  BY <1>1, ReportBounds DEF Time
<1>3. ReportsTypeOK' /\ LogFits' /\ RecordsFit'
  BY <1>1, <1>2 DEF ReportsFit, ReportsTypeOK, LogFits, RecordsFit, Known
<1>4. CallsFit'
  <2>1. \A c \in Uniqueid : Known(c) => calls[c] \in CallOf /\ calls[c].began \in Time /\ calls[c].began <= now'
    BY <1>2 DEF ReportsFit, CallsFit, CallOf
  <2> QED BY <1>1, <2>1 DEF ReportsFit, CallsFit, Known
<1> QED BY <1>3, <1>4 DEF ReportsFit

LEMMA ReportsFitStep == ReportsFit /\ [ReportsNext]_reportVars => ReportsFit'
<1> SUFFICES ASSUME ReportsFit, [ReportsNext]_reportVars PROVE ReportsFit'
  OBVIOUS
<1>1. CASE UNCHANGED reportVars
  BY <1>1 DEF reportVars, ReportsFit, ReportsTypeOK, CallsFit, LogFits, RecordsFit, Known
<1>2. CASE ReportsNext
  BY <1>2, LeaveQueueStep, WriteCDRStep, EnterQueueStep, ConverseStep, PassStep DEF ReportsNext
<1> QED BY <1>1, <1>2

-----------------------------------------------------------------------------
(* What the reports tell. *)

\* The caller's number is that of the call, in both ways of finding it.
LEMMA CalleridIs ==
  ASSUME ReportsFit
  PROVE  \A r \in qlog : /\ r.callid \in Uniqueid /\ Known(r.callid)
                         /\ Callerid(r.callid) = calls[r.callid].number
                         /\ LostCallerid(r) = calls[r.callid].number
<1> SUFFICES ASSUME NEW r \in qlog
             PROVE  /\ r.callid \in Uniqueid /\ Known(r.callid)
                    /\ Callerid(r.callid) = calls[r.callid].number
                    /\ LostCallerid(r) = calls[r.callid].number
  OBVIOUS
<1>1. r.callid \in Uniqueid /\ Known(r.callid) /\ calls[r.callid].queue \in Queues
  BY DEF ReportsFit, LogFits, QueueLog
<1>2. \E e \in qlog : e.event = "ENTERQUEUE" /\ e.callid = r.callid
  BY <1>1 DEF ReportsFit, CallsFit
<1>3. \A e \in qlog : e.callid = r.callid => e.data2 = calls[r.callid].number
  BY DEF ReportsFit, LogFits
<1>4. Callerid(r.callid) = calls[r.callid].number
  BY <1>2, <1>3 DEF Callerid
<1>5. \A d \in cdr : d.uniqueid = r.callid => d.number = calls[r.callid].number
  BY DEF ReportsFit, RecordsFit
<1>6. LostCallerid(r) = calls[r.callid].number
  BY <1>4, <1>5 DEF LostCallerid
<1> QED BY <1>1, <1>4, <1>6

\* A call that is over and was talked in has a record that says so.
LEMMA TalkedIsRecorded ==
  ASSUME ReportsFit, NEW c \in Uniqueid, Known(c), calls[c].state = "over", calls[c].talked = TRUE
  PROVE  \E d \in cdr : /\ d \in CDR /\ d.answered = TRUE /\ d.number = calls[c].number
                        /\ d.start = calls[c].began
<1>1. PICK d \in cdr : d.uniqueid = c
  BY DEF ReportsFit, CallsFit
<1>2. d \in CDR /\ d.answered = TRUE /\ d.number = calls[c].number /\ d.start = calls[c].began
  BY <1>1 DEF ReportsFit, RecordsFit
<1> QED BY <1>2

LEMMA RemainingIs ==
  ASSUME NEW r, NEW missed, NEW to
  PROVE  Remaining(r, missed, to)
           <=> ~Lucky(r, missed, to) /\ ~Conversed(r, "in", to) /\ ~Conversed(r, "out", to)
BY DEF Remaining, CalledBack, ByOperator

LEMMA ReachedAreNotRemaining == ReportsFit => ReachedIsNotRemaining
<1> SUFFICES ASSUME ReportsFit, NEW rg \in Ranges, NEW q \in Queues,
                    NEW r \in Missed(q, rg[1], rg[2], FALSE),
                    TalkedTo(r, calls[r.callid].number, rg[2])
             PROVE  ~Remaining(r, Missed(q, rg[1], rg[2], FALSE), rg[2])
  BY DEF ReachedIsNotRemaining
<1> DEFINE missed == Missed(q, rg[1], rg[2], FALSE)
<1>1. r \in qlog /\ r.queuename = q
  BY DEF Missed, EventRows
<1>2. PICK c \in Uniqueid :
        /\ calls[c] # NotYet /\ calls[c].talked /\ calls[c].number = calls[r.callid].number
        /\ calls[c].began \in r.time..rg[2]
        /\ calls[c].state = "over" \/ calls[c].queue = r.queuename
  BY DEF TalkedTo
<1>3. Known(c) /\ calls[c] \in CallOf
  BY <1>2 DEF Known, ReportsFit, CallsFit
<1>4. calls[c].talked = TRUE
  BY <1>2, <1>3 DEF CallOf
<1>5. Callerid(r.callid) = calls[r.callid].number
  BY <1>1, CalleridIs
<1>6. CASE calls[c].state = "over"
  <2>1. PICK d \in cdr : /\ d \in CDR /\ d.answered = TRUE /\ d.number = calls[c].number
                         /\ d.start = calls[c].began
    BY <1>3, <1>4, <1>6, TalkedIsRecorded
  <2>2. d.way = "in" \/ d.way = "out"
    BY <2>1 DEF CDR
  <2>3. Conversed(r, d.way, rg[2])
    BY <1>2, <1>5, <2>1 DEF Conversed
  <2> QED BY <2>2, <2>3, RemainingIs
<1>7. CASE calls[c].queue = q
  <2>1. PICK e \in qlog : e.event = "ENTERQUEUE" /\ e.callid = c
    BY <1>3, <1>7 DEF ReportsFit, CallsFit
  <2>2. e.time = calls[c].began /\ e.queuename = q /\ e.data2 = calls[c].number
    BY <1>7, <2>1 DEF ReportsFit, LogFits
  <2>3. \E d \in qlog : d.callid = e.callid /\ d.event = "COMPLETE"
    BY <1>3, <1>4, <1>7, <2>1 DEF ReportsFit, CallsFit
  <2>4. \A m \in missed : m.callid # c
    BY <1>4 DEF Missed, EventRows, ReportsFit, LogFits
  <2>5. e.callid \notin {m.callid : m \in missed}
    BY <2>1, <2>4
  <2>6. e.time \in r.time..rg[2] /\ e.queuename = r.queuename /\ e.data2 = Callerid(r.callid)
    BY <1>1, <1>2, <1>5, <2>2
  <2> HIDE DEF missed
  <2>7. Lucky(r, missed, rg[2])
    BY <2>1, <2>3, <2>5, <2>6 DEF Lucky
  <2> QED BY <2>7, RemainingIs DEF missed
<1> QED BY <1>1, <1>2, <1>6, <1>7

LEMMA ReachedAreNotListed == ReportsFit => ReachedIsNotListed
<1> SUFFICES ASSUME ReportsFit, NEW q \in Queues, NEW r \in MissedList(q, 0), NEW c \in Uniqueid,
                    calls[c].state = "over", calls[c].talked, calls[c].began > r.time,
                    Norm(calls[c].number) = Norm(calls[r.callid].number)
             PROVE  FALSE
  BY DEF ReachedIsNotListed
<1>1. r \in qlog /\ ~Found(r)
  BY DEF MissedList
<1>2. Known(c) /\ calls[c] \in CallOf
  BY NotYetIs DEF Known, ReportsFit, CallsFit
<1>3. calls[c].talked = TRUE
  BY <1>2 DEF CallOf
<1>4. PICK d \in cdr : /\ d \in CDR /\ d.answered = TRUE /\ d.number = calls[c].number
                       /\ d.start = calls[c].began
  BY <1>2, <1>3, TalkedIsRecorded
<1>5. LostCallerid(r) = calls[r.callid].number
  BY <1>1, CalleridIs
<1>6. Norm(d.number) = Norm(LostCallerid(r)) /\ d.start > r.time
  BY <1>4, <1>5
<1> QED BY <1>1, <1>4, <1>6 DEF Found

LEMMA ListsDiffer == ReportsFit => ListsDifferOnlyBy
<1> SUFFICES ASSUME ReportsFit, NEW q \in Queues, NEW r \in Missed(q, 0, LastTime, FALSE),
                    (r \in MissedList(q, 0)) # Remaining(r, Missed(q, 0, LastTime, FALSE), LastTime),
                    \A d \in cdr : Norm(d.number) = Norm(Callerid(r.callid)) => d.number = Callerid(r.callid),
                    \A d \in cdr : d.start # r.time,
                    \A c \in Uniqueid : ~(calls[c].state = "ended" /\ calls[c].talked)
             PROVE  FALSE
  BY DEF ListsDifferOnlyBy
<1> DEFINE missed == Missed(q, 0, LastTime, FALSE)
           n == Callerid(r.callid)
<1>1. r \in qlog /\ r.event = "ABANDON" /\ r.queuename = q
  BY DEF Missed, EventRows
<1>2. r.time \in Nat
  BY <1>1, ReportBounds DEF ReportsFit, LogFits, QueueLog, Time
<1>3. r.callid \in Uniqueid /\ n = calls[r.callid].number /\ n = LostCallerid(r)
  BY <1>1, CalleridIs
<1>4. r \in MissedList(q, 0) <=> ~Found(r)
  BY <1>1, <1>2 DEF MissedList
<1>5. Remaining(r, missed, LastTime)
        <=> ~Lucky(r, missed, LastTime) /\ ~Conversed(r, "in", LastTime) /\ ~Conversed(r, "out", LastTime)
  BY RemainingIs
<1>6. \A d \in cdr : d \in CDR /\ d.start \in Nat /\ d.start <= LastTime /\ (d.way = "in" \/ d.way = "out")
  <2>1. \A d \in cdr : d \in CDR
    BY DEF ReportsFit, RecordsFit
  <2>2. \A d \in CDR : d.start \in 0..LastTime /\ (d.way = "in" \/ d.way = "out")
    BY DEF CDR, Time
  <2> QED BY <2>1, <2>2, ReportBounds
<1>7. Found(r) => Conversed(r, "in", LastTime) \/ Conversed(r, "out", LastTime)
  <2> SUFFICES ASSUME Found(r) PROVE Conversed(r, "in", LastTime) \/ Conversed(r, "out", LastTime)
    OBVIOUS
  <2>1. PICK d \in cdr : d.answered /\ Norm(d.number) = Norm(LostCallerid(r)) /\ d.start > r.time
    BY DEF Found
  <2>2. d.number = n
    BY <1>3, <2>1
  <2>3. d.start \in r.time..LastTime
    BY <1>2, <1>6, <2>1, ReportBounds
  <2>4. Conversed(r, d.way, LastTime)
    BY <2>1, <2>2, <2>3 DEF Conversed
  <2> QED BY <1>6, <2>4
<1>8. ASSUME NEW way, Conversed(r, way, LastTime) PROVE Found(r)
  <2>1. PICK d \in cdr : d.answered /\ d.number = n /\ d.start \in r.time..LastTime
    BY <1>8 DEF Conversed
  <2>2. d.start > r.time
    BY <1>2, <1>6, <2>1, ReportBounds
  <2> QED BY <1>3, <2>1, <2>2 DEF Found
<1>9. Lucky(r, missed, LastTime) => Found(r)
  <2> HIDE DEF missed
  <2> SUFFICES ASSUME Lucky(r, missed, LastTime) PROVE Found(r)
    OBVIOUS
  <2>1. PICK e \in qlog :
          /\ e.event = "ENTERQUEUE" /\ e.time \in r.time..LastTime /\ e.data2 = n
          /\ \E d \in qlog : d.callid = e.callid /\ d.event = "COMPLETE"
    BY DEF Lucky
  <2>2. e.callid \in Uniqueid /\ Known(e.callid) /\ e.time = calls[e.callid].began /\ n = calls[e.callid].number
    BY <2>1, CalleridIs DEF ReportsFit, LogFits
  <2>3. calls[e.callid].talked = TRUE /\ calls[e.callid].state # "waiting"
    BY <2>1 DEF ReportsFit, LogFits
  <2>4. calls[e.callid].state = "over"
    <3>1. calls[e.callid] \in CallOf
      BY <2>2 DEF ReportsFit, CallsFit
    <3>2. calls[e.callid].state \in {"waiting", "ended", "over"}
      BY <3>1 DEF CallOf
    <3> QED BY <2>2, <2>3, <3>2
  <2>5. PICK d \in cdr : /\ d \in CDR /\ d.answered = TRUE /\ d.number = calls[e.callid].number
                         /\ d.start = calls[e.callid].began
    BY <2>2, <2>3, <2>4, TalkedIsRecorded
  <2>6. d.start > r.time
    BY <1>2, <1>6, <2>1, <2>2, <2>5, ReportBounds
  <2>7. Norm(d.number) = Norm(LostCallerid(r))
    BY <1>3, <2>2, <2>5
  <2> QED BY <2>5, <2>6, <2>7 DEF Found
<1>10. Found(r) <=> ~Remaining(r, missed, LastTime)
  BY <1>5, <1>7, <1>8, <1>9
<1>11. Remaining(r, missed, LastTime) \in BOOLEAN
  BY DEF Remaining
<1> HIDE DEF missed
<1>12. CASE r \in MissedList(q, 0)
  <2>1. Remaining(r, missed, LastTime) = TRUE
    BY <1>4, <1>10, <1>11, <1>12
  <2>2. (r \in MissedList(q, 0)) = TRUE
    BY <1>12
  <2> QED BY <2>1, <2>2 DEF missed
<1>13. CASE r \notin MissedList(q, 0)
  <2>1. Remaining(r, missed, LastTime) = FALSE
    BY <1>4, <1>10, <1>11, <1>13
  <2>2. (r \in MissedList(q, 0)) = FALSE
    BY <1>13
  <2> QED BY <2>1, <2>2 DEF missed
<1> QED BY <1>12, <1>13

LEMMA ContactsCounted == ReportsFit => ContactsCountedOnlyIfEarly
<1> SUFFICES ASSUME ReportsFit, NEW rg \in Ranges, NEW q \in Queues,
                    NEW r \in Missed(q, rg[1], rg[2], TRUE), Callerid(r.callid) \in Contact
             PROVE  calls[r.callid].began < rg[1]
  BY DEF ContactsCountedOnlyIfEarly
<1>1. r \in qlog /\ r.time \in rg[1]..rg[2] /\ r.callid \notin KnownCallids(rg[1], rg[2])
  BY DEF Missed, EventRows
<1>2. rg[1] \in Nat /\ rg[2] \in Nat
  BY ReportBounds DEF Ranges, Time
<1>3. r.callid \in Uniqueid /\ Known(r.callid) /\ Callerid(r.callid) = calls[r.callid].number
  BY <1>1, CalleridIs
<1>4. /\ r \in QueueLog /\ r.queuename = calls[r.callid].queue /\ calls[r.callid].began <= r.time
      /\ calls[r.callid] \in CallOf
  BY <1>1, <1>3 DEF ReportsFit, LogFits, CallsFit
<1>5. calls[r.callid].began \in Nat /\ calls[r.callid].queue \in Queues
  BY <1>4, ReportBounds DEF CallOf, QueueLog, Time
<1>6. PICK e \in qlog : e.event = "ENTERQUEUE" /\ e.callid = r.callid
  BY <1>3, <1>5 DEF ReportsFit, CallsFit
<1>7. e.time = calls[r.callid].began /\ e.data2 = calls[r.callid].number
  BY <1>6 DEF ReportsFit, LogFits
<1>8. e.time \notin rg[1]..rg[2]
  BY <1>1, <1>3, <1>6, <1>7 DEF KnownCallids, EventRows
<1> QED BY <1>1, <1>2, <1>4, <1>5, <1>7, <1>8

-----------------------------------------------------------------------------
(* The totals of the reports.  SumOf adds up hour by hour, in an order that the library
   chooses; such a sum is the number of the rows of the hours added up, for any order. *)

\* The rows of some hours, and what a sum over sets of hours is to be at each of them.
RowsOfHours(s, event, from, to) == {r \in EventRows(event, from, to) : HourOf(r.time) \in s}
Pick(s) == CHOOSE h \in s : TRUE
SumsUp(f, H, event, from, to) ==
  f = [s \in SUBSET H |->
         IF s = {} THEN 0 ELSE ByHour(Pick(s), event, from, to) + f[s \ {Pick(s)}]]

\* A set of numbers has a least one.
LEMMA LeastOfSome ==
  ASSUME NEW S, S \subseteq Nat, S # {}
  PROVE  \E x \in S : \A y \in S : x <= y
<1> DEFINE below == {ss \in Nat \X Nat : ss[1] < ss[2]}
<1>1. IsWellFoundedOn(below, Nat)
  BY NatLessThanWellFounded DEF OpToRel
<1>2. PICK x \in S : \A y \in S : ~ (<<y, x>> \in below)
  BY <1>1, WFMin
<1>3. \A y \in S : ~ (y < x)
  BY <1>2
<1> QED BY <1>3

\* The rows of some hours are those of one of them and those of the others.
LEMMA OneHourMore ==
  ASSUME IsFiniteSet(qlog), NEW s, s # {}, NEW event, NEW from, NEW to
  PROVE  /\ Pick(s) \in s
         /\ Cardinality(RowsOfHours(s, event, from, to)) \in Nat
         /\ Cardinality(RowsOfHours(s \ {Pick(s)}, event, from, to)) \in Nat
         /\ ByHour(Pick(s), event, from, to) \in Nat
         /\ Cardinality(RowsOfHours(s, event, from, to)) =
              ByHour(Pick(s), event, from, to) + Cardinality(RowsOfHours(s \ {Pick(s)}, event, from, to))
<1>1. PICK h : h = Pick(s)
  OBVIOUS
<1>2. h \in s
  BY <1>1 DEF Pick
<1> DEFINE one == {r \in EventRows(event, from, to) : HourOf(r.time) = h}
           others == RowsOfHours(s \ {h}, event, from, to)
           both == RowsOfHours(s, event, from, to)
<1>3. one \subseteq qlog /\ others \subseteq qlog /\ both \subseteq qlog
  BY DEF EventRows, RowsOfHours
<1>4. both = one \cup others /\ one \cap others = {}
  BY <1>2 DEF RowsOfHours
<1>5. IsFiniteSet(one) /\ IsFiniteSet(others) /\ IsFiniteSet(both)
  <2> HIDE DEF one, others, both
  <2> QED BY <1>3, FS_Subset
<1>6. Cardinality(one) \in Nat /\ Cardinality(others) \in Nat /\ Cardinality(both) \in Nat
  <2> HIDE DEF one, others, both
  <2> QED BY <1>5, FS_CardinalityType
<1>7. Cardinality(both) = Cardinality(one) + Cardinality(others)
  <2> HIDE DEF one, others, both
  <2>1. Cardinality(one \cup others) = Cardinality(one) + Cardinality(others) - Cardinality(one \cap others)
    BY <1>5, FS_Union
  <2>2. Cardinality(one \cap others) = 0
    BY <1>4, FS_EmptySet
  <2> QED BY <1>4, <1>6, <2>1, <2>2
<1>8. ByHour(h, event, from, to) = Cardinality(one)
  BY DEF ByHour
<1> QED
  <2> HIDE DEF one
  <2> QED BY <1>1, <1>2, <1>6, <1>7, <1>8

\* There is such a sum: the number of the rows is one.
LEMMA SumExists ==
  ASSUME IsFiniteSet(qlog), NEW H, NEW event, NEW from, NEW to
  PROVE  \E f : SumsUp(f, H, event, from, to)
<1>1. PICK f : f = [s \in SUBSET H |-> Cardinality(RowsOfHours(s, event, from, to))]
  OBVIOUS
<1>2. ASSUME NEW s \in SUBSET H
      PROVE  f[s] = IF s = {} THEN 0 ELSE ByHour(Pick(s), event, from, to) + f[s \ {Pick(s)}]
  <2>1. CASE s = {}
    <3>1. RowsOfHours({}, event, from, to) = {}
      BY DEF RowsOfHours
    <3> QED BY <1>1, <2>1, <3>1, FS_EmptySet
  <2>2. CASE s # {}
    <3>1. Cardinality(RowsOfHours(s, event, from, to)) =
              ByHour(Pick(s), event, from, to) + Cardinality(RowsOfHours(s \ {Pick(s)}, event, from, to))
      BY <2>2, OneHourMore
    <3>2. f[s] = Cardinality(RowsOfHours(s, event, from, to))
          /\ f[s \ {Pick(s)}] = Cardinality(RowsOfHours(s \ {Pick(s)}, event, from, to))
      BY <1>1
    <3> QED BY <2>2, <3>1, <3>2
  <2> QED BY <2>1, <2>2
<1>3. DOMAIN f = SUBSET H /\ f = [s \in DOMAIN f |-> f[s]]
  BY <1>1
<1>4. SumsUp(f, H, event, from, to)
  BY <1>2, <1>3 DEF SumsUp
<1> QED BY <1>4

\* Any such sum is the number of the rows: where it were not, it would not be for a
\* smaller set of hours either.
LEMMA SumIsTheRows ==
  ASSUME IsFiniteSet(qlog), NEW H, IsFiniteSet(H), NEW event, NEW from, NEW to,
         NEW f, SumsUp(f, H, event, from, to)
  PROVE  f[H] = Cardinality(RowsOfHours(H, event, from, to))
<1> DEFINE Wrong == {s \in SUBSET H : f[s] # Cardinality(RowsOfHours(s, event, from, to))}
           Sizes == {Cardinality(s) : s \in Wrong}
<1>1. \A s \in SUBSET H : IsFiniteSet(s) /\ Cardinality(s) \in Nat
  BY FS_Subset, FS_CardinalityType
<1>2. \A s \in SUBSET H :
        f[s] = IF s = {} THEN 0 ELSE ByHour(Pick(s), event, from, to) + f[s \ {Pick(s)}]
  BY DEF SumsUp
<1>3. Wrong = {}
  <2> SUFFICES ASSUME Wrong # {} PROVE FALSE
    OBVIOUS
  <2>1. Sizes \subseteq Nat /\ Sizes # {}
    BY <1>1
  <2>2. PICK n \in Sizes : \A m \in Sizes : n <= m
    <3> HIDE DEF Sizes
    <3> QED BY <2>1, LeastOfSome
  <2>3. PICK s \in Wrong : Cardinality(s) = n
    BY <2>2
  <2>4. s # {}
    <3>1. RowsOfHours({}, event, from, to) = {}
      BY DEF RowsOfHours
    <3>2. f[{}] = 0
      BY <1>2
    <3> QED BY <2>3, <3>1, <3>2, FS_EmptySet
  <2>5. Pick(s) \in s /\ Cardinality(RowsOfHours(s, event, from, to)) =
              ByHour(Pick(s), event, from, to) + Cardinality(RowsOfHours(s \ {Pick(s)}, event, from, to))
    BY <2>4, OneHourMore
  <2>6. f[s] = ByHour(Pick(s), event, from, to) + f[s \ {Pick(s)}]
    BY <1>2, <2>3, <2>4
  <2>7. s \ {Pick(s)} \in Wrong
    <3>1. f[s] # Cardinality(RowsOfHours(s, event, from, to)) /\ s \ {Pick(s)} \in SUBSET H
      BY <2>3
    <3> QED BY <2>5, <2>6, <3>1
  <2>8. IsFiniteSet(s) /\ Cardinality(s \ {Pick(s)}) = Cardinality(s) - 1 /\ Cardinality(s) \in Nat
    BY <1>1, <2>3, <2>5, FS_RemoveElement
  <2>9. Cardinality(s) <= Cardinality(s \ {Pick(s)})
    BY <2>2, <2>3, <2>7
  <2> QED BY <2>8, <2>9
<1> QED BY <1>3

\* The sums of the reports are of that kind.
Total(H, event, from, to) == SumOf(H, LAMBDA h : ByHour(h, event, from, to))

LEMMA SumOfHours ==
  ASSUME NEW H, NEW event, NEW from, NEW to, \E f : SumsUp(f, H, event, from, to)
  PROVE  \E f : SumsUp(f, H, event, from, to) /\ Total(H, event, from, to) = f[H]
<1> DEFINE total == CHOOSE f : SumsUp(f, H, event, from, to)
<1>1. SumsUp(total, H, event, from, to)
  BY Zenon
<1>2. Total(H, event, from, to) = total[H]
  BY Zenon DEF Total, SumOf, MapThenSumSet, MapThenFoldSet, SumsUp, Pick
<1> QED BY <1>1, <1>2

\* Every row of a range is in one of its hours.
LEMMA HoursCover ==
  ASSUME NEW rg \in Ranges, NEW event
  PROVE  /\ IsFiniteSet(Hours(rg[1], rg[2]))
         /\ RowsOfHours(Hours(rg[1], rg[2]), event, rg[1], rg[2]) = EventRows(event, rg[1], rg[2])
<1>1. PICK from, to : from = rg[1] /\ to = rg[2]
  OBVIOUS
<1>2. from \in Time /\ to \in Time /\ from <= to
  BY <1>1 DEF Ranges
<1>3. HourOf(from) \in Nat /\ HourOf(to) \in Nat
  BY <1>2, ReportsAssumption DEF Time
<1>4. IsFiniteSet(Hours(from, to))
  BY <1>3, FS_Interval DEF Hours
<1>5. ASSUME NEW t \in from .. to PROVE HourOf(t) \in Hours(from, to)
  <2>1. t \in Time /\ from <= t /\ t <= to
    BY <1>2, ReportsAssumption DEF Time
  <2>2. HourOf(t) \in Nat /\ HourOf(from) <= HourOf(t) /\ HourOf(t) <= HourOf(to)
    BY <1>2, <2>1, ReportsAssumption DEF Time
  <2> QED BY <1>3, <2>2 DEF Hours
<1>6. RowsOfHours(Hours(from, to), event, from, to) = EventRows(event, from, to)
  BY <1>5 DEF RowsOfHours, EventRows
<1> QED BY <1>1, <1>4, <1>6

LEMMA TotalsOfAll == IsFiniteSet(qlog) => TotalsAgree
<1> SUFFICES ASSUME IsFiniteSet(qlog), NEW rg \in Ranges, NEW event \in {"ABANDON", "COMPLETE"}
             PROVE  Total(Hours(rg[1], rg[2]), event, rg[1], rg[2])
                      = Cardinality(EventRows(event, rg[1], rg[2]))
  BY Zenon DEF TotalsAgree, Total
<1>1. PICK f : /\ SumsUp(f, Hours(rg[1], rg[2]), event, rg[1], rg[2])
               /\ Total(Hours(rg[1], rg[2]), event, rg[1], rg[2]) = f[Hours(rg[1], rg[2])]
  BY SumExists, SumOfHours
<1>2. f[Hours(rg[1], rg[2])] = Cardinality(RowsOfHours(Hours(rg[1], rg[2]), event, rg[1], rg[2]))
  BY <1>1, HoursCover, SumIsTheRows
<1> QED BY <1>1, <1>2, HoursCover

-----------------------------------------------------------------------------
(* All of it: the log is finite as well. *)

ReportsInv == ReportsFit /\ IsFiniteSet(qlog)

LEMMA ReportsInitially == ReportsInit => ReportsInv
BY ReportsFitInitially, FS_EmptySet DEF ReportsInit, ReportsInv

\* Each step writes a row at most.
LEMMA ReportsStep == ReportsInv /\ [ReportsNext]_reportVars => ReportsInv'
<1> SUFFICES ASSUME ReportsInv, [ReportsNext]_reportVars PROVE IsFiniteSet(qlog')
  BY ReportsFitStep DEF ReportsInv
<1>1. qlog' = qlog \/ \E row : qlog' = qlog \cup {row}
  BY DEF ReportsNext, LeaveQueue, WriteCDR, EnterQueue, Converse, Pass, reportVars
<1> QED BY <1>1, FS_AddElement DEF ReportsInv

LEMMA ReportsMeans ==
  ReportsInv => /\ ReachedIsNotRemaining /\ ReachedIsNotListed /\ ListsDifferOnlyBy
                /\ ContactsCountedOnlyIfEarly /\ TotalsAgree /\ ReportsTypeOK
BY ReachedAreNotRemaining, ReachedAreNotListed, ListsDiffer, ContactsCounted, TotalsOfAll
   DEF ReportsFit, ReportsInv
=============================================================================
