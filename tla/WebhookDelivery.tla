--------------------------- MODULE WebhookDelivery ---------------------------
(* The delivery of fired webhooks (WebhookManager._fire, _send_with_retries and
   wait_pending of services/dashboard/webhook_sender.py).  WebhookChain says which
   events are fired; here the events of one call for one webhook, fired in the
   order 1, 2, ..., are sent to the receiver.  Every event has a task of its own,
   every attempt a thread of the pool, and an attempt whose answer does not come in
   time is repeated although its request may still be handled. *)
EXTENDS Naturals, FiniteSets, Sequences

CONSTANTS
  MaxFired,    \* the events of the call
  Retries,     \* the field "retries" of the webhook
  Pool,        \* the threads of asyncio's default executor
  MaxTimeouts  \* bound: the attempts whose answer does not come in time

ASSUME DeliveryAssumption ==
  /\ MaxFired \in Nat /\ Retries \in Nat /\ MaxTimeouts \in Nat
  /\ Pool \in Nat \ {0}

VARIABLES
  fired,    \* how many events were fired
  sender,   \* the task of each event
  tries,    \* how many attempts it has begun
  leg,      \* where the request of its running attempt is
  stray,    \* how many of its requests are on their way with nobody waiting
  got,      \* what the receiver accepted, in order
  service,  \* the listener: up, stopping (shutdown) or down
  overlap,  \* history: the earlier events not settled when an event was fired
  timeouts  \* history: the attempts whose answer did not come in time

deliveryVars ==
  <<fired, sender, tries, leg, stray, got, service, overlap, timeouts>>

Events == 1..MaxFired
Fired == 1..fired

States == {"none", "queued", "posting", "sleeping", "sent", "failed", "cancelled"}
Pending(e) == sender[e] \in {"queued", "posting", "sleeping"}
Receipts(e) == Cardinality({i \in DOMAIN got : got[i] = e})
TimedOut(e) == \E n \in 1..tries[e] : <<e, n>> \in timeouts

DeliveryTypeOK ==
  /\ fired \in 0..MaxFired
  /\ sender \in [Events -> States]
  /\ tries \in [Events -> Nat]
  /\ leg \in [Events -> {"none", "away", "accepted", "refused"}]
  /\ \A e \in Events : leg[e] # "none" => sender[e] = "posting"
  /\ stray \in [Events -> Nat]
  /\ got \in Seq(Events)
  /\ service \in {"up", "stopping", "down"}
  /\ overlap \in [Events -> SUBSET Events]
  /\ timeouts \subseteq Events \X Nat

DeliveryInit ==
  /\ fired = 0
  /\ sender = [e \in Events |-> "none"]
  /\ tries = [e \in Events |-> 0]
  /\ leg = [e \in Events |-> "none"]
  /\ stray = [e \in Events |-> 0]
  /\ got = <<>>
  /\ service = "up"
  /\ overlap = [e \in Events |-> {}]
  /\ timeouts = {}

-----------------------------------------------------------------------------
\* _fire: the body is built and a task is created.  Events of Asterisk are
\* still handled while shutdown awaits: the AMI client logs off after that.
FireNext ==
  /\ service # "down" /\ fired < MaxFired
  /\ fired' = fired + 1
  /\ sender' = [sender EXCEPT ![fired + 1] = "queued"]
  /\ overlap' = [overlap EXCEPT ![fired + 1] = {e \in Fired : Pending(e)}]
  /\ UNCHANGED <<tries, leg, stray, got, service, timeouts>>

\* Mutant: one thread of the pool is never given out.
FreeThreadButOne == Cardinality({d \in Events : sender[d] = "posting"}) + 1 < Pool

FreeThread == Cardinality({d \in Events : sender[d] = "posting"}) < Pool

\* asyncio.to_thread: the attempt begins when a thread of the pool is free.
Post(e) ==
  /\ service # "down" /\ sender[e] = "queued"
  /\ FreeThread
  /\ sender' = [sender EXCEPT ![e] = "posting"]
  /\ tries' = [tries EXCEPT ![e] = @ + 1]
  /\ leg' = [leg EXCEPT ![e] = "away"]
  /\ UNCHANGED <<fired, stray, got, service, overlap, timeouts>>

\* The receiver handles the request: it accepts it, or answers with an error.
Handle(e) ==
  /\ leg[e] = "away"
  /\ \/ got' = Append(got, e) /\ leg' = [leg EXCEPT ![e] = "accepted"]
     \/ got' = got /\ leg' = [leg EXCEPT ![e] = "refused"]
  /\ UNCHANGED <<fired, sender, tries, stray, service, overlap, timeouts>>

\* It handles one whose sender no longer waits; or the network has lost it.
HandleStray(e) ==
  /\ stray[e] > 0
  /\ stray' = [stray EXCEPT ![e] = @ - 1]
  /\ got' \in {got, Append(got, e)}
  /\ UNCHANGED <<fired, sender, tries, leg, service, overlap, timeouts>>

\* Mutants: any answer is a success; none is.
SentAnyhow(e) == leg[e] \in {"accepted", "refused"}
SentNever(e) == FALSE

\* urlopen raises HTTPError for an answer that is not a success.
Sent(e) == leg[e] = "accepted"
Answered(e) == leg[e] \in {"accepted", "refused"}

\* Mutant: one attempt too many.
LastTryLate(e) == tries[e] > Retries + 1

\* Mutant: a failed attempt ends the delivery as if it had been sent.
AfterFailureSent(e) == "sent"

\* attempts = retries + 1; after the last one the delivery is given up.
LastTry(e) == tries[e] >= Retries + 1
AfterFailure(e) == IF LastTry(e) THEN "failed" ELSE "sleeping"

\* Mutant: the answer is taken for the next attempt's too.
LegKept(e) == leg[e]

LegEnds(e) == "none"

\* The answer comes back, and ends the task or its attempt.
Answer(e) ==
  /\ service # "down" /\ sender[e] = "posting" /\ Answered(e)
  /\ sender' = [sender EXCEPT ![e] = IF Sent(e) THEN "sent" ELSE AfterFailure(e)]
  /\ leg' = [leg EXCEPT ![e] = LegEnds(e)]
  /\ UNCHANGED <<fired, tries, stray, got, service, overlap, timeouts>>

\* The timeout of urlopen, or a broken connection: the request may have been handled,
\* may still be, or may never be.
TimeOut(e) ==
  /\ service # "down" /\ sender[e] = "posting"
  /\ Cardinality(timeouts) < MaxTimeouts
  /\ timeouts' = timeouts \cup {<<e, tries[e]>>}
  /\ sender' = [sender EXCEPT ![e] = AfterFailure(e)]
  /\ stray' = [stray EXCEPT ![e] = @ + IF leg[e] = "away" THEN 1 ELSE 0]
  /\ leg' = [leg EXCEPT ![e] = LegEnds(e)]
  /\ UNCHANGED <<fired, tries, got, service, overlap>>

\* asyncio.sleep(RETRY_DELAY_SECONDS) ends and the loop goes on.
Retry(e) ==
  /\ service # "down" /\ sender[e] = "sleeping"
  /\ sender' = [sender EXCEPT ![e] = "queued"]
  /\ UNCHANGED <<fired, tries, leg, stray, got, service, overlap, timeouts>>

\* The deliveries under way are cancelled; a thread that is posting finishes its
\* request, and nobody waits for the answer.
CancelDeliveries ==
  /\ sender' = [e \in Events |-> IF Pending(e) THEN "cancelled" ELSE sender[e]]
  /\ stray' = [e \in Events |-> stray[e] + IF leg[e] = "away" THEN 1 ELSE 0]
  /\ leg' = [e \in Events |-> "none"]
  /\ UNCHANGED <<fired, tries, got, overlap, timeouts>>

\* SIGTERM: handle_signal raises SystemExit, and asyncio.run cancels every task before
\* the finally of process runs shutdown.  (Its loop does nothing but sleep: nothing
\* else ends it.)
Terminate ==
  /\ service = "up" /\ service' = "stopping"
  /\ CancelDeliveries

\* shutdown waits at most ten seconds, for the deliveries fired since (wait_pending);
\* those that are left end with the loop.
Down ==
  /\ service = "stopping" /\ service' = "down"
  /\ CancelDeliveries

\* What happens by itself: at most one of them is possible at a time.
GoesOn(e) == Post(e) \/ Handle(e) \/ Answer(e) \/ Retry(e)

DeliveryNext ==
  \/ \E e \in Events : GoesOn(e) \/ HandleStray(e) \/ TimeOut(e)
  \/ FireNext \/ Terminate \/ Down

\* The tasks run, the receiver answers, and threads come back to the pool.
DeliveryFairness == \A e \in Events : WF_deliveryVars(GoesOn(e))

DeliverySpec == DeliveryInit /\ [][DeliveryNext]_deliveryVars /\ DeliveryFairness

-----------------------------------------------------------------------------
(* Properties *)

\* "sent (HTTP ...)" is logged only for an event the receiver has accepted
\* (_send_with_retries returns after the first attempt that did not raise).
SaidSentWasGot == \A e \in Events : sender[e] = "sent" => Receipts(e) > 0

\* An event reaches the receiver no more often than it was tried, counting the
\* requests still on their way; and it is tried at most retries + 1 times.
NoMoreThanTried ==
  \A e \in Events : Receipts(e) + stray[e] <= tries[e] /\ tries[e] <= Retries + 1

\* The receiver gets an event twice only if an attempt of it went unanswered.
RepeatedOnlyIfUnanswered == \A e \in Events : Receipts(e) > 1 => TimedOut(e)

\* The tasks of a call's events are independent: a later event may arrive before an
\* earlier one, or before the repetition of one.  It arrives before every receipt of
\* the earlier one only if that was still being sent when the later was fired, or had
\* been given up after an attempt that went unanswered, or cancelled by the shutdown.
Abandoned(e) == \/ sender[e] = "cancelled"
                \/ sender[e] # "sent" /\ TimedOut(e)
OvertakenOnlyIfUnsettled ==
  \A i, j \in DOMAIN got :
    i < j /\ got[j] < got[i] /\ (\A k \in 1..i : got[k] # got[j])
    => got[j] \in overlap[got[i]] \/ Abandoned(got[j])

\* The events of the call are all sent or given up in the end, or cancelled because
\* the listener goes down: no retry and no wait for a thread is endless.
Settled(e) == sender[e] \in {"sent", "failed", "cancelled"}
EveryEventSettles == []<>(\A e \in Fired : Settled(e))

\* What the receiver got, against what was tried and what was reported.
DeliveredAsTried ==
  /\ SaidSentWasGot /\ NoMoreThanTried
  /\ RepeatedOnlyIfUnanswered /\ OvertakenOnlyIfUnsettled
=============================================================================
