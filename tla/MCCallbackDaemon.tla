-------------------------- MODULE MCCallbackDaemon --------------------------
(* Instances of CallbackDaemon for TLC. *)
EXTENDS CallbackDaemon

CONSTANTS p1, p2, np

Two == {p1, p2}
One == {p1}
Rows == {1, 2}
ThreeRows == {1, 2, 3}
OneRow == {1}
DistinctDst == 1 :> "a" @@ 2 :> "b"
SameDst == 1 :> "a" @@ 2 :> "a"
SameContext == 1 :> "out" @@ 2 :> "out"
ThreeDst == DistinctDst @@ 3 :> "c"
ThreeContexts == SameContext @@ 3 :> "out3"
\* "out" is a prefix of "out2": the entry of row 1 matches a channel of row 2.
NestedContexts == 1 :> "out" @@ 2 :> "out2"
\* Rows 1 and 2 ask for one service, row 3 for one that shares nothing with it.
OneService == 1 :> <<"s", "out", "in">> @@ 2 :> <<"s", "out", "in">>
Services == OneService @@ 3 :> <<"s3", "out3", "in3">>
NamePrefix == {<<"out", "out">>, <<"out", "out3">>, <<"out3", "out3">>,
               <<"out", "out2">>, <<"out2", "out2">>}

\* Call 3 is over when the behaviour starts: it served the row and the result.
Past(r, s) == [row |-> r, by |-> NoProc, state |-> s, dials |-> 0]

Settled == [status |-> "BUSY", ripe |-> FALSE, uid |-> NoCall]

Idle(modes) ==
  /\ draft = db
  /\ owner = [r \in Row |-> NoProc]
  /\ holder = [j \in JoinedRow |-> NoProc]
  /\ conn = [p \in Proc |-> "ok"]
  /\ busy = [p \in Proc |-> NoThread]
  /\ mode = modes
  /\ pc = [p \in Proc |-> [t \in Thread |-> "idle"]]
  /\ job = [p \in Proc |-> [t \in Thread |-> NoJob]]
  /\ waitlist = [p \in Proc |-> <<>>]

\* Two processes and one open row; the other row has been answered.  The faults
\* are over.
OneOpenRow ==
  /\ db = 1 :> [status |-> "NEW", ripe |-> FALSE, uid |-> NoCall]
        @@ 2 :> [status |-> "ANSWERED", ripe |-> FALSE, uid |-> 3]
        @@ 3 :> Settled
  /\ call = 1 :> NewCall @@ 2 :> NewCall @@ 3 :> Past(2, "ended")
  /\ tracked = [p \in Proc |-> [c \in Call |-> NoRow]]
  /\ inbox = [p \in Proc |-> <<>>]
  /\ Idle([p \in Proc |-> "up"])
  /\ faults = MaxFaults

\* A state two processes reach when calls last longer than ten minutes: each has
\* claimed one row, nobody answered, and each has read the events up to the
\* Hangup of its own call.  Both rows may be claimed again, by either process.
HungUp ==
  /\ db = [r \in Row |-> IF r = 3 THEN Settled
                        ELSE [status |-> "PENDING", ripe |-> TRUE, uid |-> NoCall]]
  /\ call = 1 :> [Past(1, "failed") EXCEPT !.by = p1]
          @@ 2 :> [Past(2, "failed") EXCEPT !.by = p2] @@ 3 :> Past(1, "failed")
  /\ tracked = p1 :> <<1, NoRow, NoRow>> @@ p2 :> <<NoRow, 2, NoRow>>
  /\ inbox = p1 :> <<Ev("Hangup", 1), Ev("DialEndOther", 2), Ev("Hangup", 2)>>
             @@ p2 :> <<Ev("Hangup", 2)>>
  /\ Idle([p \in Proc |-> "up"])
  /\ faults = 0

\* One process; both rows are open, and two calls are left.  The other process has
\* died.  The faults are over.
Alone ==
  /\ db = [r \in Row |-> IF r = 3 THEN Settled
                        ELSE [status |-> "NEW", ripe |-> FALSE, uid |-> NoCall]]
  /\ call = 1 :> NewCall @@ 2 :> NewCall @@ 3 :> Past(2, "failed")
  /\ tracked = [p \in Proc |-> [c \in Call |-> NoRow]]
  /\ inbox = [p \in Proc |-> <<>>]
  /\ Idle(p1 :> "up" @@ p2 :> "down")
  /\ faults = MaxFaults

\* Two processes and three due rows, of which two are of one service: the process
\* that comes second passes row 2 over, locked, and takes row 3.  One call is left.
AllDue ==
  /\ db = [r \in Row |-> [status |-> "NEW", ripe |-> TRUE, uid |-> NoCall]]
  /\ call = 1 :> NewCall @@ 2 :> Past(2, "failed") @@ 3 :> Past(3, "failed")
  /\ tracked = [p \in Proc |-> [c \in Call |-> NoRow]]
  /\ inbox = [p \in Proc |-> <<>>]
  /\ Idle([p \in Proc |-> "up"])
  /\ faults = MaxFaults

ProcessesSpec == (Alone \/ OneOpenRow \/ HungUp \/ AllDue) /\ [][Next]_vars
HungUpFairSpec == HungUp /\ [][Next]_vars /\ Fairness
=============================================================================
