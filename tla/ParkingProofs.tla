---------------------------- MODULE ParkingProofs ----------------------------
(***************************************************************************)
(* What ParkingULine guarantees for every set of calls, every range of     *)
(* slots and every combination of mishaps.                                 *)
(***************************************************************************)
EXTENDS ParkingULine, TLAPS

-----------------------------------------------------------------------------
(* Types *)

LEMMA InitType == Init => TypeOK
BY ParkingAssumption DEF Init, TypeOK, NoVictim, SweepOff, FlushOff

\* A DEL keeps the types of the two families of keys.
LEMMA DeleteType ==
  ASSUME TypeOK, NEW S, NEW U, Delete(S, U)
  PROVE  /\ uline' \in [Slot -> Call \cup {NoCall}]
         /\ uidkey' \in [Call -> Slot \cup {NoSlot}]
         /\ lost' \subseteq Call
BY DEF TypeOK, Delete

\* So does the script, and it answers with a slot or with none.
LEMMA ScriptType ==
  ASSUME TypeOK, NEW c \in Call, NEW n, Script(c, n)
  PROVE  /\ n \in Slot \cup {NoSlot}
         /\ uline' \in [Slot -> Call \cup {NoCall}]
         /\ uidkey' \in [Call -> Slot \cup {NoSlot}]
         /\ lost' \subseteq Call
BY DEF TypeOK, Script, store

LEMMA MishapType ==
  ASSUME TypeOK, NEW k \in Kind, Mishap(k)
  PROVE  mishaps' \in [Kind -> Nat]
BY DEF TypeOK, Mishap

LEMMA NextType == TypeOK /\ [Next]_vars => TypeOK'
<1> SUFFICES ASSUME TypeOK, [Next]_vars
             PROVE  TypeOK'
  OBVIOUS
<1> USE DEF asterisk, store, listener, signs
<1>k. /\ "flush" \in Kind /\ "outage" \in Kind /\ "redis" \in Kind
      /\ "expiry" \in Kind
  BY DEF Kind
<1>1. ASSUME NEW c \in Call, Newchannel(c) PROVE TypeOK'
  BY <1>1 DEF TypeOK, Newchannel
<1>2. ASSUME NEW c \in Call, Hangup(c) PROVE TypeOK'
  BY <1>2 DEF TypeOK, Hangup
<1>3. ASSUME NEW c \in Call, FastAGI(c) PROVE TypeOK'
  <2>1. CASE Ask(c)
    BY <2>1 DEF TypeOK, Ask
  <2>2. CASE Allocate(c)
    <3>1. PICK n \in Slot \cup {NoSlot} : Script(c, n) /\ Tell(c, n)
      BY <2>2 DEF Allocate
    <3>2. line' \in [Call -> Slot \cup {NoSlot}]
      BY <3>1 DEF TypeOK, Tell
    <3> QED
      BY <2>2, <3>1, <3>2, ScriptType DEF TypeOK, Allocate
  <2>3. CASE AllocateFails(c)
    <3>1. line' \in [Call -> Slot \cup {NoSlot}]
      BY <2>3 DEF TypeOK, AllocateFails, Tell
    <3>2. /\ uline' \in [Slot -> Call \cup {NoCall}]
          /\ uidkey' \in [Call -> Slot \cup {NoSlot}]
          /\ lost' \subseteq Call
      <4>1. CASE UNCHANGED store
        BY <4>1 DEF TypeOK
      <4>2. CASE \E n \in Slot : Script(c, n)
        BY <4>2, ScriptType
      <4> QED
        BY <2>3, <4>1, <4>2 DEF AllocateFails
    <3> QED
      BY <2>3, <3>1, <3>2, <1>k, MishapType DEF TypeOK, AllocateFails
  <2>4. CASE AgiClosed(c)
    BY <2>4 DEF TypeOK, AgiClosed
  <2> QED
    BY <1>3, <2>1, <2>2, <2>3, <2>4 DEF FastAGI
<1>4. ASSUME NEW c \in Call, Task(c) PROVE TypeOK'
  <2>1. CASE SetUid(c)
    BY <2>1, <1>k, MishapType DEF TypeOK, SetUid
  <2>2. CASE HangupDeleteUid(c)
    BY <2>2, <1>k, MishapType DEF TypeOK, HangupDeleteUid
  <2>3. CASE HangupGet(c)
    BY <2>3, <1>k, MishapType DEF TypeOK, HangupGet
  <2>4. CASE HangupDelete(c)
    BY <2>4, <1>k, MishapType, DeleteType DEF TypeOK, HangupDelete
  <2> QED
    BY <1>4, <2>1, <2>2, <2>3, <2>4 DEF Task
<1>5. CASE Sweep
  <2>1. CASE SweepBegin
    BY <2>1, ParkingAssumption DEF TypeOK, SweepBegin, SweepOff, NoVictim
  <2>2. CASE SweepRead
    BY <2>2, ParkingAssumption DEF TypeOK, SweepRead, SweepOff, NoVictim
  <2>3. CASE SweepFails
    BY <2>3, <1>k, MishapType DEF TypeOK, SweepFails, SweepOff, NoVictim
  <2>4. ASSUME NEW c \in Call, SweepScan(c) PROVE TypeOK'
    BY <2>4 DEF TypeOK, SweepScan
  <2>5. ASSUME NEW s \in Slot, SweepDelete(s) PROVE TypeOK'
    <3>1. sweep' \in [at : {"off", "scan", "delete"}, todo : SUBSET Call,
                      active : SUBSET Call, victim : [Slot -> Call \cup {NoCall}]]
      BY <2>5 DEF TypeOK, SweepDelete, SweepOff, NoVictim
    <3> QED
      BY <2>5, <3>1, DeleteType DEF TypeOK, SweepDelete
  <2> QED
    BY <1>5, <2>1, <2>2, <2>3, <2>4, <2>5 DEF Sweep
<1>6. CASE Connection
  <2>1. CASE Drop
    BY <2>1, <1>k, MishapType DEF TypeOK, Drop
  <2>2. CASE Die
    BY <2>2, <1>k, MishapType DEF TypeOK, Die
  <2>3. CASE Reconnect
    BY <2>3 DEF TypeOK, Reconnect
  <2>4. CASE ListChannels
    BY <2>4 DEF TypeOK, ListChannels
  <2> QED
    BY <1>6, <2>1, <2>2, <2>3, <2>4 DEF Connection
<1>7. CASE Flush
  <2>1. CASE FlushScanSlots
    BY <2>1, <1>k, MishapType DEF TypeOK, FlushScanSlots
  <2>2. CASE FlushScanUids
    BY <2>2 DEF TypeOK, FlushScanUids
  <2>3. CASE FlushDelete
    BY <2>3, DeleteType DEF TypeOK, FlushDelete, FlushOff
  <2>4. CASE FlushFails
    BY <2>4, <1>k, MishapType DEF TypeOK, FlushFails, FlushOff
  <2> QED
    BY <1>7, <2>1, <2>2, <2>3, <2>4 DEF Flush
<1>8. CASE Expiry
  <2>1. CASE ExpireSentinel
    BY <2>1, <1>k, MishapType DEF TypeOK, ExpireSentinel
  <2>2. ASSUME NEW s \in Slot, ExpireSlot(s) PROVE TypeOK'
    BY <2>2, <1>k, MishapType, DeleteType DEF TypeOK, ExpireSlot
  <2>3. ASSUME NEW c \in Call, ExpireUid(c) PROVE TypeOK'
    BY <2>3, <1>k, MishapType, DeleteType DEF TypeOK, ExpireUid
  <2> QED
    BY <1>8, <2>1, <2>2, <2>3 DEF Expiry
<1>9. CASE UNCHANGED vars
  BY <1>9 DEF TypeOK, vars
<1> QED
  BY <1>1, <1>2, <1>3, <1>4, <1>5, <1>6, <1>7, <1>8, <1>9 DEF Next

\* Every variable keeps its type.
THEOREM TypeCorrect == Spec => []TypeOK
BY InitType, NextType, PTL DEF Spec

-----------------------------------------------------------------------------
(* The sweep and the script share a thread *)

\* While the sweep has something to delete it is running, so the script is not;
\* a victim's slot can only have been emptied since it was read.
SweepInv ==
  /\ sweep.at # "delete" => sweep.victim = NoVictim
  /\ SweepTakesOwnSlot

\* A DEL only empties slots.
LEMMA DeleteEmpties ==
  ASSUME TypeOK, NEW S, NEW U, Delete(S, U), NEW s \in Slot
  PROVE  uline'[s] \in {NoCall, uline[s]}
BY DEF Delete

LEMMA NextSweep == TypeOK /\ SweepInv /\ [Next]_vars => SweepInv'
<1> SUFFICES ASSUME TypeOK, SweepInv, [Next]_vars
             PROVE  SweepInv'
  OBVIOUS
<1> USE DEF asterisk, store, listener, signs
<1> DEFINE Emptier == \A s \in Slot : uline'[s] \in {NoCall, uline[s]}
<1>1. ASSUME UNCHANGED sweep, Emptier PROVE SweepInv'
  BY <1>1 DEF SweepInv, SweepTakesOwnSlot
<1>2. ASSUME UNCHANGED sweep, UNCHANGED uline PROVE SweepInv'
  BY <1>2 DEF SweepInv, SweepTakesOwnSlot
<1>3. ASSUME UNCHANGED sweep, sweep.at = "off" PROVE SweepInv'
  BY <1>3 DEF SweepInv, SweepTakesOwnSlot, NoVictim
<1>4. ASSUME sweep'.victim = NoVictim PROVE SweepInv'
  BY <1>4 DEF SweepInv, SweepTakesOwnSlot, NoVictim
<1>5. ASSUME NEW c \in Call, FastAGI(c) PROVE SweepInv'
  BY <1>2, <1>3, <1>5
     DEF FastAGI, Ask, Allocate, AllocateFails, AgiClosed, ReactorFree
<1>6. ASSUME NEW c \in Call, Newchannel(c) \/ Hangup(c) \/ Task(c) PROVE SweepInv'
  <2>1. CASE HangupDelete(c)
    BY <1>1, <1>2, <2>1, DeleteEmpties DEF HangupDelete
  <2> QED
    BY <1>2, <1>6, <2>1 DEF Newchannel, Hangup, Task, SetUid, HangupDeleteUid, HangupGet
<1>7. CASE Sweep
  <2>1. CASE SweepBegin \/ SweepFails
    <3>1. CASE SweepBegin
      <4>1. sweep' = [at |-> "scan", todo |-> Call, active |-> {}, victim |-> NoVictim]
        BY <3>1 DEF SweepBegin, SweepOff
      <4> QED
        BY <1>4, <4>1
    <3>2. CASE SweepFails
      BY <1>4, <3>2 DEF SweepFails, SweepOff
    <3> QED
      BY <2>1, <3>1, <3>2
  <2>2. CASE SweepRead
    BY <1>4, <2>2 DEF SweepRead, SweepOff, SweepInv, SweepTakesOwnSlot
  <2>3. ASSUME NEW c \in Call, SweepScan(c) PROVE SweepInv'
    <3>1. sweep.victim = NoVictim
      BY <2>3 DEF SweepScan, SweepInv
    <3>2. sweep'.victim = sweep.victim
      BY <2>3 DEF SweepScan, TypeOK
    <3> QED
      BY <1>4, <3>1, <3>2
  <2>4. ASSUME NEW s \in Slot, SweepDelete(s) PROVE SweepInv'
    <3> DEFINE rest == [sweep.victim EXCEPT ![s] = NoCall]
    <3>1. CASE rest = NoVictim
      BY <1>4, <2>4, <3>1 DEF SweepDelete, SweepOff
    <3>2. CASE rest # NoVictim
      <4>1. sweep' = [sweep EXCEPT !.victim = rest]
        BY <2>4, <3>2 DEF SweepDelete
      <4>2. sweep'.at = "delete" /\ sweep'.victim = rest
        BY <2>4, <4>1 DEF SweepDelete, TypeOK
      <4>3. Emptier
        BY <2>4, DeleteEmpties DEF SweepDelete
      <4>4. \A t \in Slot : rest[t] \in {NoCall, sweep.victim[t]}
        BY DEF TypeOK
      <4> HIDE DEF rest
      <4> QED
        BY <4>2, <4>3, <4>4 DEF SweepInv, SweepTakesOwnSlot
    <3> QED
      BY <3>1, <3>2
  <2> QED
    BY <1>7, <2>1, <2>2, <2>3, <2>4 DEF Sweep
<1>8. CASE Connection
  BY <1>2, <1>8 DEF Connection, Drop, Die, Reconnect, ListChannels
<1>9. CASE Flush
  <2>1. CASE FlushDelete
    BY <1>1, <2>1, DeleteEmpties DEF FlushDelete
  <2> QED
    BY <1>2, <1>9, <2>1 DEF Flush, FlushScanSlots, FlushScanUids, FlushFails
<1>10. CASE Expiry
  <2>1. ASSUME NEW s \in Slot, ExpireSlot(s) PROVE SweepInv'
    BY <1>1, <2>1, DeleteEmpties DEF ExpireSlot
  <2>2. ASSUME NEW c \in Call, ExpireUid(c) PROVE SweepInv'
    BY <1>1, <1>2, <2>2, DeleteEmpties DEF ExpireUid
  <2> QED
    BY <1>2, <1>10, <2>1, <2>2 DEF Expiry, ExpireSentinel
<1>11. CASE UNCHANGED vars
  BY <1>2, <1>11 DEF vars
<1> QED
  BY <1>5, <1>6, <1>7, <1>8, <1>9, <1>10, <1>11 DEF Next

LEMMA InitSweep == Init => SweepInv
BY DEF Init, SweepInv, SweepTakesOwnSlot, SweepOff, NoVictim

\* When the sweep deletes a slot, the slot is free or still the call's that was
\* read, whatever the listener, the page and time did meanwhile.
THEOREM SweepHarmsNobodyElse == Spec => []SweepTakesOwnSlot
<1>1. SweepInv => SweepTakesOwnSlot
  BY DEF SweepInv
<1> QED
  BY <1>1, InitType, NextType, InitSweep, NextSweep, PTL DEF Spec

-----------------------------------------------------------------------------
(* A shared number means a stolen slot *)

\* A call that is up and was never robbed has the slot it was told and the slot
\* its parking:uid key names.  The second half is what the script relies on when
\* it answers a repeated request without looking at the slot.
Keeps(c) ==
  chan[c] = "up" /\ c \notin lost =>
    /\ line[c] # NoSlot => uline[line[c]] = c
    /\ uidkey[c] # NoSlot => uline[uidkey[c]] = c

\* A channel that is not up has no variables; one that has not begun, no keys.
Fresh(c) ==
  /\ chan[c] # "up" => line[c] = NoSlot
  /\ chan[c] = "idle" => uidkey[c] = NoSlot /\ agi[c] = "none"

SharedInv == \A c \in Call : Keeps(c) /\ Fresh(c)

LEMMA InitShared == Init => SharedInv
BY DEF Init, SharedInv, Keeps, Fresh

\* A DEL robs whoever it takes a slot from, so the others keep theirs.
LEMMA DeleteKeeps ==
  ASSUME TypeOK, SharedInv, NEW S, NEW U, Delete(S, U), UNCHANGED <<chan, line, agi>>
  PROVE  SharedInv'
<1> SUFFICES ASSUME NEW c \in Call PROVE Keeps(c)' /\ Fresh(c)'
  BY DEF SharedInv
<1>1. Keeps(c) /\ Fresh(c)
  BY DEF SharedInv
<1>2. Fresh(c)'
  BY <1>1 DEF Fresh, Delete, TypeOK
<1>3. ASSUME chan[c] = "up", c \notin lost', NEW s \in Slot, uline[s] = c
      PROVE  uline'[s] = c
  BY <1>3 DEF Delete
<1>4. line[c] # NoSlot => line[c] \in Slot
  BY DEF TypeOK
<1>5. /\ uidkey[c] # NoSlot => uidkey[c] \in Slot
      /\ uidkey'[c] # NoSlot => uidkey'[c] = uidkey[c]
  BY DEF TypeOK, Delete
<1>6. c \notin lost' => c \notin lost
  BY DEF Delete
<1> QED
  BY <1>1, <1>2, <1>3, <1>4, <1>5, <1>6 DEF Keeps

\* The script leaves every other call its slot, and the caller ends up with the
\* one it is told.
LEMMA ScriptKeeps ==
  ASSUME TypeOK, SharedInv, NEW c \in Call, NEW n, Script(c, n)
  PROVE  /\ lost' = lost
         /\ \A d \in Call \ {c} : uidkey'[d] = uidkey[d]
         /\ \A s \in Slot : uline[s] # NoCall => uline'[s] = uline[s]
         /\ uidkey'[c] = n
         /\ uidkey[c] # NoSlot => UNCHANGED <<uline, uidkey>>
         /\ uidkey[c] = NoSlot /\ n # NoSlot => n \in Slot /\ uline'[n] = c
BY DEF TypeOK, Script, store, FirstFree

LEMMA ScriptShared ==
  ASSUME TypeOK, SharedInv, NEW c \in Call, NEW n, Script(c, n), agi[c] = "asked",
         UNCHANGED chan, agi' = [agi EXCEPT ![c] = "none"],
         NEW m \in {n, NoSlot}, Tell(c, m)
  PROVE  SharedInv'
<1> SUFFICES ASSUME NEW d \in Call PROVE Keeps(d)' /\ Fresh(d)'
  BY DEF SharedInv
<1>1. Keeps(d) /\ Fresh(d)
  BY DEF SharedInv
<1>2. CASE d # c
  <2>1. line'[d] = line[d] /\ uidkey'[d] = uidkey[d] /\ agi'[d] = agi[d] /\ lost' = lost
    BY <1>2, ScriptKeeps DEF Tell, TypeOK
  <2>2. \A s \in Slot : uline[s] = d => uline'[s] = d
    BY ScriptKeeps, ParkingAssumption
  <2>3. line[d] \in Slot \cup {NoSlot} /\ uidkey[d] \in Slot \cup {NoSlot}
    BY DEF TypeOK
  <2> QED
    BY <1>1, <2>1, <2>2, <2>3 DEF Keeps, Fresh
<1>3. CASE d = c
  <2>1. chan[c] # "idle"
    BY <1>1, <1>3 DEF Fresh
  <2>2. Fresh(c)'
    BY <1>1, <1>3, <2>1 DEF Fresh, Tell
  <2>3. ASSUME chan[c] = "up", c \notin lost, n # NoSlot PROVE uline'[n] = c
    <3>1. CASE uidkey[c] = NoSlot
      BY <2>3, <3>1, ScriptKeeps
    <3>2. CASE uidkey[c] # NoSlot
      BY <1>1, <1>3, <2>3, <3>2, ScriptKeeps DEF Keeps
    <3> QED
      BY <3>1, <3>2
  <2>4. uidkey'[c] = n /\ lost' = lost
    BY ScriptKeeps
  <2>5. chan[c] = "up" => line'[c] = m
    BY DEF Tell, TypeOK
  <2> QED
    BY <1>3, <2>2, <2>3, <2>4, <2>5 DEF Keeps
<1> QED
  BY <1>2, <1>3

LEMMA NextShared == TypeOK /\ SharedInv /\ [Next]_vars => SharedInv'
<1> SUFFICES ASSUME TypeOK, SharedInv, [Next]_vars
             PROVE  SharedInv'
  OBVIOUS
<1> USE DEF asterisk, store, listener, signs
<1>1. ASSUME UNCHANGED <<asterisk, agi, store>> PROVE SharedInv'
  BY <1>1 DEF SharedInv, Keeps, Fresh
<1>2. ASSUME NEW c \in Call, Newchannel(c) PROVE SharedInv'
  BY <1>2 DEF Newchannel, SharedInv, Keeps, Fresh, TypeOK
<1>3. ASSUME NEW c \in Call, Hangup(c) PROVE SharedInv'
  BY <1>3 DEF Hangup, SharedInv, Keeps, Fresh, TypeOK
<1>4. ASSUME NEW c \in Call, FastAGI(c) PROVE SharedInv'
  <2>1. CASE Ask(c)
    BY <2>1 DEF Ask, SharedInv, Keeps, Fresh, TypeOK
  <2>2. CASE Allocate(c)
    <3>1. PICK n \in Slot \cup {NoSlot} : Script(c, n) /\ Tell(c, n)
      BY <2>2 DEF Allocate
    <3> QED
      BY <2>2, <3>1, ScriptShared DEF Allocate
  <2>3. CASE AllocateFails(c)
    <3>1. CASE UNCHANGED store
      BY <2>3, <3>1 DEF AllocateFails, Tell, SharedInv, Keeps, Fresh, TypeOK
    <3>2. CASE \E n \in Slot : Script(c, n)
      BY <2>3, <3>2, ScriptShared DEF AllocateFails
    <3> QED
      BY <2>3, <3>1, <3>2 DEF AllocateFails
  <2>4. CASE AgiClosed(c)
    BY <2>4 DEF AgiClosed, SharedInv, Keeps, Fresh, TypeOK
  <2> QED
    BY <1>4, <2>1, <2>2, <2>3, <2>4 DEF FastAGI
<1>5. ASSUME NEW c \in Call, Task(c) PROVE SharedInv'
  <2>1. CASE HangupDelete(c)
    BY <1>1, <2>1, DeleteKeeps DEF HangupDelete
  <2> QED
    BY <1>1, <1>5, <2>1 DEF Task, SetUid, HangupDeleteUid, HangupGet
<1>6. CASE Sweep
  <2>1. ASSUME NEW s \in Slot, SweepDelete(s) PROVE SharedInv'
    BY <2>1, DeleteKeeps DEF SweepDelete
  <2> QED
    BY <1>1, <1>6, <2>1 DEF Sweep, SweepBegin, SweepRead, SweepFails, SweepScan
<1>7. CASE Connection
  BY <1>1, <1>7 DEF Connection, Drop, Die, Reconnect, ListChannels
<1>8. CASE Flush
  <2>1. CASE FlushDelete
    BY <2>1, DeleteKeeps DEF FlushDelete
  <2> QED
    BY <1>1, <1>8, <2>1 DEF Flush, FlushScanSlots, FlushScanUids, FlushFails
<1>9. CASE Expiry
  <2>1. ASSUME NEW s \in Slot, ExpireSlot(s) PROVE SharedInv'
    BY <2>1, DeleteKeeps DEF ExpireSlot
  <2>2. ASSUME NEW c \in Call, ExpireUid(c) PROVE SharedInv'
    BY <1>1, <2>2, DeleteKeeps DEF ExpireUid
  <2> QED
    BY <1>1, <1>9, <2>1, <2>2 DEF Expiry, ExpireSentinel
<1>10. CASE UNCHANGED vars
  BY <1>1, <1>10 DEF vars
<1> QED
  BY <1>2, <1>3, <1>4, <1>5, <1>6, <1>7, <1>8, <1>9, <1>10 DEF Next

\* No two calls are told the same number unless the slot of one of them was
\* deleted while it was up.
THEOREM OnlyLossSharesSlots == Spec => []SharedOnlyIfLost
<1>1. TypeOK /\ SharedInv => SharedOnlyIfLost
  BY DEF SharedInv, Keeps, Fresh, SharedOnlyIfLost, TypeOK
<1> QED
  BY <1>1, InitType, NextType, InitShared, NextShared, PTL DEF Spec

-----------------------------------------------------------------------------
(* One slot per call *)

\* The script looks for a call's slot under parking:uid only.  So a held slot
\* must be found there, or its owner must be unable to ask again.
Indexed(s) ==
  LET c == uline[s]
  IN  c # NoCall => uidkey[c] = s \/ (chan[c] = "gone" /\ agi[c] = "none")

\* A hangup task deletes parking:uid together with the slot it read before: as
\* long as the call may still ask, the key names that slot or is gone.
HangupFits(c) ==
  /\ hang[c] # "none" => chan[c] = "gone"
  /\ hang[c] = "del" /\ agi[c] = "asked" => uidkey[c] \in {got[c], NoSlot}

\* The sweep deletes parking:uid together with a slot of the same call: no other.
VictimFits(s) ==
  sweep.victim[s] # NoCall =>
    \A t \in Slot : uline[t] = sweep.victim[s] => t = s

NoFlush == mishaps["flush"] = 0

OneInv ==
  NoFlush =>
    /\ flush.at = "off"
    /\ \A s, t \in Slot : uline[s] # NoCall /\ uline[s] = uline[t] => s = t
    /\ \A s \in Slot : Indexed(s) /\ VictimFits(s)
    /\ \A c \in Call : HangupFits(c)

LEMMA InitOne == Init => OneInv
BY DEF Init, OneInv, Indexed, VictimFits, HangupFits, NoVictim, SweepOff, FlushOff

\* No step makes a flush unhappen.
LEMMA FlushesStay == TypeOK /\ [Next]_vars /\ NoFlush' => NoFlush
<1> SUFFICES ASSUME TypeOK, [Next]_vars, mishaps' = mishaps \/ \E k \in Kind : Mishap(k)
             PROVE  NoFlush' => NoFlush
  BY DEF Next, vars, FastAGI, Task, Sweep, Connection, Flush, Expiry,
         Newchannel, Hangup, Ask, Allocate, AllocateFails, AgiClosed,
         SweepBegin, SweepScan, SweepRead, SweepDelete, SweepFails,
         SetUid, HangupDeleteUid, HangupGet, HangupDelete,
         Drop, Die, Reconnect, ListChannels,
         FlushScanSlots, FlushScanUids, FlushDelete, FlushFails,
         ExpireSlot, ExpireUid, ExpireSentinel, Kind
<1>1. CASE mishaps' = mishaps
  BY <1>1 DEF NoFlush
<1>2. ASSUME NEW k \in Kind, Mishap(k) PROVE NoFlush' => NoFlush
  BY <1>2 DEF Mishap, NoFlush, TypeOK, Kind
<1> QED
  BY <1>1, <1>2

\* A DEL keeps the invariant if it leaves no slot of a call whose key it deletes.
LEMMA DeleteOne ==
  ASSUME TypeOK, OneInv, NoFlush, NEW S, NEW U, Delete(S, U), flush' = flush,
         UNCHANGED <<chan, agi>>,
         \A c \in Call : hang'[c] # "none" => hang'[c] = hang[c] /\ got'[c] = got[c],
         \A s \in Slot : sweep'.victim[s] \in {NoCall, sweep.victim[s]},
         \A s \in Slot : uline[s] # NoCall /\ uline[s] \in U /\ s \notin S =>
                          chan[uline[s]] = "gone" /\ agi[uline[s]] = "none"
  PROVE  OneInv'
<1> SUFFICES /\ flush'.at = "off"
             /\ \A s, t \in Slot : uline'[s] # NoCall /\ uline'[s] = uline'[t] => s = t
             /\ \A s \in Slot : Indexed(s)' /\ VictimFits(s)'
             /\ \A c \in Call : HangupFits(c)'
  BY DEF OneInv
<1>1. \A s \in Slot : uline'[s] # NoCall => uline'[s] = uline[s] /\ s \notin S
  BY DEF Delete
<1>2. ASSUME NEW s \in Slot PROVE Indexed(s)'
  <2>1. CASE uline'[s] = NoCall
    BY <2>1 DEF Indexed
  <2>2. CASE uline'[s] # NoCall
    <3>1. uline'[s] = uline[s] /\ s \notin S /\ uline[s] \in Call
      BY <1>1, <2>2 DEF TypeOK
    <3>2. Indexed(s)
      BY DEF OneInv
    <3>3. uline[s] \notin U => uidkey'[uline[s]] = uidkey[uline[s]]
      BY <3>1 DEF Delete
    <3> QED
      BY <2>2, <3>1, <3>2, <3>3 DEF Indexed
  <2> QED
    BY <2>1, <2>2
<1>3. ASSUME NEW s \in Slot PROVE VictimFits(s)'
  <2>1. VictimFits(s)
    BY DEF OneInv
  <2> QED
    BY <1>1, <2>1 DEF VictimFits
<1>4. ASSUME NEW c \in Call PROVE HangupFits(c)'
  <2>1. HangupFits(c)
    BY DEF OneInv
  <2>2. uidkey'[c] \in {uidkey[c], NoSlot}
    BY DEF Delete
  <2> QED
    BY <2>1, <2>2 DEF HangupFits
<1>5. \A s, t \in Slot : uline'[s] # NoCall /\ uline'[s] = uline'[t] => s = t
  BY <1>1 DEF OneInv
<1> QED
  BY <1>2, <1>3, <1>4, <1>5 DEF OneInv

\* The script gives a slot only to a call that has none.
LEMMA ScriptOne ==
  ASSUME TypeOK, OneInv, SweepInv, NoFlush, NEW c \in Call, NEW n, Script(c, n),
         agi[c] = "asked", ReactorFree, agi' = [agi EXCEPT ![c] = "none"],
         UNCHANGED <<chan, hang, got, sweep, flush>>
  PROVE  OneInv'
<1>1. \A s \in Slot : VictimFits(s)'
  BY DEF VictimFits, ReactorFree, SweepInv, NoVictim
<1>2. \A d \in Call : agi'[d] # "none" => d # c /\ agi[d] = agi'[d]
  BY DEF TypeOK
<1>3. ASSUME UNCHANGED <<uline, uidkey>> PROVE OneInv'
  <2>1. \A s \in Slot : Indexed(s)'
    <3> TAKE s \in Slot
    <3>1. Indexed(s) /\ uline[s] \in Call \cup {NoCall}
      BY DEF OneInv, TypeOK
    <3> QED
      BY <1>2, <1>3, <3>1 DEF Indexed, TypeOK
  <2>2. \A d \in Call : HangupFits(d)'
    BY <1>2, <1>3 DEF OneInv, HangupFits
  <2> QED
    BY <1>1, <1>3, <2>1, <2>2 DEF OneInv
<1>4. ASSUME uidkey[c] = NoSlot, n \in Slot, uline[n] = NoCall,
             uline' = [uline EXCEPT ![n] = c], uidkey' = [uidkey EXCEPT ![c] = n]
      PROVE  OneInv'
  <2>1. \A s \in Slot : uline[s] # c
    <3> TAKE s \in Slot
    <3>1. Indexed(s)
      BY DEF OneInv
    <3>2. c # NoCall /\ s # NoSlot
      BY ParkingAssumption DEF Slot, NoSlot
    <3> QED
      BY <1>4, <3>1, <3>2 DEF Indexed
  <2>2. \A s \in Slot : uline'[s] = IF s = n THEN c ELSE uline[s]
    BY <1>4 DEF TypeOK
  <2>3. \A d \in Call : uidkey'[d] = IF d = c THEN n ELSE uidkey[d]
    BY <1>4 DEF TypeOK
  <2>4. \A s, t \in Slot : uline'[s] # NoCall /\ uline'[s] = uline'[t] => s = t
    BY <2>1, <2>2 DEF OneInv
  <2>5. \A s \in Slot : Indexed(s)'
    <3> TAKE s \in Slot
    <3>1. Indexed(s) /\ uline[s] \in Call \cup {NoCall}
      BY DEF OneInv, TypeOK
    <3>2. CASE s = n
      BY <2>2, <2>3, <3>2 DEF Indexed
    <3>3. CASE s # n
      <4>1. uline'[s] = uline[s] /\ uline[s] # c
        BY <2>1, <2>2, <3>3
      <4> QED
        BY <2>3, <3>1, <4>1 DEF Indexed, TypeOK
    <3> QED
      BY <3>2, <3>3
  <2>6. \A d \in Call : HangupFits(d)'
    BY <1>2, <2>3 DEF OneInv, HangupFits
  <2> QED
    BY <1>1, <2>4, <2>5, <2>6 DEF OneInv
<1> QED
  BY <1>3, <1>4 DEF Script, store, FirstFree

LEMMA NextOne == TypeOK /\ SweepInv /\ OneInv /\ [Next]_vars => OneInv'
<1> SUFFICES ASSUME TypeOK, SweepInv, OneInv, [Next]_vars, NoFlush'
             PROVE  OneInv'
  BY DEF OneInv
<1> USE DEF asterisk, store, listener, signs
<1>n. NoFlush
  BY FlushesStay
<1>o. /\ flush.at = "off"
      /\ \A s, t \in Slot : uline[s] # NoCall /\ uline[s] = uline[t] => s = t
      /\ \A s \in Slot : Indexed(s) /\ VictimFits(s)
      /\ \A c \in Call : HangupFits(c)
  BY <1>n DEF OneInv
<1>1. ASSUME UNCHANGED <<asterisk, agi, store, hang, got, sweep, flush>> PROVE OneInv'
  BY <1>1, <1>n DEF OneInv, NoFlush, Indexed, VictimFits, HangupFits
<1>2. ASSUME NEW c \in Call, Newchannel(c) PROVE OneInv'
  BY <1>2, <1>o DEF Newchannel, OneInv, Indexed, VictimFits, HangupFits, TypeOK
<1>3. ASSUME NEW c \in Call, Hangup(c) PROVE OneInv'
  <2>1. \A d \in Call : chan[d] = "gone" => chan'[d] = "gone"
    BY <1>3 DEF Hangup, TypeOK
  <2>2. \A s \in Slot : Indexed(s)' /\ VictimFits(s)'
    BY <1>3, <1>o, <2>1 DEF Hangup, Indexed, VictimFits, TypeOK
  <2>3. \A d \in Call : HangupFits(d)'
    BY <1>3, <1>o DEF Hangup, HangupFits, TypeOK
  <2> QED
    BY <1>3, <1>o, <2>2, <2>3 DEF Hangup, OneInv
<1>4. ASSUME NEW c \in Call, FastAGI(c) PROVE OneInv'
  <2>1. CASE Ask(c)
    <3>1. \A d \in Call : d # c => agi'[d] = agi[d]
      BY <2>1 DEF Ask, TypeOK
    <3>2. \A s \in Slot : Indexed(s)'
      BY <2>1, <3>1, <1>o DEF Ask, Indexed, TypeOK
    <3> QED
      BY <2>1, <3>1, <3>2, <1>o DEF Ask, OneInv, VictimFits, HangupFits
  <2>2. CASE Allocate(c)
    <3>1. PICK n \in Slot \cup {NoSlot} : Script(c, n)
      BY <2>2 DEF Allocate
    <3> QED
      BY <2>2, <3>1, <1>n, ScriptOne DEF Allocate
  <2>3. CASE UNCHANGED store /\ (AllocateFails(c) \/ AgiClosed(c))
    <3>1. \A d \in Call : agi'[d] = agi[d] \/ agi'[d] = "none"
      BY <2>3 DEF AllocateFails, AgiClosed, TypeOK
    <3>2. \A s \in Slot : Indexed(s)'
      BY <2>3, <3>1, <1>o DEF AllocateFails, AgiClosed, Indexed, TypeOK
    <3>3. \A d \in Call : HangupFits(d)'
      BY <2>3, <3>1, <1>o DEF AllocateFails, AgiClosed, HangupFits
    <3> QED
      BY <2>3, <3>2, <3>3, <1>o DEF AllocateFails, AgiClosed, OneInv, VictimFits
  <2>4. CASE AllocateFails(c) /\ \E n \in Slot : Script(c, n)
    BY <2>4, <1>n, ScriptOne DEF AllocateFails
  <2> QED
    BY <1>4, <2>1, <2>2, <2>3, <2>4 DEF FastAGI, AllocateFails, AgiClosed
<1>5. ASSUME NEW c \in Call, Task(c) PROVE OneInv'
  <2>1. CASE SetUid(c)
    BY <1>1, <2>1 DEF SetUid
  <2>2. CASE HangupDeleteUid(c)
    BY <2>2, <1>o DEF HangupDeleteUid, OneInv, Indexed, VictimFits, HangupFits, TypeOK
  <2>3. CASE HangupGet(c)
    <3>1. \A d \in Call : HangupFits(d)'
      BY <2>3, <1>o DEF HangupGet, HangupFits, TypeOK
    <3> QED
      BY <2>3, <3>1, <1>o DEF HangupGet, OneInv, Indexed, VictimFits
  <2>4. CASE HangupDelete(c)
    <3>1. \A d \in Call : hang'[d] # "none" => hang'[d] = hang[d] /\ got'[d] = got[d]
      BY <2>4 DEF HangupDelete, TypeOK
    <3>2. CASE UNCHANGED store
      <4>1. \A d \in Call : HangupFits(d)'
        BY <2>4, <3>1, <3>2, <1>o DEF HangupDelete, HangupFits
      <4> QED
        BY <2>4, <3>2, <4>1, <1>o DEF HangupDelete, OneInv, Indexed, VictimFits
    <3>3. CASE Delete({got[c]}, {c})
      <4>1. ASSUME NEW s \in Slot, uline[s] = c, s # got[c]
            PROVE  chan[c] = "gone" /\ agi[c] = "none"
        <5>1. Indexed(s) /\ HangupFits(c) /\ s # NoSlot
          BY <1>o, ParkingAssumption DEF Slot, NoSlot
        <5>2. c # NoCall
          BY ParkingAssumption
        <5> QED
          BY <2>4, <4>1, <5>1, <5>2 DEF Indexed, HangupFits, HangupDelete, TypeOK
      <4> QED
        BY <2>4, <3>1, <3>3, <4>1, <1>n, DeleteOne DEF HangupDelete
    <3> QED
      BY <2>4, <3>2, <3>3 DEF HangupDelete
  <2> QED
    BY <1>5, <2>1, <2>2, <2>3, <2>4 DEF Task
<1>6. CASE Sweep
  <2>0. ASSUME sweep'.victim = NoVictim, UNCHANGED <<asterisk, agi, store, hang, got, flush>>
        PROVE  OneInv'
    BY <2>0, <1>o DEF OneInv, Indexed, VictimFits, HangupFits, NoVictim
  <2>1. CASE SweepBegin \/ SweepFails
    <3>1. CASE SweepBegin
      <4>1. sweep' = [at |-> "scan", todo |-> Call, active |-> {}, victim |-> NoVictim]
        BY <3>1 DEF SweepBegin, SweepOff
      <4>2. sweep'.victim = NoVictim
        BY <4>1
      <4> QED
        BY <2>0, <3>1, <4>2 DEF SweepBegin
    <3>2. CASE SweepFails
      BY <2>0, <3>2 DEF SweepFails, SweepOff
    <3> QED
      BY <2>1, <3>1, <3>2
  <2>2. CASE SweepRead
    <3>1. \A s \in Slot : sweep'.victim[s] # NoCall => sweep'.victim[s] = uline[s]
      BY <2>2 DEF SweepRead, SweepOff, NoVictim
    <3>2. \A s \in Slot : VictimFits(s)'
      BY <2>2, <3>1, <1>o DEF SweepRead, VictimFits
    <3> QED
      BY <2>2, <3>2, <1>o DEF SweepRead, OneInv, Indexed, HangupFits
  <2>3. ASSUME NEW c \in Call, SweepScan(c) PROVE OneInv'
    <3>1. sweep'.victim = NoVictim
      BY <2>3 DEF SweepScan, SweepInv, TypeOK
    <3> QED
      BY <2>0, <2>3, <3>1 DEF SweepScan
  <2>4. ASSUME NEW s \in Slot, SweepDelete(s) PROVE OneInv'
    <3>1. \A t \in Slot : sweep'.victim[t] \in {NoCall, sweep.victim[t]}
      BY <2>4 DEF SweepDelete, SweepOff, NoVictim, TypeOK
    <3>2. \A t \in Slot : uline[t] = sweep.victim[s] => t = s
      BY <2>4, <1>o DEF SweepDelete, VictimFits
    <3> QED
      BY <2>4, <3>1, <3>2, <1>n, DeleteOne DEF SweepDelete
  <2> QED
    BY <1>6, <2>1, <2>2, <2>3, <2>4 DEF Sweep
<1>7. CASE Connection
  <2>1. CASE Die
    BY <2>1, <1>o DEF Die, OneInv, Indexed, VictimFits, HangupFits
  <2> QED
    BY <1>1, <1>7, <2>1 DEF Connection, Drop, Reconnect, ListChannels
<1>8. CASE Flush
  <2>1. CASE FlushScanSlots
    BY <2>1, <1>n DEF FlushScanSlots, Mishap, NoFlush, TypeOK, Kind
  <2> QED
    BY <1>8, <1>o, <2>1 DEF Flush, FlushScanUids, FlushDelete, FlushFails
<1>9. CASE Expiry
  <2>1. ASSUME NEW s \in Slot, ExpireSlot(s) PROVE OneInv'
    <3>1. \A t \in Slot : uline[t] # NoCall /\ uline[t] = uline[s] => t = s
      BY <1>o
    <3> QED
      BY <2>1, <3>1, <1>n, DeleteOne DEF ExpireSlot
  <2>2. ASSUME NEW c \in Call, ExpireUid(c) PROVE OneInv'
    <3>1. CASE UNCHANGED store
      BY <1>1, <2>2, <3>1 DEF ExpireUid
    <3>2. CASE uidkey[c] # NoSlot /\ uline[uidkey[c]] # c /\ Delete({}, {c})
      <4>1. ASSUME NEW s \in Slot, uline[s] = c PROVE chan[c] = "gone" /\ agi[c] = "none"
        BY <3>2, <4>1, <1>o, ParkingAssumption DEF Indexed
      <4> QED
        BY <2>2, <3>2, <4>1, <1>n, DeleteOne DEF ExpireUid
    <3> QED
      BY <2>2, <3>1, <3>2 DEF ExpireUid
  <2> QED
    BY <1>1, <1>9, <2>1, <2>2 DEF Expiry, ExpireSentinel
<1>10. CASE UNCHANGED vars
  BY <1>1, <1>10 DEF vars
<1> QED
  BY <1>2, <1>3, <1>4, <1>5, <1>6, <1>7, <1>8, <1>9, <1>10 DEF Next

\* A call never holds two slots, unless the page's flush interfered.
THEOREM OneSlot == Spec => []OneSlotPerCall
<1>1. OneInv => OneSlotPerCall
  BY DEF OneInv, NoFlush, OneSlotPerCall
<1> QED
  BY <1>1, InitType, NextType, InitSweep, NextSweep, InitOne, NextOne, PTL DEF Spec

=============================================================================
