--------------------------- MODULE ConfigProofs ---------------------------
(***************************************************************************)
(* Proofs about the files of Asterisk and of the telephones, about the rows*)
(* behind them and about what writes them: ApplyChanges (the applies, their*)
(* rows and their versions), SipConfig (the rows behind pjsip.conf),       *)
(* DialplanGuards (those behind extensions.ael), QueueConfig (those behind *)
(* queues.conf, queuerules.conf and app_queue), Provisioning (the files of *)
(* the telephones), Media (music and sounds), WebhookSync (the listener's  *)
(* webhooks).  Each has an inductive invariant, for any sets of rows, names*)
(* and users and any number of changes: it holds initially, each step keeps*)
(* it, and it says that the files and the rows fit.                        *)
(***************************************************************************)
EXTENDS ApplyChanges, SipConfig, DialplanGuards, QueueConfig, Provisioning, Media,
  WebhookSync, Integers, FiniteSetTheorems, WellFoundedInduction, TLAPS

-----------------------------------------------------------------------------
(* The inductive invariant, in parts. *)

Uncommitted == {i \in DOMAIN files : files[i].by # NoApply}

\* unique_together of the table.
KeysUnique == \A i, j \in DOMAIN files :
  files[i].name = files[j].name /\ files[i].version = files[j].version => i = j

\* What an apply has in memory belongs to the stage that it is at.
StagesKept == \A p \in Apply :
  /\ job[p].chosen \subseteq 1 .. lastId
  /\ job[p].at \in {"idle", "read"} => job[p].chosen = {}
  /\ job[p].at # "version" \/ job[p].todo = {} => job[p].version = 0
  /\ job[p].at # "write" => job[p].write = {}
  /\ job[p].at = "write" => job[p].todo = {}
  /\ job[p].at = "version" => \A f \in job[p].todo : job[p].plan[f] # None
  /\ job[p].stored => job[p].at \in {"reload", "done", "failed"}

\* A row that is not committed is one that its apply has chosen, of a file it is
\* through with.
RowsOwned == \A i \in Uncommitted :
  LET p == files[i].by
  IN  /\ job[p].at \in {"version", "write"}
      /\ i \in job[p].chosen
      /\ files[i].name = BaseName[files[i].path]
      /\ \A g \in job[p].todo : job[p].at = "version" => PathOrder[files[i].path] < PathOrder[g]

\* An apply sees what it has chosen.
ChosenSeen == \A p \in Apply :
  job[p].at \in {"version", "write"} =>
    \A i \in job[p].chosen \cap DOMAIN files : files[i].by \in {NoApply, p}

\* The rows of one apply are of different files.
OneRowPerFile == \A i, j \in Uncommitted :
  files[i].by = files[j].by /\ files[i].path = files[j].path => i = j

\* Version v is the next one of path f.
IsNext(f, v) ==
  /\ \A j \in OfPath(Committed, f) : files[j].version < v
  /\ \/ v = 1
     \/ \E j \in OfPath(Committed, f) : files[j].version + 1 = v

NewIsNext == \A i \in Uncommitted : IsNext(files[i].path, files[i].version)

\* A version that is due is the next one of its path, or taken by now.
DueIsNext == \A p \in Apply : \A f \in Inserts(p) :
  /\ \/ job[p].version = 1
     \/ \E j \in OfPath(Committed, f) : files[j].version + 1 = job[p].version
  /\ \/ \A j \in OfPath(Committed, f) : files[j].version < job[p].version
     \/ \E j \in OfPath(Committed, f) :
          files[j].name = BaseName[f] /\ files[j].version = job[p].version

NewTogether == \A i, j \in Uncommitted : files[i].path = files[j].path => i = j

ChosenStored == \A p \in Apply :
  job[p].at \in {"version", "write"} => job[p].chosen \subseteq DOMAIN files

\* As long as staff saves nothing during an apply, that holds, and no two applies have a
\* new version of one file.
VersionsNext == "save" \notin mixed => ChosenStored /\ NewTogether /\ NewIsNext /\ DueIsNext

OneInSection == \A p, q \in Apply : InSection(p) /\ InSection(q) => p = q

DueIsNew == \A p \in Apply : \A f \in Inserts(p) : \A i \in OfPath(Sees(p), f) :
  files[i].version < job[p].version

\* Alone, an apply is about to insert what is new.
AloneInserts == {"apply", "save"} \cap mixed = {} => OneInSection /\ DueIsNew

\* An apply has chosen a row of each file that it is through with, with its content.
PlanChosen(p) ==
  /\ job[p].chosen \subseteq DOMAIN files
  /\ \A f \in Path : job[p].plan[f] # None =>
       f \in job[p].todo \/ \E i \in job[p].chosen : files[i].path = f
  /\ \A i \in job[p].chosen :
       files[i].path \notin job[p].todo /\ files[i].content = job[p].plan[files[i].path]
  /\ \A i, j \in job[p].chosen : files[i].path = files[j].path => i = j

\* It has written their contents, but for those to be written, over what was applied.
PlanWritten(p) == \A f \in Path :
  disk[f] = IF job[p].plan[f] = None \/ \E row \in job[p].write : row.path = f
            THEN applied[f] ELSE job[p].plan[f]

\* An apply that nothing disturbs writes its plan.
WritesPlan == mixed = {} =>
  /\ \A p \in Apply : job[p].at \in {"version", "write"} => PlanChosen(p)
  /\ \A p \in Apply : job[p].write \subseteq RowsOf(job[p].chosen)
  /\ (\A p \in Apply : job[p].at # "write") => disk = applied
  /\ \A p \in Apply : job[p].at = "write" => PlanWritten(p)

\* Asterisk has read what was applied, unless a reload is still to come or failed.
LoadsApplied ==
  mixed = {} /\ (\A p \in Apply : job[p].stored => job[p].at = "done") => loaded = applied

ApplyInv ==
  /\ ApplyTypeOK /\ KeysUnique /\ StagesKept /\ RowsOwned /\ ChosenSeen /\ OneRowPerFile
  /\ VersionsNext /\ AloneInserts /\ WritesPlan /\ LoadsApplied /\ LockKept

-----------------------------------------------------------------------------
(* Numbers and rows. *)

LEMMA LeastNat ==
  ASSUME NEW S, S \subseteq Nat, S # {}
  PROVE  \E x \in S : \A y \in S : x <= y
<1> DEFINE below == {ss \in Nat \X Nat : ss[1] < ss[2]}
<1>1. IsWellFoundedOn(below, Nat)
  BY NatLessThanWellFounded DEF OpToRel
<1>2. PICK x \in S : \A y \in S : ~ (<<y, x>> \in below)
  BY <1>1, WFMin
<1>3. \A y \in S : ~ (y < x)
  BY <1>2
<1> QED BY <1>3

LEMMA MinIn ==
  ASSUME NEW S, S \subseteq Nat, S # {}
  PROVE  Min(S) \in S /\ \A y \in S : Min(S) <= y
BY LeastNat DEF Min

\* Rows have a newest one among them.
LEMMA NewestExists ==
  ASSUME ApplyTypeOK, NEW ids, ids \subseteq DOMAIN files, ids # {}
  PROVE  Newest(ids) # {}
<1> DEFINE v(i) == files[i].version
<1> DEFINE Open == {k \in Nat : ~ \E n \in Nat : \A i \in ids : i <= k => v(i) <= n}
<1> DEFINE Bound == {n \in Nat : \A i \in ids : v(i) <= n}
<1>1. lastId \in Nat /\ \A i \in ids : i \in Nat /\ i <= lastId /\ i >= 1 /\ v(i) \in Nat /\ v(i) > 0
  BY DEF ApplyTypeOK, Row
<1>2. Open = {}
  <2> SUFFICES ASSUME Open # {} PROVE FALSE
    OBVIOUS
  <2>1. PICK m \in Open : \A k \in Open : m <= k
    <3>1. Open \subseteq Nat
      OBVIOUS
    <3> HIDE DEF Open
    <3> QED BY <3>1, LeastNat
  <2>2. m # 0
    BY <1>1
  <2>3. m - 1 \in Nat /\ m - 1 \notin Open
    BY <2>1, <2>2
  <2>4. PICK n \in Nat : \A i \in ids : i <= m - 1 => v(i) <= n
    BY <2>3
  <2>7. m \in Nat /\ \A i \in ids : i <= m => i = m \/ i <= m - 1
    <3>1. m \in Nat
      BY <2>1
    <3>2. \A i \in ids : i \in Nat
      BY <1>1
    <3> HIDE DEF Open
    <3> QED BY <3>1, <3>2
  <2>5. CASE m \in ids /\ v(m) > n
    <3>1. \A i \in ids : i <= m => v(i) <= v(m)
      <4> HIDE DEF Open
      <4> QED BY <2>4, <2>5, <1>1, <2>7
    <3> QED BY <3>1, <2>1, <2>5, <1>1
  <2>6. CASE ~ (m \in ids /\ v(m) > n)
    <3>1. \A i \in ids : i <= m => v(i) <= n
      <4> HIDE DEF Open
      <4> QED BY <2>4, <2>6, <1>1, <2>7
    <3> QED BY <3>1, <2>1
  <2> QED BY <2>5, <2>6
<1>3. Bound # {}
  <2>1. PICK n \in Nat : \A i \in ids : i <= lastId => v(i) <= n
    BY <1>1, <1>2
  <2> QED BY <2>1, <1>1
<1>4. PICK n \in Bound : \A k \in Bound : n <= k
  <2>1. Bound \subseteq Nat
    OBVIOUS
  <2> HIDE DEF Bound
  <2> QED BY <2>1, <1>3, LeastNat
<1>5. \E i \in ids : v(i) = n
  <2> SUFFICES ASSUME \A i \in ids : v(i) # n PROVE FALSE
    OBVIOUS
  <2>1. n - 1 \in Nat /\ \A i \in ids : v(i) <= n - 1
    BY <1>1, <1>4
  <2> QED BY <2>1, <1>4
<1> QED BY <1>4, <1>5, <1>1 DEF Newest

\* The next version is above all of the rows, and one above the newest.
LEMMA NextIsNew ==
  ASSUME ApplyTypeOK, NEW ids, ids \subseteq DOMAIN files
  PROVE  /\ NextVersion(Newest(ids)) \in Nat \ {0}
         /\ \A i \in ids : files[i].version < NextVersion(Newest(ids))
         /\ NextVersion(Newest(ids)) = 1
              \/ \E i \in ids : files[i].version + 1 = NextVersion(Newest(ids))
<1>1. \A i \in ids : i \in Nat /\ files[i].version \in Nat /\ files[i].version > 0
  BY DEF ApplyTypeOK, Row
<1>2. CASE Newest(ids) = {}
  BY <1>2, NewestExists DEF NextVersion
<1>3. CASE Newest(ids) # {}
  <2>1. Newest(ids) \subseteq Nat /\ Newest(ids) \subseteq ids
    BY <1>1 DEF Newest
  <2>2. Min(Newest(ids)) \in Newest(ids)
    BY <1>3, <2>1, MinIn
  <2>3. \A i \in ids : files[i].version <= files[Min(Newest(ids))].version
    BY <2>2 DEF Newest
  <2>4. NextVersion(Newest(ids)) = files[Min(Newest(ids))].version + 1
    BY <1>3 DEF NextVersion
  <2> QED BY <1>1, <2>1, <2>2, <2>3, <2>4
<1> QED BY <1>2, <1>3

-----------------------------------------------------------------------------
(* The types. *)

LEMMA PlacesOK ==
  /\ Cardinality(Path) \in Nat
  /\ \A f \in Path : PathOrder[f] \in 1 .. Cardinality(Path)
  /\ \A f, g \in Path : PathOrder[f] = PathOrder[g] => f = g
BY ApplyAssumption, FS_CardinalityType

LEMMA RowTyped ==
  ASSUME ApplyTypeOK, NEW i, NEW r \in Row, i \in DOMAIN files \cup {NextId}
  PROVE  /\ RowsWith(i, r) \in [DOMAIN RowsWith(i, r) -> Row]
         /\ DOMAIN RowsWith(i, r) = DOMAIN files \cup {i}
         /\ RowsWith(i, r)[i] = r
         /\ \A j \in DOMAIN files \ {i} : RowsWith(i, r)[j] = files[j]
         /\ DOMAIN files \cup {NextId} \subseteq 1 .. NextId
         /\ DOMAIN files \cup {i} \subseteq 1 .. NextId
         /\ NextId \in Nat /\ NextId \notin DOMAIN files
BY DEF ApplyTypeOK, RowsWith, NextId

LEMMA WithoutTyped ==
  ASSUME ApplyTypeOK, NEW ids
  PROVE  /\ RowsWithout(ids) \in [DOMAIN RowsWithout(ids) -> Row]
         /\ DOMAIN RowsWithout(ids) = DOMAIN files \ ids
         /\ \A j \in DOMAIN files \ ids : RowsWithout(ids)[j] = files[j]
BY DEF ApplyTypeOK, RowsWithout

LEMMA OutsideTyped ==
  ASSUME NEW s \in Stage, NEW lt \in BOOLEAN, NEW st \in BOOLEAN
  PROVE  /\ Outside(s, lt, st) \in ApplyJob
         /\ Outside(s, lt, st).at = s /\ Outside(s, lt, st).late = lt /\ Outside(s, lt, st).stored = st
         /\ Outside(s, lt, st).chosen = {} /\ Outside(s, lt, st).write = {}
         /\ Outside(s, lt, st).version = 0 /\ Outside(s, lt, st).todo = {}
         /\ ~ Outside(s, lt, st).holds
BY DEF NoContent, ApplyJob, Outside

\* A row of staff's.
LEMMA StaffRowTyped ==
  ASSUME NEW o \in Offered, NEW c \in Content, NEW v \in Nat \ {0}
  PROVE  StaffRow(o[1], o[2], c, v) \in Row
<1>1. o \in STRING \X Path
  BY ApplyAssumption
<1>2. o[2] \in Path /\ o[1] \in NameOfFile
  BY <1>1 DEF NameOfFile
<1> QED BY <1>2 DEF StaffRow, Row

LEMMA RowFacts ==
  ASSUME ApplyTypeOK, NEW i \in DOMAIN files
  PROVE  /\ files[i] \in Row /\ i \in Nat /\ i >= 1 /\ i <= lastId
         /\ files[i].name \in NameOfFile /\ files[i].path \in Path
         /\ files[i].version \in Nat /\ files[i].version >= 1
         /\ files[i].content \in Content /\ files[i].by \in Apply \cup {NoApply}
BY DEF ApplyTypeOK, Row

LEMMA JobFacts ==
  ASSUME ApplyTypeOK, NEW p \in Apply
  PROVE  /\ job \in [Apply -> ApplyJob] /\ job[p] \in ApplyJob
         /\ job[p].at \in Stage /\ job[p].late \in BOOLEAN /\ job[p].stored \in BOOLEAN
         /\ job[p].todo \subseteq Path /\ job[p].plan \in [Path -> Content \cup {None}]
         /\ job[p].version \in Nat /\ job[p].chosen \subseteq Nat /\ job[p].write \subseteq Row
BY DEF ApplyTypeOK, ApplyJob

\* A plan has no content for a file that it does not have.
LEMMA NoneIsNone == None \notin Content
BY ApplyAssumption DEF None, Content

LEMMA RolledBackTyped ==
  ASSUME ApplyTypeOK, NEW p, RolledBack(p)
  PROVE  /\ files' \in [DOMAIN files' -> Row]
         /\ DOMAIN files' = {i \in DOMAIN files : files[i].by # p}
         /\ \A j \in DOMAIN files' : files'[j] = files[j]
<1> DEFINE ids == {i \in DOMAIN files : files[i].by = p}
<1>1. files' = RowsWithout(ids)
  BY DEF RolledBack
<1> HIDE DEF ids
<1>2. files' \in [DOMAIN files' -> Row] /\ DOMAIN files' = DOMAIN files \ ids
  BY <1>1, WithoutTyped
<1>3. \A j \in DOMAIN files' : files'[j] = files[j]
  BY <1>1, <1>2, WithoutTyped
<1>4. DOMAIN files \ ids = {i \in DOMAIN files : files[i].by # p}
  BY DEF ids
<1> QED BY <1>2, <1>3, <1>4

LEMMA ReleasedTyped ==
  ASSUME ApplyTypeOK, NEW p \in Apply
  PROVE  Released(p) \in Apply \cup {NoApply}
BY DEF ApplyTypeOK, Released

LEMMA BetweenTyped ==
  ASSUME ApplyTypeOK
  PROVE  /\ CameBetween("apply") \subseteq {"apply", "save", "torn"}
         /\ CameBetween("save") \subseteq {"apply", "save", "torn"}
         /\ \A p : Torn(p) \subseteq {"apply", "save", "torn"}
BY DEF ApplyTypeOK, CameBetween, Torn

LEMMA MishapTyped ==
  ASSUME ApplyTypeOK, Mishap
  PROVE  mishaps' \in 0 .. MaxMishaps
BY ApplyAssumption DEF ApplyTypeOK, Mishap

\* What staff saves or imports is stored as a row.
LEMMA StaffStores ==
  ASSUME ApplyTypeOK, NEW obj \in Committed \cup {None}, NEW o \in Offered, NEW c \in Content,
         SaveFile(obj, o[1], o[2], c)
  PROVE  ByStaff /\ \E i \in Committed \cup {NextId}, r \in Row : r.by = NoApply /\ Store(i, r)
<1> DEFINE last == Newest(OfName(Committed, o[1]))
<1> DEFINE r(v) == StaffRow(o[1], o[2], c, v)
<1>1. OfName(Committed, o[1]) \subseteq DOMAIN files
  BY DEF OfName, Committed
<1>2. NextVersion(last) \in Nat \ {0}
  BY <1>1, NextIsNew
<1>3. \A v \in Nat \ {0} : r(v) \in Row /\ r(v).by = NoApply
  BY StaffRowTyped DEF StaffRow
<1>4. CASE Store(NextId, r(NextVersion(last)))
  BY <1>2, <1>3, <1>4 DEF SaveFile
<1>5. CASE Store(NextId, r(1))
  BY <1>3, <1>5 DEF SaveFile
<1>6. CASE obj \in Committed /\ Store(obj, r(files[obj].version))
  <2>1. files[obj].version \in Nat \ {0}
    BY <1>6, RowFacts DEF Committed
  <2> QED BY <2>1, <1>3, <1>6 DEF SaveFile
<1> QED BY <1>4, <1>5, <1>6 DEF SaveFile

LEMMA StaffImports ==
  ASSUME ApplyTypeOK, NEW o \in Offered, NEW c \in StaffContent, ImportFile(o[1], o[2], c)
  PROVE  ByStaff /\ \E i \in {NextId}, r \in Row : r.by = NoApply /\ Store(i, r)
<1> DEFINE newest == Newest(OfPath(OfName(Committed, o[1]), o[2]))
<1>1. OfPath(OfName(Committed, o[1]), o[2]) \subseteq DOMAIN files
  BY DEF OfPath, OfName, Committed
<1>2. NextVersion(newest) \in Nat \ {0} /\ c \in Content
  BY <1>1, NextIsNew DEF Content
<1>3. StaffRow(o[1], o[2], c, NextVersion(newest)) \in Row
  BY <1>2, StaffRowTyped
<1> QED BY <1>3 DEF ImportFile, StaffRow

-----------------------------------------------------------------------------
(* What each step does to the job of its apply. *)

LEMMA JobMoved ==
  ASSUME ApplyTypeOK, NEW p \in Apply, NEW j \in ApplyJob, job' = [job EXCEPT ![p] = j]
  PROVE  job' \in [Apply -> ApplyJob] /\ job'[p] = j /\ \A q \in Apply \ {p} : job'[q] = job[q]
BY JobFacts

LEMMA BeginDoes ==
  ASSUME ApplyTypeOK, NEW p \in Apply, BeginApply(p)
  PROVE  /\ job' \in [Apply -> ApplyJob] /\ \A q \in Apply \ {p} : job'[q] = job[q]
         /\ job'[p].at \in {"read", "refused"}
         /\ job'[p].at = "read" => mixed' = CameBetween("apply")
         /\ job'[p].at = "refused" => mixed' = mixed
         /\ job'[p].holds => job[p].holds \/ lock' = p
         /\ lock' = lock \/ (lock = NoApply /\ lock' = p)
         /\ job'[p].late = job[p].late /\ job'[p].stored = job[p].stored
         /\ job'[p].chosen = job[p].chosen /\ job'[p].write = job[p].write
         /\ job'[p].version = job[p].version
         /\ mishaps' = mishaps
         /\ UNCHANGED <<edits, files, lastId, disk, loaded, applied>>
         /\ job[p].at = "idle"
<1>1. job[p] \in ApplyJob /\ Generated \subseteq Path
  BY JobFacts, ApplyAssumption
<1>2. ASSUME NEW h \in BOOLEAN, Enter(p, h)
      PROVE  /\ job' = [job EXCEPT ![p] = [job[p] EXCEPT !.at = "read", !.holds = h, !.todo = Generated]]
             /\ mixed' = CameBetween("apply")
  BY <1>1, <1>2, JobFacts DEF Enter
<1>3. ASSUME NEW h \in BOOLEAN
      PROVE  LET j == [job[p] EXCEPT !.at = "read", !.holds = h, !.todo = Generated]
             IN  /\ j \in ApplyJob /\ j.at = "read" /\ j.holds = h
                 /\ j.late = job[p].late /\ j.stored = job[p].stored
                 /\ j.chosen = job[p].chosen /\ j.write = job[p].write
                 /\ j.version = job[p].version
  BY <1>1 DEF ApplyJob, Stage
<1>4. CASE \E h \in BOOLEAN : Enter(p, h) /\ UNCHANGED mishaps
                 /\ ((h /\ lock = NoApply /\ lock' = p) \/ (~h /\ UNCHANGED lock))
  <2>1. PICK h \in BOOLEAN : Enter(p, h) /\ UNCHANGED mishaps
                 /\ ((h /\ lock = NoApply /\ lock' = p) \/ (~h /\ UNCHANGED lock))
    BY <1>4
  <2> DEFINE j == [job[p] EXCEPT !.at = "read", !.holds = h, !.todo = Generated]
  <2>2. /\ j \in ApplyJob /\ j.at = "read" /\ j.holds = h
        /\ j.late = job[p].late /\ j.stored = job[p].stored
        /\ j.chosen = job[p].chosen /\ j.write = job[p].write /\ j.version = job[p].version
    BY <1>3
  <2>3. job' = [job EXCEPT ![p] = j] /\ mixed' = CameBetween("apply")
    BY <1>2, <2>1
  <2> HIDE DEF j
  <2>4. job' \in [Apply -> ApplyJob] /\ job'[p] = j /\ \A q \in Apply \ {p} : job'[q] = job[q]
    BY <2>2, <2>3, JobMoved
  <2> QED BY <2>1, <2>2, <2>3, <2>4 DEF BeginApply
<1>5. CASE job' = [job EXCEPT ![p].at = "refused"] /\ UNCHANGED <<lock, mixed, mishaps>>
  <2> DEFINE j == [job[p] EXCEPT !.at = "refused"]
  <2>2. /\ j \in ApplyJob /\ j.at = "refused" /\ j.holds = job[p].holds
        /\ j.late = job[p].late /\ j.stored = job[p].stored
        /\ j.chosen = job[p].chosen /\ j.write = job[p].write /\ j.version = job[p].version
    BY <1>1 DEF ApplyJob, Stage, Ended
  <2>3. job' = [job EXCEPT ![p] = j]
    BY <1>5
  <2> HIDE DEF j
  <2>4. job' \in [Apply -> ApplyJob] /\ job'[p] = j /\ \A q \in Apply \ {p} : job'[q] = job[q]
    BY <2>2, <2>3, JobMoved
  <2> QED BY <1>5, <2>2, <2>4 DEF BeginApply
<1>6. job[p].at = "idle" /\ UNCHANGED <<edits, files, lastId, disk, loaded, applied>>
  BY DEF BeginApply
<1> QED BY <1>4, <1>5, <1>6 DEF BeginApply

LEMMA GenerateDoes ==
  ASSUME ApplyTypeOK, NEW p \in Apply, Generate(p)
  PROVE  /\ job' \in [Apply -> ApplyJob] /\ \A q \in Apply \ {p} : job'[q] = job[q]
         /\ job[p].at = "read" /\ job'[p].at = "read"
         /\ job'[p].holds = job[p].holds
         /\ job'[p].late = job[p].late /\ job'[p].stored = job[p].stored
         /\ job'[p].chosen = job[p].chosen /\ job'[p].write = job[p].write
         /\ job'[p].version = job[p].version
         /\ UNCHANGED <<edits, files, lastId, disk, loaded, lock, applied, mixed, mishaps>>
<1>1. PICK f \in job[p].todo : job' = [job EXCEPT ![p].todo = @ \ {f}, ![p].plan[f] = edits]
  BY DEF Generate
<1>2. job[p] \in ApplyJob /\ f \in Path /\ edits \in Content /\ job[p].todo \ {f} \in SUBSET Path
  BY JobFacts DEF ApplyTypeOK, Content
<1> DEFINE j == [job[p] EXCEPT !.todo = job[p].todo \ {f}, !.plan[f] = edits]
<1>3. /\ j \in ApplyJob /\ j.at = job[p].at /\ j.holds = job[p].holds
      /\ j.late = job[p].late /\ j.stored = job[p].stored
      /\ j.chosen = job[p].chosen /\ j.write = job[p].write /\ j.version = job[p].version
  BY <1>2 DEF ApplyJob
<1>4. job' = [job EXCEPT ![p] = j]
  BY <1>1, <1>2, JobFacts
<1> HIDE DEF j
<1>5. job' \in [Apply -> ApplyJob] /\ job'[p] = j /\ \A q \in Apply \ {p} : job'[q] = job[q]
  BY <1>3, <1>4, JobMoved
<1> QED BY <1>3, <1>5 DEF Generate

LEMMA ReadFilesDoes ==
  ASSUME ApplyTypeOK, NEW p \in Apply, ReadFiles(p)
  PROVE  /\ job' \in [Apply -> ApplyJob] /\ \A q \in Apply \ {p} : job'[q] = job[q]
         /\ job[p].at = "read" /\ job'[p].at = "version"
         /\ job'[p].todo = {f \in Path : job'[p].plan[f] # None}
         /\ job'[p].holds = job[p].holds
         /\ job'[p].late = job[p].late /\ job'[p].stored = job[p].stored
         /\ job'[p].chosen = job[p].chosen /\ job'[p].write = job[p].write
         /\ job'[p].version = job[p].version
         /\ UNCHANGED <<edits, files, lastId, disk, loaded, lock, applied, mixed, mishaps>>
<1>1. PICK plan \in [Path -> Content \cup {None}] :
        job' = [job EXCEPT ![p].at = "version", ![p].plan = plan,
                           ![p].todo = {f \in Path : plan[f] # None}]
  BY DEF ReadFiles
<1>2. job[p] \in ApplyJob
  BY JobFacts
<1> DEFINE todo == {f \in Path : plan[f] # None}
<1> DEFINE j == [job[p] EXCEPT !.at = "version", !.plan = plan, !.todo = todo]
<1>3. /\ j \in ApplyJob /\ j.at = "version" /\ j.holds = job[p].holds
      /\ j.plan = plan /\ j.todo = todo
      /\ j.late = job[p].late /\ j.stored = job[p].stored
      /\ j.chosen = job[p].chosen /\ j.write = job[p].write /\ j.version = job[p].version
  BY <1>2 DEF ApplyJob, Stage
<1>4. job' = [job EXCEPT ![p] = j]
  BY <1>1, <1>2, JobFacts
<1> HIDE DEF j
<1>5. job' \in [Apply -> ApplyJob] /\ job'[p] = j /\ \A q \in Apply \ {p} : job'[q] = job[q]
  BY <1>3, <1>4, JobMoved
<1> QED BY <1>3, <1>5 DEF ReadFiles

LEMMA TakenDoes ==
  ASSUME ApplyTypeOK, NEW p \in Apply, NEW f \in job[p].todo, NEW i \in Nat, Taken(p, f, i)
  PROVE  /\ job' \in [Apply -> ApplyJob] /\ \A q \in Apply \ {p} : job'[q] = job[q]
         /\ job'[p].at = job[p].at /\ job'[p].plan = job[p].plan
         /\ job'[p].todo = job[p].todo \ {f} /\ job'[p].version = 0
         /\ job'[p].chosen = job[p].chosen \cup {i}
         /\ job'[p].holds = job[p].holds /\ job'[p].write = job[p].write
         /\ job'[p].late = job[p].late /\ job'[p].stored = job[p].stored
<1> DEFINE td == job[p].todo \ {f}
<1> DEFINE ch == job[p].chosen \cup {i}
<1>2. job[p] \in ApplyJob /\ td \in SUBSET Path /\ ch \in SUBSET Nat
  BY JobFacts
<1> DEFINE j == [job[p] EXCEPT !.todo = td, !.version = 0, !.chosen = ch]
<1>4. job' = [job EXCEPT ![p] = j]
  BY <1>2, JobFacts DEF Taken
<1> HIDE DEF td, ch
<1>3. /\ j \in ApplyJob /\ j.at = job[p].at /\ j.holds = job[p].holds /\ j.plan = job[p].plan
      /\ j.todo = td /\ j.version = 0 /\ j.chosen = ch
      /\ j.late = job[p].late /\ j.stored = job[p].stored /\ j.write = job[p].write
  BY <1>2 DEF ApplyJob
<1> HIDE DEF j
<1>5. job' \in [Apply -> ApplyJob] /\ job'[p] = j /\ \A q \in Apply \ {p} : job'[q] = job[q]
  BY <1>3, <1>4, JobMoved
<1> QED BY <1>3, <1>5 DEF td, ch

LEMMA CompareDoes ==
  ASSUME ApplyTypeOK, NEW p \in Apply, Compare(p)
  PROVE  /\ job[p].at = "version" /\ job[p].version = 0
         /\ \E f \in job[p].todo :
              /\ Sorted(job[p].todo, f) /\ f \in Path
              /\ \/ \E i \in Prev(p, f) : files[i].content = job[p].plan[f] /\ Taken(p, f, i)
                 \/ /\ job' \in [Apply -> ApplyJob] /\ \A q \in Apply \ {p} : job'[q] = job[q]
                    /\ job'[p].at = job[p].at /\ job'[p].plan = job[p].plan
                    /\ job'[p].todo = job[p].todo
                    /\ job'[p].version = NextVersion(Prev(p, f))
                    /\ job'[p].chosen = job[p].chosen
                    /\ job'[p].holds = job[p].holds /\ job'[p].write = job[p].write
                    /\ job'[p].late = job[p].late /\ job'[p].stored = job[p].stored
         /\ UNCHANGED <<edits, files, lastId, disk, loaded, lock, applied, mixed, mishaps>>
<1>1. PICK f \in job[p].todo :
        /\ Sorted(job[p].todo, f)
        /\ \/ \E i \in Prev(p, f) : files[i].content = job[p].plan[f] /\ Taken(p, f, i)
           \/ job' = [job EXCEPT ![p].version = NextVersion(Prev(p, f))]
  BY DEF Compare
<1>2. job[p] \in ApplyJob /\ f \in Path
  BY JobFacts
<1>3. CASE job' = [job EXCEPT ![p].version = NextVersion(Prev(p, f))]
  <2> DEFINE v == NextVersion(Prev(p, f))
  <2>1. v \in Nat
    <3>1. OfPath(Sees(p), f) \subseteq DOMAIN files
      BY DEF OfPath, Sees
    <3> QED BY <3>1, NextIsNew DEF Prev
  <2> HIDE DEF v
  <2> DEFINE j == [job[p] EXCEPT !.version = v]
  <2>2. /\ j \in ApplyJob /\ j.at = job[p].at /\ j.holds = job[p].holds
        /\ j.plan = job[p].plan /\ j.todo = job[p].todo /\ j.version = v
        /\ j.chosen = job[p].chosen /\ j.late = job[p].late /\ j.stored = job[p].stored
        /\ j.write = job[p].write
    BY <1>2, <2>1 DEF ApplyJob
  <2>3. job' = [job EXCEPT ![p] = j]
    BY <1>3, JobFacts DEF v
  <2> HIDE DEF j
  <2>4. job' \in [Apply -> ApplyJob] /\ job'[p] = j /\ \A q \in Apply \ {p} : job'[q] = job[q]
    BY <2>2, <2>3, JobMoved
  <2> QED BY <1>1, <1>2, <2>2, <2>4 DEF Compare, v
<1> QED BY <1>1, <1>2, <1>3 DEF Compare

LEMMA BackupDoes ==
  ASSUME ApplyTypeOK, NEW p \in Apply, Backup(p)
  PROVE  /\ job' \in [Apply -> ApplyJob] /\ \A q \in Apply \ {p} : job'[q] = job[q]
         /\ job[p].at = "version" /\ job'[p].at = "write"
         /\ job[p].todo = {} /\ job'[p].todo = {}
         /\ job'[p].plan = job[p].plan /\ job'[p].write = RowsOf(job[p].chosen)
         /\ job'[p].holds = job[p].holds
         /\ job'[p].late = job[p].late /\ job'[p].stored = job[p].stored
         /\ job'[p].chosen = job[p].chosen /\ job'[p].version = job[p].version
         /\ UNCHANGED <<edits, files, lastId, disk, loaded, lock, applied, mixed, mishaps>>
<1> DEFINE w == RowsOf(job[p].chosen)
<1>1. job[p] \in ApplyJob /\ w \in SUBSET Row
  BY JobFacts, RowFacts DEF RowsOf
<1> DEFINE j == [job[p] EXCEPT !.at = "write", !.write = w]
<1>2. job' = [job EXCEPT ![p] = j]
  BY JobFacts DEF Backup
<1> HIDE DEF w
<1>3. /\ j \in ApplyJob /\ j.at = "write" /\ j.holds = job[p].holds /\ j.plan = job[p].plan
      /\ j.todo = job[p].todo /\ j.version = job[p].version /\ j.chosen = job[p].chosen
      /\ j.late = job[p].late /\ j.stored = job[p].stored /\ j.write = w
  BY <1>1 DEF ApplyJob, Stage
<1> HIDE DEF j
<1>4. job' \in [Apply -> ApplyJob] /\ job'[p] = j /\ \A q \in Apply \ {p} : job'[q] = job[q]
  BY <1>2, <1>3, JobMoved
<1> QED BY <1>3, <1>4 DEF Backup, w

LEMMA WriteFileDoes ==
  ASSUME ApplyTypeOK, NEW p \in Apply, WriteFile(p)
  PROVE  /\ job' \in [Apply -> ApplyJob] /\ \A q \in Apply \ {p} : job'[q] = job[q]
         /\ job[p].at = "write" /\ job'[p].at = "write"
         /\ \E row \in job[p].write :
              /\ row.path \in Path /\ row.content \in Content
              /\ disk' = [disk EXCEPT ![row.path] = row.content]
              /\ job'[p].write = job[p].write \ {row}
         /\ job'[p].todo = job[p].todo /\ job'[p].plan = job[p].plan
         /\ job'[p].holds = job[p].holds
         /\ job'[p].late = job[p].late /\ job'[p].stored = job[p].stored
         /\ job'[p].chosen = job[p].chosen /\ job'[p].version = job[p].version
         /\ UNCHANGED <<edits, files, lastId, loaded, lock, applied, mixed, mishaps>>
<1>1. PICK row \in job[p].write :
        /\ disk' = [disk EXCEPT ![row.path] = row.content]
        /\ job' = [job EXCEPT ![p].write = @ \ {row}]
  BY DEF WriteFile
<1> DEFINE w == job[p].write \ {row}
<1>2. job[p] \in ApplyJob /\ w \in SUBSET Row /\ row \in Row
  BY JobFacts
<1>3. row.path \in Path /\ row.content \in Content
  BY <1>2 DEF Row
<1> DEFINE j == [job[p] EXCEPT !.write = w]
<1>4. job' = [job EXCEPT ![p] = j]
  BY <1>1, JobFacts
<1> HIDE DEF w
<1>5. /\ j \in ApplyJob /\ j.at = job[p].at /\ j.holds = job[p].holds /\ j.plan = job[p].plan
      /\ j.todo = job[p].todo /\ j.version = job[p].version /\ j.chosen = job[p].chosen
      /\ j.late = job[p].late /\ j.stored = job[p].stored /\ j.write = w
  BY <1>2 DEF ApplyJob
<1> HIDE DEF j
<1>6. job' \in [Apply -> ApplyJob] /\ job'[p] = j /\ \A q \in Apply \ {p} : job'[q] = job[q]
  BY <1>4, <1>5, JobMoved
<1> QED BY <1>1, <1>3, <1>5, <1>6 DEF WriteFile, w

LEMMA CommitDoes ==
  ASSUME ApplyTypeOK, NEW p \in Apply, Commit(p)
  PROVE  /\ job' \in [Apply -> ApplyJob] /\ \A q \in Apply \ {p} : job'[q] = job[q]
         /\ job[p].at = "write" /\ job'[p].at = "reload" /\ job[p].write = {}
         /\ job'[p].stored /\ job'[p].todo = job[p].todo /\ job'[p].plan = job[p].plan
         /\ job'[p].holds = job[p].holds /\ job'[p].write = job[p].write
         /\ job'[p].late = job[p].late
         /\ job'[p].chosen = job[p].chosen /\ job'[p].version = job[p].version
         /\ files' \in [DOMAIN files' -> Row] /\ DOMAIN files' = DOMAIN files
         /\ \A i \in DOMAIN files :
              /\ files'[i].name = files[i].name /\ files'[i].path = files[i].path
              /\ files'[i].version = files[i].version /\ files'[i].content = files[i].content
              /\ files'[i].by = IF files[i].by = p THEN NoApply ELSE files[i].by
         /\ job[p].chosen \subseteq DOMAIN files
         /\ \A f \in Path : applied'[f] = IF job[p].plan[f] = None THEN applied[f] ELSE job[p].plan[f]
         /\ applied' \in [Path -> Content \cup {None}]
         /\ UNCHANGED <<edits, lastId, disk, loaded, lock, mixed, mishaps>>
<1>1. job[p] \in ApplyJob
  BY JobFacts
<1> DEFINE j == [job[p] EXCEPT !.at = "reload", !.stored = TRUE]
<1>2. job' = [job EXCEPT ![p] = j]
  BY JobFacts DEF Commit
<1>3. /\ j \in ApplyJob /\ j.at = "reload" /\ j.holds = job[p].holds /\ j.plan = job[p].plan
      /\ j.todo = job[p].todo /\ j.version = job[p].version /\ j.chosen = job[p].chosen
      /\ j.late = job[p].late /\ j.stored /\ j.write = job[p].write
  BY <1>1 DEF ApplyJob, Stage
<1> HIDE DEF j
<1>4. job' \in [Apply -> ApplyJob] /\ job'[p] = j /\ \A q \in Apply \ {p} : job'[q] = job[q]
  BY <1>2, <1>3, JobMoved
<1>5. applied' \in [Path -> Content \cup {None}]
  BY JobFacts DEF Commit, ApplyTypeOK
<1>6. DOMAIN files' = DOMAIN files /\ files' \in [DOMAIN files' -> Row]
  BY RowFacts DEF Commit, Row
<1>7. \A i \in DOMAIN files :
        /\ files'[i].name = files[i].name /\ files'[i].path = files[i].path
        /\ files'[i].version = files[i].version /\ files'[i].content = files[i].content
        /\ files'[i].by = IF files[i].by = p THEN NoApply ELSE files[i].by
  BY RowFacts DEF Commit, Row
<1> QED BY <1>3, <1>4, <1>5, <1>6, <1>7 DEF Commit

LEMMA LeaveDoes ==
  ASSUME ApplyTypeOK, NEW p \in Apply, NEW s \in Stage,
         job' = [job EXCEPT ![p] = Outside(s, job[p].late, job[p].stored)]
  PROVE  /\ job' \in [Apply -> ApplyJob] /\ \A q \in Apply \ {p} : job'[q] = job[q]
         /\ job'[p].at = s /\ job'[p].late = job[p].late /\ job'[p].stored = job[p].stored
         /\ job'[p].chosen = {} /\ job'[p].write = {} /\ job'[p].version = 0
         /\ job'[p].todo = {} /\ ~ job'[p].holds
<1>1. job[p].late \in BOOLEAN /\ job[p].stored \in BOOLEAN /\ job \in [Apply -> ApplyJob]
  BY DEF ApplyTypeOK, ApplyJob
<1> QED BY <1>1, OutsideTyped

\* An apply that is rolled back: its rows are gone.
GivesUp(p) ==
  /\ job[p].at \in {"read", "version", "write", "reload"}
  /\ job' \in [Apply -> ApplyJob] /\ \A q \in Apply \ {p} : job'[q] = job[q]
  /\ job'[p].at \in {"failed", "clashed"} /\ (job'[p].at = "clashed" => job[p].at = "version")
  /\ job'[p].late = job[p].late /\ job'[p].stored = job[p].stored
  /\ job'[p].chosen = {} /\ job'[p].write = {} /\ job'[p].version = 0
  /\ job'[p].todo = {} /\ ~ job'[p].holds
  /\ files' \in [DOMAIN files' -> Row]
  /\ DOMAIN files' = {i \in DOMAIN files : files[i].by # p}
  /\ \A j \in DOMAIN files' : files'[j] = files[j]
  /\ lock' \in {lock, Released(p)}
  /\ UNCHANGED <<edits, lastId, loaded, applied>>
  /\ disk' \in [Path -> Content \cup {None, Cut}]
  /\ "torn" \notin mixed' => disk' = disk
  /\ job[p].at = "write" /\ "torn" \notin mixed' => mixed' = Torn(p)
  /\ mixed' \in {mixed, Torn(p), mixed \cup {"torn"}}
  /\ mishaps' \in 0 .. MaxMishaps

LEMMA GiveUp ==
  ASSUME ApplyTypeOK, NEW p \in Apply,
         \/ CommitFails(p) \/ WriteFails(p) \/ Killed(p)
         \/ /\ job[p].at = "version" /\ RolledBack(p) /\ Leave(p, "clashed")
            /\ UNCHANGED <<edits, lastId, disk, loaded, applied, mixed, mishaps>>
  PROVE  GivesUp(p)
<1> DEFINE left(s) == Outside(s, job[p].late, job[p].stored)
<1>1. "failed" \in Stage /\ "clashed" \in Stage
  BY DEF Stage, Ended
<1>2. RolledBack(p)
  BY DEF CommitFails, WriteFails, Killed
<1>3. \E s \in {"failed", "clashed"} :
        (s = "clashed" => job[p].at = "version") /\ job' = [job EXCEPT ![p] = Outside(s, job[p].late, job[p].stored)]
  BY DEF CommitFails, WriteFails, Killed, Leave
<1>4. /\ job[p].at \in {"read", "version", "write", "reload"}
      /\ lock' \in {lock, Released(p)}
      /\ UNCHANGED <<edits, lastId, loaded, applied>>
  BY DEF CommitFails, WriteFails, Killed, Leave, InSection
<1>9. /\ disk' \in [Path -> Content \cup {None, Cut}]
      /\ "torn" \notin mixed' => disk' = disk
      /\ job[p].at = "write" /\ "torn" \notin mixed' => mixed' = Torn(p)
      /\ mixed' \in {mixed, Torn(p), mixed \cup {"torn"}}
  <2>1. CASE BreaksOff(p)
    BY <2>1 DEF BreaksOff, ApplyTypeOK
  <2>2. CASE UNCHANGED disk /\ (mixed' = Torn(p) \/ (job[p].at = "version" /\ mixed' = mixed))
    BY <2>2 DEF ApplyTypeOK
  <2> QED BY <2>1, <2>2 DEF CommitFails, WriteFails, Killed
<1>5. mishaps' \in 0 .. MaxMishaps
  <2>1. Mishap \/ mishaps' = mishaps
    BY DEF CommitFails, WriteFails, Killed
  <2> QED BY <2>1, MishapTyped DEF ApplyTypeOK
<1>6. /\ files' \in [DOMAIN files' -> Row]
      /\ DOMAIN files' = {i \in DOMAIN files : files[i].by # p}
      /\ \A j \in DOMAIN files' : files'[j] = files[j]
  BY <1>2, RolledBackTyped
<1>7. PICK s \in {"failed", "clashed"} :
        (s = "clashed" => job[p].at = "version") /\ job' = [job EXCEPT ![p] = Outside(s, job[p].late, job[p].stored)]
  BY <1>3
<1>8. /\ job' \in [Apply -> ApplyJob] /\ \A q \in Apply \ {p} : job'[q] = job[q]
      /\ job'[p].at = s /\ job'[p].late = job[p].late /\ job'[p].stored = job[p].stored
      /\ job'[p].chosen = {} /\ job'[p].write = {} /\ job'[p].version = 0
      /\ job'[p].todo = {} /\ ~ job'[p].holds
  BY <1>1, <1>7, LeaveDoes, ZenonT(40)
<1> QED BY <1>4, <1>5, <1>6, <1>7, <1>8, <1>9 DEF GivesUp

\* An apply that ends after its reload.
LEMMA ReloadDoes ==
  ASSUME ApplyTypeOK, NEW p \in Apply, Reload(p) \/ ReloadFails(p)
  PROVE  /\ job[p].at = "reload" /\ job'[p].at \in {"done", "failed"}
         /\ job' \in [Apply -> ApplyJob] /\ \A q \in Apply \ {p} : job'[q] = job[q]
         /\ job'[p].late = job[p].late /\ job'[p].stored = job[p].stored
         /\ job'[p].chosen = {} /\ job'[p].write = {} /\ job'[p].version = 0
         /\ job'[p].todo = {} /\ ~ job'[p].holds
         /\ lock' = Released(p)
         /\ UNCHANGED <<edits, files, lastId, disk, applied, mixed>>
         /\ \/ job'[p].at = "done" /\ loaded' = disk
            \/ job'[p].at = "failed" /\ loaded' = loaded
         /\ mishaps' \in 0 .. MaxMishaps
<1>1. "failed" \in Stage /\ "done" \in Stage
  BY DEF Stage, Ended
<1>2. Mishap \/ mishaps' = mishaps
  BY DEF Reload, ReloadFails
<1>3. mishaps' \in 0 .. MaxMishaps
  BY <1>2, MishapTyped DEF ApplyTypeOK
<1>4. CASE Reload(p)
  <2>1. job' = [job EXCEPT ![p] = Outside("done", job[p].late, job[p].stored)]
    BY <1>4 DEF Reload, Leave
  <2> QED BY <1>1, <1>3, <1>4, <2>1, LeaveDoes DEF Reload, Leave
<1>5. CASE ReloadFails(p)
  <2>1. job' = [job EXCEPT ![p] = Outside("failed", job[p].late, job[p].stored)]
    BY <1>5 DEF ReloadFails, Leave
  <2> QED BY <1>1, <1>3, <1>5, <2>1, LeaveDoes DEF ReloadFails, Leave
<1> QED BY <1>4, <1>5

LEMMA ExpireDoes ==
  ASSUME ApplyTypeOK, Expire
  PROVE  /\ job' \in [Apply -> ApplyJob] /\ lock \in Apply
         /\ \A q \in Apply : /\ job'[q].at = job[q].at /\ job'[q].todo = job[q].todo
                             /\ job'[q].plan = job[q].plan /\ job'[q].version = job[q].version
                             /\ job'[q].chosen = job[q].chosen /\ job'[q].write = job[q].write
                             /\ job'[q].stored = job[q].stored /\ job'[q].holds = job[q].holds
         /\ \A q \in Apply \ {lock} : job'[q] = job[q]
         /\ job'[lock].late
         /\ lock' = NoApply /\ mishaps' \in 0 .. MaxMishaps
         /\ UNCHANGED <<edits, files, lastId, disk, loaded, applied, mixed>>
<1>1. lock \in Apply /\ job[lock] \in ApplyJob
  BY JobFacts DEF Expire, ApplyTypeOK
<1> DEFINE j == [job[lock] EXCEPT !.late = TRUE]
<1>2. /\ j \in ApplyJob /\ j.at = job[lock].at /\ j.todo = job[lock].todo
      /\ j.plan = job[lock].plan /\ j.version = job[lock].version
      /\ j.chosen = job[lock].chosen /\ j.write = job[lock].write
      /\ j.stored = job[lock].stored /\ j.holds = job[lock].holds /\ j.late
  BY <1>1 DEF ApplyJob
<1>3. job' = [job EXCEPT ![lock] = j]
  BY DEF Expire
<1> HIDE DEF j
<1>4. job' \in [Apply -> ApplyJob] /\ job'[lock] = j /\ \A q \in Apply \ {lock} : job'[q] = job[q]
  BY <1>1, <1>2, <1>3, JobMoved
<1> QED BY <1>1, <1>2, <1>4, MishapTyped DEF Expire

-----------------------------------------------------------------------------
(* Each step keeps the invariant. *)

\* Nothing is due in a step of p that stores nothing.
LEMMA QuietVersions ==
  ASSUME ApplyInv, NEW p \in Apply, job' \in [Apply -> ApplyJob],
         \A q \in Apply \ {p} : job'[q] = job[q],
         files' = files, mixed' = mixed, job'[p].version = 0,
         InSection(p)' => InSection(p),
         job'[p].at \in {"version", "write"} =>
           job'[p].chosen = {} \/ (job[p].at \in {"version", "write"}
                                   /\ job'[p].chosen \subseteq job[p].chosen \cup Sees(p))
  PROVE  VersionsNext' /\ AloneInserts'
<1> USE DEF ApplyInv
<1>1. /\ Committed' = Committed /\ Uncommitted' = Uncommitted
      /\ \A f : OfPath(Committed, f)' = OfPath(Committed, f)
      /\ \A q \in Apply : \A f : OfPath(Sees(q), f)' = OfPath(Sees(q), f)
  BY DEF Committed, Uncommitted, OfPath, Sees
<1>2. Inserts(p)' = {} /\ \A q \in Apply \ {p} : Inserts(q)' = Inserts(q)
  BY DEF Inserts
<1>3. ASSUME ChosenStored PROVE ChosenStored'
  BY <1>3 DEF ChosenStored, Sees
<1>4. NewTogether => NewTogether'
  BY <1>1 DEF NewTogether
<1>5. NewIsNext => NewIsNext'
  BY <1>1 DEF NewIsNext, IsNext
<1>6. ASSUME DueIsNext PROVE DueIsNext'
  <2>1. ASSUME NEW q \in Apply, NEW f \in Inserts(q)' PROVE q # p /\ f \in Inserts(q) /\ job'[q] = job[q]
    BY <1>2, <2>1
  <2> QED BY <1>1, <1>6, <2>1 DEF DueIsNext
<1>7. VersionsNext'
  BY <1>3, <1>4, <1>5, <1>6 DEF VersionsNext
<1>8. ASSUME OneInSection PROVE OneInSection'
  BY <1>8 DEF OneInSection, InSection
<1>9. ASSUME DueIsNew PROVE DueIsNew'
  <2>1. ASSUME NEW q \in Apply, NEW f \in Inserts(q)' PROVE q # p /\ f \in Inserts(q) /\ job'[q] = job[q]
    BY <1>2, <2>1
  <2> QED BY <1>1, <1>9, <2>1 DEF DueIsNew
<1> QED BY <1>7, <1>8, <1>9 DEF AloneInserts

LEMMA KeepsBegins ==
  ASSUME ApplyInv, NEW p \in Apply, BeginApply(p)
  PROVE  ApplyInv'
<1> USE DEF ApplyInv
<1>1. ApplyTypeOK'
  BY BeginDoes, BetweenTyped DEF ApplyTypeOK
<1>2. KeysUnique'
  BY BeginDoes DEF KeysUnique
<1>3. StagesKept'
  BY BeginDoes, JobFacts DEF StagesKept
<1>4. RowsOwned'
  BY BeginDoes, JobFacts, RowFacts DEF RowsOwned, Uncommitted
<1>5. ChosenSeen'
  BY BeginDoes, JobFacts DEF ChosenSeen
<1>6. OneRowPerFile'
  BY BeginDoes DEF OneRowPerFile, Uncommitted
<1>7. /\ Committed' = Committed /\ Uncommitted' = Uncommitted
      /\ \A f : OfPath(Committed, f)' = OfPath(Committed, f)
      /\ \A q \in Apply : \A f : OfPath(Sees(q), f)' = OfPath(Sees(q), f)
      /\ \A q \in Apply : Inserts(q)' \subseteq Inserts(q) /\ job'[q].version = job[q].version
  BY BeginDoes DEF Committed, Uncommitted, OfPath, Sees, Inserts
<1>8. mixed \subseteq mixed'
  BY BeginDoes DEF CameBetween
<1>9. VersionsNext'
  <2>1. SUFFICES ASSUME "save" \notin mixed' PROVE ChosenStored' /\ NewTogether' /\ NewIsNext' /\ DueIsNext'
    BY DEF VersionsNext
  <2>2. ChosenStored /\ NewTogether /\ NewIsNext /\ DueIsNext
    BY <1>8, <2>1 DEF VersionsNext
  <2>3. ChosenStored'
    BY <2>2, BeginDoes DEF ChosenStored
  <2>4. NewTogether' /\ NewIsNext'
    BY <1>7, <2>2, BeginDoes DEF NewTogether, NewIsNext, IsNext
  <2>5. DueIsNext'
    BY <1>7, <2>2, BeginDoes DEF DueIsNext
  <2> QED BY <2>3, <2>4, <2>5
<1>10. AloneInserts'
  <2>1. SUFFICES ASSUME {"apply", "save"} \cap mixed' = {} PROVE OneInSection' /\ DueIsNew'
    BY DEF AloneInserts
  <2>2. OneInSection /\ DueIsNew
    BY <1>8, <2>1 DEF AloneInserts
  <2>3. OneInSection'
    BY <2>1, <2>2, BeginDoes DEF OneInSection, InSection, CameBetween
  <2>4. DueIsNew'
    BY <1>7, <2>2, BeginDoes DEF DueIsNew
  <2> QED BY <2>3, <2>4
<1>11. WritesPlan'
  BY BeginDoes, <1>8 DEF WritesPlan, PlanChosen, PlanWritten, RowsOf
<1>12. LoadsApplied'
  BY BeginDoes, <1>8 DEF LoadsApplied
<1>13. LockKept'
  BY BeginDoes, JobFacts, ApplyAssumption DEF LockKept
<1> QED BY <1>1, <1>2, <1>3, <1>4, <1>5, <1>6, <1>9, <1>10, <1>11, <1>12, <1>13

LEMMA KeepsGenerates ==
  ASSUME ApplyInv, NEW p \in Apply, Generate(p)
  PROVE  ApplyInv'
<1> USE DEF ApplyInv
<1>1. ApplyTypeOK'
  BY GenerateDoes DEF ApplyTypeOK
<1>2. KeysUnique' /\ OneRowPerFile'
  BY GenerateDoes DEF KeysUnique, OneRowPerFile, Uncommitted
<1>3. StagesKept'
  BY GenerateDoes, JobFacts DEF StagesKept
<1>4. RowsOwned' /\ ChosenSeen'
  BY GenerateDoes, JobFacts, RowFacts DEF RowsOwned, ChosenSeen, Uncommitted
<1>5. VersionsNext' /\ AloneInserts'
  BY GenerateDoes, QuietVersions DEF StagesKept, InSection
<1>6. WritesPlan'
  BY GenerateDoes DEF WritesPlan, PlanChosen, PlanWritten, RowsOf
<1>7. LoadsApplied' /\ LockKept'
  BY GenerateDoes DEF LoadsApplied, LockKept
<1> QED BY <1>1, <1>2, <1>3, <1>4, <1>5, <1>6, <1>7

LEMMA KeepsReadsFiles ==
  ASSUME ApplyInv, NEW p \in Apply, ReadFiles(p)
  PROVE  ApplyInv'
<1> USE DEF ApplyInv
<1>1. ApplyTypeOK'
  BY ReadFilesDoes DEF ApplyTypeOK
<1>2. KeysUnique' /\ OneRowPerFile'
  BY ReadFilesDoes DEF KeysUnique, OneRowPerFile, Uncommitted
<1>3. StagesKept' /\ job'[p].chosen = {} /\ job'[p].version = 0
  BY ReadFilesDoes, JobFacts DEF StagesKept
<1>4. RowsOwned'
  BY ReadFilesDoes, JobFacts, RowFacts DEF RowsOwned, Uncommitted
<1>5. ChosenSeen'
  BY <1>3, ReadFilesDoes DEF ChosenSeen
<1>6. VersionsNext' /\ AloneInserts'
  BY <1>3, ReadFilesDoes, QuietVersions DEF InSection
<1>7. WritesPlan'
  <2>1. SUFFICES ASSUME mixed = {} PROVE WritesPlan'
    BY ReadFilesDoes DEF WritesPlan
  <2>2. PlanChosen(p)'
    BY <1>3, ReadFilesDoes DEF PlanChosen
  <2>3. \A q \in Apply \ {p} : /\ PlanChosen(q)' = PlanChosen(q)
                               /\ PlanWritten(q)' = PlanWritten(q)
    BY ReadFilesDoes DEF PlanChosen, PlanWritten
  <2> QED BY <2>1, <2>2, <2>3, ReadFilesDoes DEF WritesPlan, RowsOf
<1>8. LoadsApplied'
  BY ReadFilesDoes DEF LoadsApplied, StagesKept
<1>9. LockKept'
  BY ReadFilesDoes DEF LockKept
<1> QED BY <1>1, <1>2, <1>3, <1>4, <1>5, <1>6, <1>7, <1>8, <1>9

LEMMA KeepsBacksUp ==
  ASSUME ApplyInv, NEW p \in Apply, Backup(p)
  PROVE  ApplyInv'
<1> USE DEF ApplyInv
<1>1. ApplyTypeOK'
  BY BackupDoes DEF ApplyTypeOK
<1>2. KeysUnique' /\ OneRowPerFile'
  BY BackupDoes DEF KeysUnique, OneRowPerFile, Uncommitted
<1>3. StagesKept' /\ job'[p].version = 0
  BY BackupDoes, JobFacts DEF StagesKept
<1>4. RowsOwned' /\ ChosenSeen'
  BY BackupDoes, JobFacts, RowFacts DEF RowsOwned, ChosenSeen, Uncommitted
<1>6. VersionsNext' /\ AloneInserts'
  BY <1>3, BackupDoes, QuietVersions DEF InSection
<1>7. WritesPlan'
  <2>1. SUFFICES ASSUME mixed = {} PROVE WritesPlan'
    BY BackupDoes DEF WritesPlan
  <2>2. PlanChosen(p) /\ PlanChosen(p)'
    BY <2>1, BackupDoes DEF WritesPlan, PlanChosen
  <2>3. \A q \in Apply \ {p} : /\ PlanChosen(q)' = PlanChosen(q)
                               /\ PlanWritten(q)' = PlanWritten(q)
    BY BackupDoes DEF PlanChosen, PlanWritten
  <2>4. \A q \in Apply : job[q].at # "write"
    <3>1. OneInSection
      BY <2>1 DEF AloneInserts
    <3> QED BY <3>1, BackupDoes DEF OneInSection, InSection
  <2>5. disk = applied
    BY <2>1, <2>4 DEF WritesPlan
  <2>6. \A f \in Path : job[p].plan[f] # None =>
          \E row \in job'[p].write : row.path = f
    BY <2>2, BackupDoes DEF PlanChosen, RowsOf
  <2>7. PlanWritten(p)'
    BY <2>5, <2>6, BackupDoes DEF PlanWritten
  <2>8. \A q \in Apply : job'[q].write \subseteq RowsOf(job[q].chosen)
    BY <2>1, BackupDoes DEF WritesPlan
  <2> QED BY <2>1, <2>2, <2>3, <2>4, <2>7, <2>8, BackupDoes DEF WritesPlan, RowsOf
<1>8. LoadsApplied'
  BY BackupDoes DEF LoadsApplied, StagesKept
<1>9. LockKept'
  BY BackupDoes DEF LockKept
<1> QED BY <1>1, <1>2, <1>3, <1>4, <1>6, <1>7, <1>8, <1>9

LEMMA KeepsWrites ==
  ASSUME ApplyInv, NEW p \in Apply, WriteFile(p)
  PROVE  ApplyInv'
<1> USE DEF ApplyInv
<1>1. ApplyTypeOK'
  BY WriteFileDoes DEF ApplyTypeOK
<1>2. KeysUnique' /\ OneRowPerFile'
  BY WriteFileDoes DEF KeysUnique, OneRowPerFile, Uncommitted
<1>3. StagesKept'
  BY WriteFileDoes, JobFacts DEF StagesKept
<1>4. RowsOwned' /\ ChosenSeen'
  BY WriteFileDoes, JobFacts, RowFacts DEF RowsOwned, ChosenSeen, Uncommitted
<1>6. VersionsNext' /\ AloneInserts'
  BY WriteFileDoes, QuietVersions DEF InSection, StagesKept
<1>7. WritesPlan'
  <2>1. SUFFICES ASSUME mixed = {} PROVE WritesPlan'
    BY WriteFileDoes DEF WritesPlan
  <2>2. PICK row \in job[p].write :
          /\ row.path \in Path
          /\ disk' = [disk EXCEPT ![row.path] = row.content]
          /\ job'[p].write = job[p].write \ {row}
    BY WriteFileDoes
  <2>3. /\ PlanChosen(p) /\ PlanWritten(p) /\ job[p].write \subseteq RowsOf(job[p].chosen)
        /\ job[p].at = "write" /\ disk \in [Path -> Content \cup {None, Cut}]
    BY <2>1, WriteFileDoes DEF WritesPlan, ApplyTypeOK
  <2>4. PICK i \in job[p].chosen \cap DOMAIN files : row = files[i]
    BY <2>2, <2>3 DEF RowsOf
  <2>5. \A other \in job[p].write : other.path = row.path => other = row
    BY <2>3, <2>4 DEF RowsOf, PlanChosen
  <2>6. row.content = job[p].plan[row.path] /\ row.content # None
    <3>1. row.content \in Content
      BY <2>4, RowFacts
    <3> QED BY <2>3, <2>4, <3>1, NoneIsNone DEF PlanChosen
  <2>7. PlanWritten(p)'
    <3> SUFFICES ASSUME NEW f \in Path
                 PROVE  disk'[f] = IF job'[p].plan[f] = None \/ \E w \in job'[p].write : w.path = f
                                   THEN applied'[f] ELSE job'[p].plan[f]
      BY DEF PlanWritten
    <3>1. CASE f = row.path
      BY <2>2, <2>3, <2>5, <2>6, <3>1, WriteFileDoes
    <3>2. CASE f # row.path
      <4>1. (\E w \in job'[p].write : w.path = f) <=> \E w \in job[p].write : w.path = f
        BY <2>2, <3>2
      <4> QED BY <2>2, <2>3, <3>2, <4>1, WriteFileDoes DEF PlanWritten
    <3> QED BY <3>1, <3>2
  <2>8. PlanChosen(p)'
    BY <2>3, WriteFileDoes DEF PlanChosen
  <2>9. \A q \in Apply \ {p} : job[q].at # "write" /\ PlanChosen(q)' = PlanChosen(q)
    <3>1. OneInSection
      BY <2>1 DEF AloneInserts
    <3> QED BY <3>1, WriteFileDoes DEF OneInSection, InSection, PlanChosen
  <2> QED BY <2>1, <2>2, <2>3, <2>7, <2>8, <2>9, WriteFileDoes DEF WritesPlan, RowsOf
<1>8. LoadsApplied'
  BY WriteFileDoes DEF LoadsApplied, StagesKept
<1>9. LockKept'
  BY WriteFileDoes DEF LockKept
<1> QED BY <1>1, <1>2, <1>3, <1>4, <1>6, <1>7, <1>8, <1>9

LEMMA KeepsReloads ==
  ASSUME ApplyInv, NEW p \in Apply, Reload(p) \/ ReloadFails(p)
  PROVE  ApplyInv'
<1> USE DEF ApplyInv
<1>1. ApplyTypeOK'
  BY ReloadDoes, ReleasedTyped DEF ApplyTypeOK
<1>2. KeysUnique' /\ OneRowPerFile'
  BY ReloadDoes DEF KeysUnique, OneRowPerFile, Uncommitted
<1>3. StagesKept'
  BY ReloadDoes, JobFacts DEF StagesKept
<1>4. RowsOwned' /\ ChosenSeen'
  BY ReloadDoes, JobFacts, RowFacts DEF RowsOwned, ChosenSeen, Uncommitted
<1>6. VersionsNext' /\ AloneInserts'
  BY ReloadDoes, QuietVersions DEF InSection, StagesKept
<1>7. WritesPlan'
  BY ReloadDoes DEF WritesPlan, PlanChosen, PlanWritten, RowsOf
<1>8. LoadsApplied'
  <2>1. SUFFICES ASSUME mixed = {}, \A q \in Apply : job'[q].stored => job'[q].at = "done"
                 PROVE  loaded' = applied'
    BY ReloadDoes DEF LoadsApplied
  <2>2. CASE job'[p].at = "done"
    <3>1. \A q \in Apply : job[q].at # "write"
      <4>1. OneInSection
        BY <2>1 DEF AloneInserts
      <4> QED BY <4>1, ReloadDoes DEF OneInSection, InSection
    <3>2. disk = applied
      BY <2>1, <3>1 DEF WritesPlan
    <3> QED BY <2>2, <3>2, ReloadDoes
  <2>3. CASE job'[p].at = "failed"
    <3>1. \A q \in Apply : job[q].stored => job[q].at = "done"
      BY <2>1, <2>3, ReloadDoes
    <3> QED BY <2>1, <2>3, <3>1, ReloadDoes DEF LoadsApplied
  <2> QED BY <2>2, <2>3, ReloadDoes
<1>9. LockKept'
  BY ReloadDoes DEF LockKept, Released
<1> QED BY <1>1, <1>2, <1>3, <1>4, <1>6, <1>7, <1>8, <1>9

LEMMA KeepsExpires ==
  ASSUME ApplyInv, Expire
  PROVE  ApplyInv'
<1> USE DEF ApplyInv
<1>1. ApplyTypeOK'
  BY ExpireDoes DEF ApplyTypeOK
<1>2. KeysUnique' /\ OneRowPerFile' /\ StagesKept'
  BY ExpireDoes, JobFacts DEF KeysUnique, OneRowPerFile, Uncommitted, StagesKept
<1>3. RowsOwned' /\ ChosenSeen'
  BY ExpireDoes, JobFacts, RowFacts DEF RowsOwned, ChosenSeen, Uncommitted
<1>4. VersionsNext'
  BY ExpireDoes DEF VersionsNext, ChosenStored, NewTogether, NewIsNext, IsNext, DueIsNext, Inserts,
                    Uncommitted, Committed, OfPath
<1>5. AloneInserts'
  BY ExpireDoes DEF AloneInserts, OneInSection, DueIsNew, InSection, Inserts, Sees, OfPath
<1>6. WritesPlan'
  BY ExpireDoes DEF WritesPlan, PlanChosen, PlanWritten, RowsOf
<1>7. LoadsApplied'
  BY ExpireDoes DEF LoadsApplied
<1>8. LockKept'
  BY ExpireDoes DEF LockKept
<1> QED BY <1>1, <1>2, <1>3, <1>4, <1>5, <1>6, <1>7, <1>8

\* There is one next version of a path.
LEMMA OneNext ==
  ASSUME ApplyTypeOK, NEW f, NEW v \in Nat \ {0}, NEW w \in Nat \ {0}, IsNext(f, v), IsNext(f, w)
  PROVE  v = w
<1>1. \A j \in OfPath(Committed, f) : files[j].version \in Nat /\ files[j].version >= 1
  BY RowFacts DEF OfPath, Committed
<1> QED BY <1>1 DEF IsNext

LEMMA KeepsCommits ==
  ASSUME ApplyInv, NEW p \in Apply, Commit(p)
  PROVE  ApplyInv'
<1> USE DEF ApplyInv
<1>1. ApplyTypeOK'
  BY CommitDoes DEF ApplyTypeOK
<1>2. KeysUnique' /\ OneRowPerFile'
  BY CommitDoes, RowFacts DEF KeysUnique, OneRowPerFile, Uncommitted
<1>3. StagesKept'
  BY CommitDoes, JobFacts DEF StagesKept
<1>4. RowsOwned' /\ ChosenSeen'
  BY CommitDoes, JobFacts, RowFacts DEF RowsOwned, ChosenSeen, Uncommitted
<1>5. /\ Uncommitted' = {i \in Uncommitted : files[i].by # p}
      /\ Committed' = Committed \cup {i \in Uncommitted : files[i].by = p}
      /\ Committed \subseteq DOMAIN files /\ Uncommitted \subseteq DOMAIN files
  BY CommitDoes, ApplyAssumption DEF Uncommitted, Committed
<1>6. Inserts(p)' = {} /\ \A q \in Apply \ {p} : Inserts(q)' = Inserts(q)
  BY CommitDoes DEF Inserts
<1>7. VersionsNext'
  <2>1. SUFFICES ASSUME "save" \notin mixed' PROVE ChosenStored' /\ NewTogether' /\ NewIsNext' /\ DueIsNext'
    BY DEF VersionsNext
  <2>2. ChosenStored /\ NewTogether /\ NewIsNext /\ DueIsNext
    BY <2>1, CommitDoes DEF VersionsNext
  <2>3. ChosenStored'
    BY <2>2, CommitDoes DEF ChosenStored
  <2>4. NewTogether'
    BY <1>5, <2>2, CommitDoes DEF NewTogether
  <2>5. NewIsNext'
    <3> SUFFICES ASSUME NEW i \in Uncommitted' PROVE IsNext(files[i].path, files[i].version)'
      BY DEF NewIsNext
    <3>1. i \in Uncommitted /\ i \in DOMAIN files /\ files[i].by # p
      BY <1>5
    <3>2. IsNext(files[i].path, files[i].version)
      BY <2>2, <3>1 DEF NewIsNext
    <3>3. \A j \in OfPath(Committed, files[i].path)' :
            j \in OfPath(Committed, files[i].path) /\ files'[j].version = files[j].version
      BY <1>5, <2>2, <3>1, CommitDoes DEF OfPath, NewTogether
    <3>4. \A j \in OfPath(Committed, files[i].path) :
            j \in OfPath(Committed, files[i].path)' /\ files'[j].version = files[j].version
      BY <1>5, <3>1, CommitDoes DEF OfPath
    <3> QED BY <3>1, <3>2, <3>3, <3>4, CommitDoes DEF IsNext
  <2>6. DueIsNext'
    <3> SUFFICES ASSUME NEW q \in Apply, NEW f \in Inserts(q)'
                 PROVE  /\ \/ job'[q].version = 1
                           \/ \E j \in OfPath(Committed, f)' : files'[j].version + 1 = job'[q].version
                        /\ \/ \A j \in OfPath(Committed, f)' : files'[j].version < job'[q].version
                           \/ \E j \in OfPath(Committed, f)' :
                                files'[j].name = BaseName[f] /\ files'[j].version = job'[q].version
      BY DEF DueIsNext
    <3>1. q # p /\ f \in Inserts(q) /\ job'[q] = job[q]
      BY <1>6, CommitDoes
    <3>2. \A j \in OfPath(Committed, f) :
            /\ j \in OfPath(Committed, f)' /\ files'[j].version = files[j].version
            /\ files'[j].name = files[j].name
      BY <1>5, CommitDoes DEF OfPath
    <3>3. job[q].version = 1 \/ \E j \in OfPath(Committed, f) : files[j].version + 1 = job[q].version
      BY <2>2, <3>1 DEF DueIsNext
    <3>4. CASE \E j \in OfPath(Committed, f) :
                 files[j].name = BaseName[f] /\ files[j].version = job[q].version
      BY <3>1, <3>2, <3>3, <3>4
    <3>5. CASE \A j \in OfPath(Committed, f) : files[j].version < job[q].version
      <4>1. IsNext(f, job[q].version) /\ job[q].version \in Nat \ {0}
        BY <3>1, <3>3, <3>5, JobFacts DEF IsNext, Inserts
      <4>2. ASSUME NEW i \in OfPath(Committed, f)', i \notin OfPath(Committed, f)
            PROVE  files'[i].name = BaseName[f] /\ files'[i].version = job[q].version
        <5>1. i \in Uncommitted /\ i \in DOMAIN files /\ files[i].path = f
          BY <1>5, <4>2, CommitDoes DEF OfPath
        <5>2. IsNext(f, files[i].version) /\ files[i].version \in Nat \ {0}
          BY <2>2, <5>1, RowFacts DEF NewIsNext
        <5>3. files[i].version = job[q].version
          BY <4>1, <5>2, OneNext
        <5>4. files[i].name = BaseName[f]
          BY <5>1 DEF RowsOwned
        <5> QED BY <5>1, <5>3, <5>4, CommitDoes
      <4> QED BY <3>1, <3>2, <3>3, <3>5, <4>2
    <3> QED BY <2>2, <3>1, <3>4, <3>5 DEF DueIsNext
  <2> QED BY <2>3, <2>4, <2>5, <2>6
<1>8. AloneInserts'
  <2>1. SUFFICES ASSUME {"apply", "save"} \cap mixed = {} PROVE OneInSection' /\ DueIsNew'
    BY CommitDoes DEF AloneInserts
  <2>2. OneInSection /\ InSection(p)
    BY <2>1, CommitDoes DEF AloneInserts, InSection
  <2>3. OneInSection'
    BY <2>2, CommitDoes DEF OneInSection, InSection
  <2>4. DueIsNew'
    BY <1>6, <2>2, CommitDoes DEF OneInSection, DueIsNew, InSection, Inserts
  <2> QED BY <2>3, <2>4
<1>9. WritesPlan'
  <2>1. SUFFICES ASSUME mixed = {} PROVE WritesPlan'
    BY CommitDoes DEF WritesPlan
  <2>2. OneInSection /\ InSection(p)
    BY <2>1, CommitDoes DEF AloneInserts, InSection
  <2>3. \A q \in Apply : job'[q].at \notin {"version", "write"} /\ job'[q].write = {}
    BY <2>2, CommitDoes DEF OneInSection, InSection, StagesKept
  <2>4. disk \in [Path -> Content \cup {None, Cut}] /\ disk' = disk /\ applied' \in [Path -> Content \cup {None}]
    BY CommitDoes DEF ApplyTypeOK
  <2>5. \A f \in Path : disk'[f] = applied'[f]
    BY <2>1, CommitDoes DEF WritesPlan, PlanWritten
  <2>6. disk' = applied'
    BY <2>4, <2>5
  <2> QED BY <2>3, <2>6 DEF WritesPlan
<1>10. LoadsApplied'
  BY CommitDoes DEF LoadsApplied
<1>11. LockKept'
  BY CommitDoes DEF LockKept
<1> QED BY <1>1, <1>2, <1>3, <1>4, <1>7, <1>8, <1>9, <1>10, <1>11

\* The rows of the next file that an apply sees are committed ones: its own are of
\* files that come before.
LEMMA SeesCommitted ==
  ASSUME ApplyTypeOK, RowsOwned, NEW p \in Apply, NEW f \in job[p].todo, job[p].at = "version",
         Sorted(job[p].todo, f)
  PROVE  OfPath(Sees(p), f) = OfPath(Committed, f)
<1>1. \A i \in OfPath(Sees(p), f) : files[i].by = NoApply
  <2> SUFFICES ASSUME NEW i \in OfPath(Sees(p), f), files[i].by # NoApply PROVE FALSE
    OBVIOUS
  <2>1. i \in Uncommitted /\ files[i].by = p /\ files[i].path = f
    BY DEF OfPath, Sees, Uncommitted
  <2>2. PathOrder[f] < PathOrder[f]
    BY <2>1 DEF RowsOwned
  <2>3. PathOrder[f] \in Nat
    BY JobFacts, PlacesOK
  <2> QED BY <2>2, <2>3
<1> QED BY <1>1 DEF OfPath, Sees, Committed

LEMMA SortedOnce ==
  ASSUME ApplyTypeOK, NEW p \in Apply, NEW f, NEW g,
         Sorted(job[p].todo, f), Sorted(job[p].todo, g)
  PROVE  f = g
<1>1. f \in Path /\ g \in Path /\ PathOrder[f] <= PathOrder[g] /\ PathOrder[g] <= PathOrder[f]
  BY JobFacts DEF Sorted
<1>2. PathOrder[f] \in Nat /\ PathOrder[g] \in Nat
  BY <1>1, PlacesOK
<1> QED BY <1>1, <1>2, PlacesOK

\* An apply that takes row i for its next file.
LEMMA PlanTaken ==
  ASSUME NEW p \in Apply, NEW f \in job[p].todo, NEW i, PlanChosen(p),
         DOMAIN files \subseteq DOMAIN files', i \in DOMAIN files',
         \A k \in job[p].chosen : files'[k] = files[k],
         i \notin job[p].chosen, files'[i].path = f, files'[i].content = job[p].plan[f],
         job'[p].plan = job[p].plan, job'[p].todo = job[p].todo \ {f},
         job'[p].chosen = job[p].chosen \cup {i}
  PROVE  PlanChosen(p)'
BY DEF PlanChosen

LEMMA KeepsCompares ==
  ASSUME ApplyInv, NEW p \in Apply, Compare(p)
  PROVE  ApplyInv'
<1> USE DEF ApplyInv
<1>1. PICK f \in job[p].todo :
        /\ Sorted(job[p].todo, f) /\ f \in Path
        /\ \/ \E i \in Prev(p, f) : files[i].content = job[p].plan[f] /\ Taken(p, f, i)
           \/ /\ job' \in [Apply -> ApplyJob] /\ \A q \in Apply \ {p} : job'[q] = job[q]
              /\ job'[p].at = job[p].at /\ job'[p].plan = job[p].plan
              /\ job'[p].todo = job[p].todo
              /\ job'[p].version = NextVersion(Prev(p, f))
              /\ job'[p].chosen = job[p].chosen
              /\ job'[p].holds = job[p].holds /\ job'[p].write = job[p].write
              /\ job'[p].late = job[p].late /\ job'[p].stored = job[p].stored
  BY CompareDoes
<1>2. /\ job[p].at = "version" /\ job[p].version = 0
      /\ UNCHANGED <<edits, files, lastId, disk, loaded, lock, applied, mixed, mishaps>>
  BY CompareDoes
<1>3. KeysUnique' /\ OneRowPerFile'
  BY <1>2 DEF KeysUnique, OneRowPerFile, Uncommitted
<1>4. CASE \E i \in Prev(p, f) : files[i].content = job[p].plan[f] /\ Taken(p, f, i)
  <2>1. PICK i \in Prev(p, f) : files[i].content = job[p].plan[f] /\ Taken(p, f, i)
    BY <1>4
  <2>2. /\ i \in DOMAIN files /\ i \in Sees(p) /\ files[i].path = f /\ i \in Nat
        /\ i \in 1 .. lastId /\ files[i].by \in {NoApply, p}
    <3>1. i \in DOMAIN files /\ i \in Sees(p) /\ files[i].path = f
      BY DEF Prev, Newest, OfPath, Sees
    <3> QED BY <3>1, RowFacts DEF Sees, ApplyTypeOK
  <2>3. /\ job' \in [Apply -> ApplyJob] /\ \A q \in Apply \ {p} : job'[q] = job[q]
        /\ job'[p].at = job[p].at /\ job'[p].plan = job[p].plan
        /\ job'[p].todo = job[p].todo \ {f} /\ job'[p].version = 0
        /\ job'[p].chosen = job[p].chosen \cup {i}
        /\ job'[p].holds = job[p].holds /\ job'[p].write = job[p].write
        /\ job'[p].late = job[p].late /\ job'[p].stored = job[p].stored
    BY <2>1, <2>2, TakenDoes
  <2>4. ApplyTypeOK'
    BY <1>2, <2>3 DEF ApplyTypeOK
  <2>5. StagesKept'
    BY <1>2, <2>2, <2>3, JobFacts DEF StagesKept
  <2>6. RowsOwned' /\ ChosenSeen'
    BY <1>2, <2>2, <2>3, JobFacts, RowFacts DEF RowsOwned, ChosenSeen, Uncommitted
  <2>7. VersionsNext' /\ AloneInserts'
    BY <1>2, <2>2, <2>3, QuietVersions DEF InSection
  <2>8. WritesPlan'
    <3>1. SUFFICES ASSUME mixed = {} PROVE WritesPlan'
      BY <1>2 DEF WritesPlan
    <3>2. PlanChosen(p)
      BY <1>2, <3>1 DEF WritesPlan
    <3>3. i \notin job[p].chosen
      BY <2>2, <3>2 DEF PlanChosen
    <3>4. PlanChosen(p)'
      BY <1>2, <2>1, <2>2, <2>3, <3>2, <3>3, PlanTaken
    <3>5. \A q \in Apply \ {p} : PlanChosen(q)' = PlanChosen(q) /\ PlanWritten(q)' = PlanWritten(q)
      BY <1>2, <2>3 DEF PlanChosen, PlanWritten
    <3>6. job[p].write = {} /\ job'[p].write = {}
      BY <1>2, <2>3 DEF StagesKept
    <3> QED BY <1>2, <2>3, <3>1, <3>4, <3>5, <3>6 DEF WritesPlan, RowsOf
  <2>9. LoadsApplied' /\ LockKept'
    BY <1>2, <2>3 DEF LoadsApplied, LockKept
  <2> QED BY <1>3, <2>4, <2>5, <2>6, <2>7, <2>8, <2>9
<1>5. CASE /\ job' \in [Apply -> ApplyJob] /\ \A q \in Apply \ {p} : job'[q] = job[q]
           /\ job'[p].at = job[p].at /\ job'[p].plan = job[p].plan
           /\ job'[p].todo = job[p].todo
           /\ job'[p].version = NextVersion(Prev(p, f))
           /\ job'[p].chosen = job[p].chosen
           /\ job'[p].holds = job[p].holds /\ job'[p].write = job[p].write
           /\ job'[p].late = job[p].late /\ job'[p].stored = job[p].stored
  <2>1. ApplyTypeOK'
    BY <1>2, <1>5 DEF ApplyTypeOK
  <2>2. StagesKept'
    BY <1>2, <1>5, JobFacts DEF StagesKept
  <2>3. RowsOwned' /\ ChosenSeen'
    BY <1>2, <1>5, JobFacts, RowFacts DEF RowsOwned, ChosenSeen, Uncommitted
  <2>4. /\ Committed' = Committed /\ Uncommitted' = Uncommitted
        /\ \A g : OfPath(Committed, g)' = OfPath(Committed, g)
        /\ \A q \in Apply : \A g : OfPath(Sees(q), g)' = OfPath(Sees(q), g)
    BY <1>2 DEF Committed, Uncommitted, OfPath, Sees
  <2>5. \A g \in Inserts(p)' : g = f
    BY <1>1, <1>5, SortedOnce DEF Inserts
  <2>6. \A q \in Apply \ {p} : Inserts(q)' = Inserts(q) /\ job'[q] = job[q]
    BY <1>5 DEF Inserts
  <2>7. OfPath(Sees(p), f) = OfPath(Committed, f)
    BY <1>1, <1>2, SeesCommitted
  <2>8. /\ \A i \in OfPath(Committed, f) : files[i].version < job'[p].version
        /\ \/ job'[p].version = 1
           \/ \E i \in OfPath(Committed, f) : files[i].version + 1 = job'[p].version
    <3>1. OfPath(Sees(p), f) \subseteq DOMAIN files
      BY DEF OfPath, Sees
    <3> QED BY <1>5, <2>7, <3>1, NextIsNew DEF Prev
  <2>9. VersionsNext'
    <3>1. NewIsNext => NewIsNext'
      BY <1>2, <2>4 DEF NewIsNext, IsNext
    <3>2. ASSUME DueIsNext PROVE DueIsNext'
      <4> SUFFICES ASSUME NEW q \in Apply, NEW g \in Inserts(q)'
                   PROVE  /\ \/ job'[q].version = 1
                             \/ \E j \in OfPath(Committed, g) : files[j].version + 1 = job'[q].version
                          /\ \/ \A j \in OfPath(Committed, g) : files[j].version < job'[q].version
                             \/ \E j \in OfPath(Committed, g) :
                                  files[j].name = BaseName[g] /\ files[j].version = job'[q].version
        BY <1>2, <2>4 DEF DueIsNext
      <4>1. CASE q = p
        BY <2>5, <2>8, <4>1
      <4>2. CASE q # p
        BY <2>6, <3>2, <4>2 DEF DueIsNext
      <4> QED BY <4>1, <4>2
    <3> QED BY <1>2, <1>5, <2>4, <3>1, <3>2 DEF VersionsNext, ChosenStored, NewTogether
  <2>10. AloneInserts'
    <3>1. ASSUME OneInSection PROVE OneInSection'
      BY <1>5, <3>1 DEF OneInSection, InSection
    <3>2. ASSUME DueIsNew PROVE DueIsNew'
      <4> SUFFICES ASSUME NEW q \in Apply, NEW g \in Inserts(q)', NEW i \in OfPath(Sees(q), g)
                   PROVE  files[i].version < job'[q].version
        BY <1>2, <2>4 DEF DueIsNew
      <4>1. CASE q = p
        BY <2>5, <2>7, <2>8, <4>1
      <4>2. CASE q # p
        BY <2>6, <3>2, <4>2 DEF DueIsNew
      <4> QED BY <4>1, <4>2
    <3> QED BY <1>2, <3>1, <3>2 DEF AloneInserts
  <2>11. WritesPlan'
    BY <1>2, <1>5 DEF WritesPlan, PlanChosen, PlanWritten, RowsOf
  <2>12. LoadsApplied' /\ LockKept'
    BY <1>2, <1>5 DEF LoadsApplied, LockKept
  <2> QED BY <1>3, <2>1, <2>2, <2>3, <2>9, <2>10, <2>11, <2>12
<1> QED BY <1>1, <1>4, <1>5

\* A new version goes in where no row has its name and version.
LEMMA KeepsInserts ==
  ASSUME ApplyInv, NEW p \in Apply, NEW f \in Inserts(p), Waits(p) = {},
         Clashes(Sees(p), NewRow(p, f)) = {},
         files' = RowsWith(NextId, NewRow(p, f)), lastId' = NextId, Taken(p, f, NextId),
         UNCHANGED <<lock, edits, disk, loaded, applied, mixed, mishaps>>
  PROVE  ApplyInv'
<1> USE DEF ApplyInv
<1>1. /\ job[p].at = "version" /\ job[p].version \in Nat \ {0} /\ f \in job[p].todo /\ f \in Path
      /\ Sorted(job[p].todo, f)
  BY JobFacts DEF Inserts
<1> DEFINE r == NewRow(p, f)
<1>2. /\ r.path = f /\ r.name = BaseName[f] /\ r.version = job[p].version
      /\ r.content = job[p].plan[f] /\ r.by = p
  BY DEF NewRow
<1>3. job[p].plan[f] # None => r \in Row
  BY <1>1, <1>2, JobFacts DEF NewRow, Row, NameOfFile
<1>4. r \in Row
  BY <1>1, <1>3 DEF StagesKept
<1>5. \A i \in DOMAIN files : files[i].name # BaseName[f] \/ files[i].version # job[p].version
  BY <1>2 DEF Waits, Clashes
<1> HIDE DEF r
<1>6. /\ files' \in [DOMAIN files' -> Row] /\ DOMAIN files' = DOMAIN files \cup {NextId}
      /\ files'[NextId] = r /\ \A j \in DOMAIN files : files'[j] = files[j]
      /\ DOMAIN files' \subseteq 1 .. NextId /\ NextId \in Nat /\ NextId \notin DOMAIN files
  <2>1. files' = RowsWith(NextId, r) /\ NextId \in DOMAIN files \cup {NextId}
    BY DEF r
  <2>2. NextId \notin DOMAIN files
    BY <1>4, <2>1, RowTyped
  <2> QED BY <1>4, <2>1, <2>2, RowTyped
<1>7. NextId \notin 1 .. lastId /\ lastId \in Nat /\ NextId = lastId + 1
  BY DEF NextId, ApplyTypeOK
<1>8. /\ job' \in [Apply -> ApplyJob] /\ \A q \in Apply \ {p} : job'[q] = job[q]
      /\ job'[p].at = job[p].at /\ job'[p].plan = job[p].plan
      /\ job'[p].todo = job[p].todo \ {f} /\ job'[p].version = 0
      /\ job'[p].chosen = job[p].chosen \cup {NextId}
      /\ job'[p].holds = job[p].holds /\ job'[p].write = job[p].write
      /\ job'[p].late = job[p].late /\ job'[p].stored = job[p].stored
  BY <1>1, <1>6, TakenDoes
<1>9. ApplyTypeOK'
  BY <1>6, <1>8 DEF ApplyTypeOK
<1>10. KeysUnique'
  BY <1>2, <1>5, <1>6 DEF KeysUnique
<1>11. StagesKept'
  BY <1>1, <1>7, <1>8, JobFacts DEF StagesKept
<1>12. p # NoApply
  BY ApplyAssumption
<1>13. /\ Uncommitted' = Uncommitted \cup {NextId} /\ Committed' = Committed
       /\ Uncommitted \subseteq DOMAIN files /\ Committed \subseteq DOMAIN files
  BY <1>2, <1>6, <1>12 DEF Uncommitted, Committed
<1>14. \A i \in Uncommitted : files[i].by = p => files[i].path # f
  <2> SUFFICES ASSUME NEW i \in Uncommitted, files[i].by = p, files[i].path = f PROVE FALSE
    OBVIOUS
  <2>1. PathOrder[f] < PathOrder[f] /\ PathOrder[f] \in Nat
    BY <1>1, PlacesOK DEF RowsOwned
  <2> QED BY <2>1
<1>15. RowsOwned'
  <2> SUFFICES ASSUME NEW i \in Uncommitted'
               PROVE  /\ job'[files'[i].by].at \in {"version", "write"}
                      /\ i \in job'[files'[i].by].chosen
                      /\ files'[i].name = BaseName[files'[i].path]
                      /\ \A g \in job'[files'[i].by].todo : job'[files'[i].by].at = "version" =>
                           PathOrder[files'[i].path] < PathOrder[g]
    BY DEF RowsOwned
  <2>1. CASE i = NextId
    <3>1. \A g \in job[p].todo \ {f} : PathOrder[f] < PathOrder[g]
      <4> SUFFICES ASSUME NEW g \in job[p].todo \ {f} PROVE PathOrder[f] < PathOrder[g]
        OBVIOUS
      <4>1. PathOrder[f] <= PathOrder[g] /\ g \in Path
        BY <1>1, JobFacts DEF Sorted
      <4>2. PathOrder[f] \in Nat /\ PathOrder[g] \in Nat /\ PathOrder[f] # PathOrder[g]
        BY <1>1, <4>1, PlacesOK
      <4> QED BY <4>1, <4>2
    <3> QED BY <1>1, <1>2, <1>6, <1>8, <2>1, <3>1
  <2>2. CASE i \in Uncommitted
    <3>1. files'[i] = files[i] /\ i \in DOMAIN files /\ files[i].by \in Apply
      BY <1>6, <1>13, <2>2, RowFacts DEF Uncommitted
    <3> QED BY <1>8, <2>2, <3>1 DEF RowsOwned
  <2> QED BY <1>13, <2>1, <2>2
<1>16. ChosenSeen'
  <2> SUFFICES ASSUME NEW q \in Apply, job'[q].at \in {"version", "write"},
                      NEW i \in job'[q].chosen \cap DOMAIN files'
               PROVE  files'[i].by \in {NoApply, q}
    BY DEF ChosenSeen
  <2>1. CASE i = NextId
    <3>1. q = p
      BY <1>7, <1>8, <2>1 DEF StagesKept
    <3> QED BY <1>2, <1>6, <2>1, <3>1
  <2>2. CASE i # NextId
    BY <1>6, <1>8, <2>2 DEF ChosenSeen
  <2> QED BY <2>1, <2>2
<1>17. OneRowPerFile'
  BY <1>2, <1>6, <1>13, <1>14 DEF OneRowPerFile
<1>18. /\ Inserts(p)' = {}
       /\ \A q \in Apply \ {p} : Inserts(q)' = Inserts(q) /\ job'[q] = job[q]
  BY <1>8 DEF Inserts
<1>19. \A g : OfPath(Committed, g)' = OfPath(Committed, g)
  BY <1>6, <1>13 DEF OfPath
<1>20. \A i \in Committed : files'[i] = files[i]
  BY <1>6, <1>13
<1>21. VersionsNext'
  <2>1. SUFFICES ASSUME "save" \notin mixed PROVE ChosenStored' /\ NewTogether' /\ NewIsNext' /\ DueIsNext'
    BY DEF VersionsNext
  <2>2. ChosenStored /\ NewTogether /\ NewIsNext /\ DueIsNext
    BY <2>1 DEF VersionsNext
  <2>3. ChosenStored'
    BY <1>6, <1>8, <2>2 DEF ChosenStored
  <2>4. \A j \in OfPath(Committed, f) : j \in Committed /\ j \in DOMAIN files
    BY <1>13 DEF OfPath
  <2>5. IsNext(f, job[p].version)
    <3>1. \A j \in OfPath(Committed, f) : files[j].version < job[p].version
      BY <1>5, <2>2, <2>4 DEF DueIsNext
    <3> QED BY <2>2, <3>1 DEF DueIsNext, IsNext
  <2>6. \A i \in Uncommitted : files[i].path # f
    <3> SUFFICES ASSUME NEW i \in Uncommitted, files[i].path = f PROVE FALSE
      OBVIOUS
    <3>1. i \in DOMAIN files /\ IsNext(f, files[i].version) /\ files[i].version \in Nat \ {0}
      BY <1>13, <2>2, RowFacts DEF NewIsNext
    <3>2. files[i].version = job[p].version
      BY <1>1, <2>5, <3>1, OneNext
    <3>3. files[i].name = BaseName[f]
      BY DEF RowsOwned
    <3> QED BY <1>5, <3>1, <3>2, <3>3
  <2>7. NewTogether'
    BY <1>2, <1>6, <1>13, <2>2, <2>6 DEF NewTogether
  <2>8. \A g, v : IsNext(g, v) => IsNext(g, v)'
    <3>1. \A g : \A j \in OfPath(Committed, g) : files'[j] = files[j]
      BY <1>20 DEF OfPath
    <3> QED BY <1>19, <3>1 DEF IsNext
  <2>9. NewIsNext'
    <3> SUFFICES ASSUME NEW i \in Uncommitted' PROVE IsNext(files[i].path, files[i].version)'
      BY DEF NewIsNext
    <3>1. CASE i = NextId
      <4>1. files'[i].path = f /\ files'[i].version = job[p].version
        BY <1>2, <1>6, <3>1
      <4>2. \A j \in OfPath(Committed, f) : files'[j] = files[j]
        BY <1>20 DEF OfPath
      <4> QED BY <1>19, <2>5, <4>1, <4>2 DEF IsNext
    <3>2. CASE i \in Uncommitted
      BY <1>6, <1>13, <2>2, <2>8, <3>2 DEF NewIsNext
    <3> QED BY <1>13, <3>1, <3>2
  <2>10. DueIsNext'
    <3>1. \A g : \A j \in OfPath(Committed, g) : files'[j] = files[j]
      BY <1>20 DEF OfPath
    <3> SUFFICES ASSUME NEW q \in Apply, NEW g \in Inserts(q)'
                 PROVE  /\ \/ job'[q].version = 1
                           \/ \E j \in OfPath(Committed, g)' : files'[j].version + 1 = job'[q].version
                        /\ \/ \A j \in OfPath(Committed, g)' : files'[j].version < job'[q].version
                           \/ \E j \in OfPath(Committed, g)' :
                                files'[j].name = BaseName[g] /\ files'[j].version = job'[q].version
      BY DEF DueIsNext
    <3>2. q # p /\ g \in Inserts(q) /\ job'[q] = job[q]
      BY <1>18
    <3> QED BY <1>19, <2>2, <3>1, <3>2 DEF DueIsNext
  <2> QED BY <2>3, <2>7, <2>9, <2>10
<1>22. AloneInserts'
  <2>1. SUFFICES ASSUME {"apply", "save"} \cap mixed = {} PROVE OneInSection' /\ DueIsNew'
    BY DEF AloneInserts
  <2>2. OneInSection /\ InSection(p)
    BY <1>1, <2>1 DEF AloneInserts, InSection
  <2>3. OneInSection'
    BY <1>8, <2>2 DEF OneInSection, InSection
  <2>4. \A q \in Apply : Inserts(q)' = {}
    <3>1. \A q \in Apply : Inserts(q) # {} => InSection(q)
      BY DEF Inserts, InSection
    <3> QED BY <1>18, <2>2, <3>1 DEF OneInSection
  <2> QED BY <2>3, <2>4 DEF DueIsNew
<1>23. WritesPlan'
  <2>1. SUFFICES ASSUME mixed = {} PROVE WritesPlan'
    BY DEF WritesPlan
  <2>2. PlanChosen(p) /\ OneInSection
    BY <1>1, <2>1 DEF WritesPlan, AloneInserts
  <2>3. NextId \notin job[p].chosen
    BY <1>7 DEF StagesKept
  <2>4. \A k \in job[p].chosen : files'[k] = files[k]
    BY <1>6, <2>2 DEF PlanChosen
  <2>5. PlanChosen(p)'
    BY <1>1, <1>2, <1>6, <1>8, <2>2, <2>3, <2>4, PlanTaken
  <2>6. \A q \in Apply \ {p} : job'[q].at \notin {"version", "write"}
    BY <1>1, <1>8, <2>2 DEF OneInSection, InSection
  <2>7. \A q \in Apply : job'[q].at # "write" /\ job[q].at # "write" /\ job'[q].write = {}
    BY <1>1, <1>8, <2>6 DEF StagesKept
  <2>8. disk' = applied'
    BY <2>1, <2>7 DEF WritesPlan
  <2> QED BY <2>5, <2>6, <2>7, <2>8 DEF WritesPlan
<1>24. LoadsApplied' /\ LockKept'
  BY <1>8 DEF LoadsApplied, LockKept
<1> QED
  BY <1>9, <1>10, <1>11, <1>15, <1>16, <1>17, <1>21, <1>22, <1>23, <1>24

LEMMA KeepsGivesUp ==
  ASSUME ApplyInv, NEW p \in Apply, GivesUp(p)
  PROVE  ApplyInv'
<1> USE DEF ApplyInv
<1>1. /\ job' \in [Apply -> ApplyJob] /\ \A q \in Apply \ {p} : job'[q] = job[q]
      /\ job'[p].at \in {"failed", "clashed"} /\ (job'[p].at = "clashed" => job[p].at = "version")
      /\ job'[p].late = job[p].late /\ job'[p].stored = job[p].stored
      /\ job'[p].chosen = {} /\ job'[p].write = {} /\ job'[p].version = 0
      /\ job'[p].todo = {} /\ ~ job'[p].holds
      /\ InSection(p) /\ p # NoApply
  BY ApplyAssumption DEF GivesUp, InSection
<1>2. /\ files' \in [DOMAIN files' -> Row]
      /\ DOMAIN files' = {i \in DOMAIN files : files[i].by # p}
      /\ \A j \in DOMAIN files' : files'[j] = files[j]
  BY DEF GivesUp
<1>3. /\ UNCHANGED <<edits, lastId, loaded, applied>> /\ lock' \in {lock, Released(p)}
      /\ disk' \in [Path -> Content \cup {None, Cut}]
  BY DEF GivesUp
<1>4. mixed' \subseteq {"apply", "save", "torn"} /\ mixed \subseteq mixed'
  BY BetweenTyped DEF GivesUp, ApplyTypeOK, Torn
<1>5. ApplyTypeOK'
  <2>1. lock' \in Apply \cup {NoApply}
    BY <1>3, ReleasedTyped DEF ApplyTypeOK
  <2>2. mishaps' \in 0 .. MaxMishaps
    BY DEF GivesUp
  <2> QED BY <1>1, <1>2, <1>3, <1>4, <2>1, <2>2 DEF ApplyTypeOK
<1>6. KeysUnique'
  BY <1>2 DEF KeysUnique
<1>7. StagesKept'
  BY <1>1, <1>3, JobFacts DEF StagesKept
<1>8. /\ Uncommitted' = {i \in Uncommitted : files[i].by # p} /\ Committed' = Committed
      /\ Uncommitted' \subseteq DOMAIN files' /\ Committed' \subseteq DOMAIN files'
  BY <1>1, <1>2 DEF Uncommitted, Committed
<1>9. \A i \in Uncommitted' : i \in Uncommitted /\ files'[i] = files[i] /\ files[i].by \in Apply \ {p}
  BY <1>2, <1>8, RowFacts DEF Uncommitted
<1>10. RowsOwned' /\ OneRowPerFile'
  BY <1>1, <1>9 DEF RowsOwned, OneRowPerFile
<1>11. ChosenSeen'
  BY <1>1, <1>2 DEF ChosenSeen
<1>12. /\ Inserts(p)' = {}
       /\ \A q \in Apply \ {p} : Inserts(q)' = Inserts(q) /\ job'[q] = job[q]
  BY <1>1 DEF Inserts
<1>13. \A g : OfPath(Committed, g)' = OfPath(Committed, g)
              /\ \A j \in OfPath(Committed, g) : files'[j] = files[j]
  BY <1>2, <1>8 DEF OfPath
<1>14. VersionsNext'
  <2>1. SUFFICES ASSUME "save" \notin mixed' PROVE ChosenStored' /\ NewTogether' /\ NewIsNext' /\ DueIsNext'
    BY DEF VersionsNext
  <2>2. ChosenStored /\ NewTogether /\ NewIsNext /\ DueIsNext
    BY <1>4, <2>1 DEF VersionsNext
  <2>3. ChosenStored'
    <3> SUFFICES ASSUME NEW q \in Apply, job'[q].at \in {"version", "write"}, NEW i \in job'[q].chosen
                 PROVE  i \in DOMAIN files'
      BY DEF ChosenStored
    <3>1. q # p /\ job'[q] = job[q]
      BY <1>1
    <3>2. i \in DOMAIN files /\ files[i].by \in {NoApply, q}
      BY <2>2, <3>1 DEF ChosenStored, ChosenSeen
    <3> QED BY <1>1, <1>2, <3>1, <3>2
  <2>4. NewTogether'
    BY <1>9, <2>2 DEF NewTogether
  <2>5. NewIsNext'
    BY <1>9, <1>13, <2>2 DEF NewIsNext, IsNext
  <2>6. DueIsNext'
    <3> SUFFICES ASSUME NEW q \in Apply, NEW g \in Inserts(q)'
                 PROVE  /\ \/ job'[q].version = 1
                           \/ \E j \in OfPath(Committed, g)' : files'[j].version + 1 = job'[q].version
                        /\ \/ \A j \in OfPath(Committed, g)' : files'[j].version < job'[q].version
                           \/ \E j \in OfPath(Committed, g)' :
                                files'[j].name = BaseName[g] /\ files'[j].version = job'[q].version
      BY DEF DueIsNext
    <3>1. q # p /\ g \in Inserts(q) /\ job'[q] = job[q]
      BY <1>12
    <3> QED BY <1>13, <2>2, <3>1 DEF DueIsNext
  <2> QED BY <2>3, <2>4, <2>5, <2>6
<1>15. ASSUME OneInSection PROVE \A q \in Apply : ~InSection(q)'
  BY <1>1, <1>15 DEF OneInSection, InSection
<1>16. AloneInserts'
  <2>1. SUFFICES ASSUME {"apply", "save"} \cap mixed' = {} PROVE OneInSection' /\ DueIsNew'
    BY DEF AloneInserts
  <2>2. OneInSection
    BY <1>4, <2>1 DEF AloneInserts
  <2>3. \A q \in Apply : ~InSection(q)' /\ Inserts(q)' = {}
    <3>1. \A q \in Apply : Inserts(q)' # {} => InSection(q)'
      BY DEF Inserts, InSection
    <3> QED BY <1>15, <2>2, <3>1
  <2> QED BY <2>3 DEF OneInSection, DueIsNew
<1>17. WritesPlan'
  <2>1. SUFFICES ASSUME mixed' = {} PROVE WritesPlan'
    BY DEF WritesPlan
  <2>2. mixed = {}
    BY <1>4, <2>1
  <2>3. OneInSection
    BY <2>2 DEF AloneInserts
  <2>4. \A q \in Apply : job'[q].at \notin {"version", "write"} /\ job'[q].write = {}
    BY <1>7, <1>15, <2>3 DEF InSection, StagesKept
  <2>5. disk = applied
    <3>1. CASE job[p].at = "write"
      <4>1. mixed' = Torn(p)
        BY <2>1, <3>1 DEF GivesUp
      <4>2. job[p].write = RowsOf(job[p].chosen)
        BY <2>1, <3>1, <4>1 DEF Torn
      <4>3. PlanChosen(p) /\ PlanWritten(p) /\ job[p].todo = {}
        BY <2>2, <3>1 DEF WritesPlan, StagesKept
      <4>4. \A f \in Path : job[p].plan[f] # None => \E row \in job[p].write : row.path = f
        BY <4>2, <4>3 DEF PlanChosen, RowsOf
      <4>5. \A f \in Path : disk[f] = applied[f]
        BY <4>3, <4>4 DEF PlanWritten
      <4> QED BY <4>5 DEF ApplyTypeOK
    <3>2. CASE job[p].at # "write"
      <4>1. \A q \in Apply : job[q].at # "write"
        BY <1>1, <2>3, <3>2 DEF OneInSection, InSection
      <4> QED BY <2>2, <4>1 DEF WritesPlan
    <3> QED BY <3>1, <3>2
  <2>6. disk' = disk
    BY <2>1 DEF GivesUp
  <2> QED BY <1>3, <2>4, <2>5, <2>6 DEF WritesPlan
<1>18. LoadsApplied'
  BY <1>1, <1>3, <1>4 DEF LoadsApplied
<1>19. LockKept'
  BY <1>1, <1>3 DEF LockKept, Released
<1> QED BY <1>5, <1>6, <1>7, <1>10, <1>11, <1>14, <1>16, <1>17, <1>18, <1>19

\* The staff changes the stored files; nobody is in the section unless that is noted.
LEMMA KeepsStaff ==
  ASSUME ApplyInv, ByStaff, files' \in [DOMAIN files' -> Row],
         lastId' \in Nat, lastId' >= lastId, DOMAIN files' \subseteq 1 .. lastId',
         KeysUnique', Uncommitted' = Uncommitted,
         \A i \in Uncommitted : files'[i] = files[i],
         \A i \in DOMAIN files' : i \notin Uncommitted => files'[i].by = NoApply
  PROVE  ApplyInv'
<1> USE DEF ApplyInv
<1>1. /\ UNCHANGED <<edits, disk, loaded, lock, job, applied>>
      /\ mixed' = CameBetween("save") /\ mishaps' \in 0 .. MaxMishaps
  BY MishapTyped DEF ByStaff
<1>2. ApplyTypeOK'
  BY <1>1, BetweenTyped DEF ApplyTypeOK
<1>3. StagesKept'
  <2>1. 1 .. lastId \subseteq 1 .. lastId'
    BY DEF ApplyTypeOK
  <2> QED BY <1>1, <2>1 DEF StagesKept
<1>4. RowsOwned' /\ OneRowPerFile'
  BY <1>1 DEF RowsOwned, OneRowPerFile
<1>5. ChosenSeen'
  BY <1>1 DEF ChosenSeen, Uncommitted
<1>6. mixed \subseteq mixed' /\ (("save" \notin mixed') => \A q \in Apply : ~InSection(q))
  BY <1>1 DEF CameBetween
<1>7. ASSUME "save" \notin mixed'
      PROVE  /\ \A q \in Apply : ~InSection(q)' /\ Inserts(q)' = {} /\ ~InSection(q)
             /\ Uncommitted' = {}
  <2>1. \A q \in Apply : ~InSection(q)
    BY <1>6, <1>7
  <2>2. \A q \in Apply : job'[q].at = job[q].at
    BY <1>1
  <2>3. Uncommitted = {}
    BY <2>1, RowFacts DEF RowsOwned, InSection, Uncommitted
  <2> QED BY <2>1, <2>2, <2>3 DEF InSection, Inserts
<1>8. VersionsNext'
  BY <1>7 DEF VersionsNext, ChosenStored, NewTogether, NewIsNext, DueIsNext, InSection
<1>9. AloneInserts'
  BY <1>7 DEF AloneInserts, OneInSection, DueIsNew
<1>10. WritesPlan'
  <2>1. SUFFICES ASSUME mixed' = {} PROVE WritesPlan'
    BY DEF WritesPlan
  <2>2. \A q \in Apply : job[q].at \notin {"version", "write"} /\ job[q].write = {}
    BY <1>7, <2>1 DEF InSection, StagesKept
  <2>3. disk = applied
    BY <1>6, <2>1, <2>2 DEF WritesPlan
  <2> QED BY <1>1, <2>2, <2>3 DEF WritesPlan
<1>11. LoadsApplied' /\ LockKept'
  BY <1>1, <1>6 DEF LoadsApplied, LockKept
<1> QED BY <1>2, <1>3, <1>4, <1>5, <1>8, <1>9, <1>10, <1>11

LEMMA KeepsStores ==
  ASSUME ApplyInv, ByStaff, NEW i \in Committed \cup {NextId}, NEW r \in Row, r.by = NoApply,
         Store(i, r)
  PROVE  ApplyInv'
<1> USE DEF ApplyInv
<1>1. i \in DOMAIN files \cup {NextId} /\ files' = RowsWith(i, r)
  BY DEF Committed, Store
<1>2. /\ files' \in [DOMAIN files' -> Row] /\ DOMAIN files' = DOMAIN files \cup {i}
      /\ files'[i] = r /\ \A j \in DOMAIN files \ {i} : files'[j] = files[j]
      /\ DOMAIN files \cup {i} \subseteq 1 .. NextId /\ NextId \notin DOMAIN files
  <2>1. /\ RowsWith(i, r) \in [DOMAIN RowsWith(i, r) -> Row]
        /\ DOMAIN RowsWith(i, r) = DOMAIN files \cup {i}
        /\ RowsWith(i, r)[i] = r
        /\ \A j \in DOMAIN files \ {i} : RowsWith(i, r)[j] = files[j]
        /\ DOMAIN files \cup {i} \subseteq 1 .. NextId /\ NextId \notin DOMAIN files
    BY <1>1, RowTyped, ZenonT(40)
  <2> QED BY <1>1, <2>1
<1>3. lastId' \in Nat /\ lastId' >= lastId /\ DOMAIN files' \subseteq 1 .. lastId'
  BY <1>2 DEF Store, NextId, ApplyTypeOK, Committed
<1>4. KeysUnique'
  BY <1>2 DEF KeysUnique, Store, Clashes
<1>5. i \notin Uncommitted /\ Uncommitted \subseteq DOMAIN files
  BY <1>2 DEF Uncommitted, Committed
<1>6. Uncommitted' = Uncommitted /\ (\A j \in Uncommitted : files'[j] = files[j])
  BY <1>2, <1>5 DEF Uncommitted
<1>7. \A j \in DOMAIN files' : j \notin Uncommitted => files'[j].by = NoApply
  BY <1>6 DEF Uncommitted
<1> QED BY <1>2, <1>3, <1>4, <1>6, <1>7, KeepsStaff

LEMMA KeepsDeletes ==
  ASSUME ApplyInv, NEW i \in Committed, DeleteFile(i)
  PROVE  ApplyInv'
<1> USE DEF ApplyInv
<1>1. ByStaff /\ files' = RowsWithout({i}) /\ lastId' = lastId
  BY DEF DeleteFile
<1>2. /\ files' \in [DOMAIN files' -> Row] /\ DOMAIN files' = DOMAIN files \ {i}
      /\ \A j \in DOMAIN files \ {i} : files'[j] = files[j]
  BY <1>1, WithoutTyped
<1>3. lastId' \in Nat /\ lastId' >= lastId /\ DOMAIN files' \subseteq 1 .. lastId'
  BY <1>1, <1>2 DEF ApplyTypeOK
<1>4. KeysUnique'
  BY <1>2 DEF KeysUnique
<1>5. Uncommitted' = Uncommitted /\ (\A j \in Uncommitted : files'[j] = files[j])
  BY <1>2 DEF Uncommitted, Committed
<1>6. \A j \in DOMAIN files' : j \notin Uncommitted => files'[j].by = NoApply
  BY <1>5 DEF Uncommitted
<1> QED BY <1>1, <1>2, <1>3, <1>4, <1>5, <1>6, KeepsStaff

LEMMA KeepsStill ==
  ASSUME ApplyInv, UNCHANGED <<files, lastId, disk, loaded, lock, job, applied, mixed, mishaps>>,
         edits' \in 0 .. MaxEdits
  PROVE  ApplyInv'
<1> USE DEF ApplyInv
<1>1. ApplyTypeOK'
  BY DEF ApplyTypeOK
<1>2. /\ KeysUnique' /\ StagesKept' /\ RowsOwned' /\ ChosenSeen' /\ OneRowPerFile'
      /\ LoadsApplied' /\ LockKept'
  BY DEF KeysUnique, StagesKept, RowsOwned, ChosenSeen, OneRowPerFile, LoadsApplied, LockKept,
         Uncommitted
<1>3. VersionsNext'
  BY DEF VersionsNext, ChosenStored, NewTogether, NewIsNext, IsNext, DueIsNext, Inserts,
         Uncommitted, Committed, OfPath
<1>4. AloneInserts'
  BY DEF AloneInserts, OneInSection, DueIsNew, InSection, Inserts, Sees, OfPath
<1>5. WritesPlan'
  BY DEF WritesPlan, PlanChosen, PlanWritten, RowsOf
<1> QED BY <1>1, <1>2, <1>3, <1>4, <1>5

-----------------------------------------------------------------------------
(* The invariant holds. *)

LEMMA ApplyStarts ==
  ASSUME ApplyInit
  PROVE  ApplyInv
<1>1. PICK ids \in {{}, {PathOrder[f] : f \in Path}} :
        /\ files = [i \in ids |-> FirstRow(CHOOSE f \in Path : PathOrder[f] = i)]
        /\ \A i \in ids : Clashes(ids, files[i]) = {i}
        /\ lastId = IF ids = {} THEN 0 ELSE Cardinality(Path)
        /\ disk = [f \in Path |-> IF ids = {} THEN None ELSE 0]
  BY DEF ApplyInit
<1>2. \A i \in ids : i \in 1 .. Cardinality(Path)
                     /\ FirstRow(CHOOSE f \in Path : PathOrder[f] = i) \in Row
                     /\ FirstRow(CHOOSE f \in Path : PathOrder[f] = i).by = NoApply
  <2> SUFFICES ASSUME NEW i \in ids
               PROVE  /\ i \in 1 .. Cardinality(Path)
                      /\ FirstRow(CHOOSE f \in Path : PathOrder[f] = i) \in Row
                      /\ FirstRow(CHOOSE f \in Path : PathOrder[f] = i).by = NoApply
    OBVIOUS
  <2>1. PICK g \in Path : PathOrder[g] = i
    OBVIOUS
  <2>2. (CHOOSE f \in Path : PathOrder[f] = i) \in Path
    BY <2>1
  <2>3. ASSUME NEW f \in Path PROVE FirstRow(f) \in Row /\ FirstRow(f).by = NoApply
    BY ApplyAssumption DEF FirstRow, Row, NameOfFile, Content
  <2> QED BY <2>1, <2>2, <2>3, PlacesOK
<1>3. files \in [ids -> Row] /\ DOMAIN files = ids /\ \A i \in ids : files[i].by = NoApply
  BY <1>1, <1>2
<1>4. /\ job \in [Apply -> ApplyJob]
      /\ \A p \in Apply : /\ job[p].at = "idle" /\ job[p].chosen = {} /\ job[p].write = {}
                          /\ job[p].version = 0 /\ ~ job[p].holds /\ ~ job[p].stored
  <2>1. "idle" \in Stage
    BY DEF Stage
  <2> QED BY <2>1, OutsideTyped DEF ApplyInit
<1>5. /\ disk \in [Path -> Content \cup {None, Cut}]
      /\ disk \in [Path -> Content \cup {None}]
  BY <1>1, ApplyAssumption DEF Content
<1>6. /\ edits = 0 /\ loaded = disk /\ applied = disk /\ lock = NoApply /\ mixed = {}
      /\ mishaps = 0
  BY DEF ApplyInit
<1>7. lastId \in Nat /\ ids \subseteq 1 .. lastId
  BY <1>1, <1>2, PlacesOK
<1>8. ApplyTypeOK
  BY <1>3, <1>4, <1>5, <1>6, <1>7, ApplyAssumption DEF ApplyTypeOK
<1>9. KeysUnique
  <2> SUFFICES ASSUME NEW i \in ids, NEW j \in ids,
                      files[i].name = files[j].name, files[i].version = files[j].version
               PROVE  i = j
    BY <1>3 DEF KeysUnique
  <2>1. j \in Clashes(ids, files[i])
    BY DEF Clashes
  <2> QED BY <1>1, <2>1
<1>10. StagesKept
  BY <1>4 DEF StagesKept
<1>11. Uncommitted = {} /\ \A p \in Apply : Inserts(p) = {} /\ ~InSection(p)
  BY <1>3, <1>4 DEF Uncommitted, Inserts, InSection
<1>12. RowsOwned /\ ChosenSeen /\ OneRowPerFile
  BY <1>4, <1>11 DEF RowsOwned, ChosenSeen, OneRowPerFile
<1>13. VersionsNext
  BY <1>4, <1>11 DEF VersionsNext, ChosenStored, NewTogether, NewIsNext, DueIsNext
<1>14. AloneInserts
  BY <1>11 DEF AloneInserts, OneInSection, DueIsNew
<1>15. WritesPlan /\ LoadsApplied /\ LockKept
  BY <1>4, <1>6 DEF WritesPlan, LoadsApplied, LockKept
<1> QED
  BY <1>8, <1>9, <1>10, <1>12, <1>13, <1>14, <1>15 DEF ApplyInv

LEMMA ApplyKeeps ==
  ASSUME ApplyInv, [ApplyNext]_applyVars
  PROVE  ApplyInv'
<1>1. ApplyTypeOK
  BY DEF ApplyInv
<1>2. ASSUME NEW p \in Apply, BeginApply(p) \/ ApplyStep(p) \/ ApplyFails(p)
      PROVE  ApplyInv'
  <2>1. CASE BeginApply(p)
    BY <2>1, KeepsBegins
  <2>2. CASE Generate(p)
    BY <2>2, KeepsGenerates
  <2>3. CASE ReadFiles(p)
    BY <2>3, KeepsReadsFiles
  <2>4. CASE Compare(p)
    BY <2>4, KeepsCompares
  <2>5. CASE InsertRow(p)
    <3>1. PICK f \in Inserts(p) :
            /\ Waits(p) = {}
            /\ IF Clashes(Sees(p), NewRow(p, f)) = {}
               THEN /\ files' = RowsWith(NextId, NewRow(p, f)) /\ lastId' = NextId
                    /\ Taken(p, f, NextId) /\ UNCHANGED lock
               ELSE RolledBack(p) /\ Leave(p, "clashed") /\ UNCHANGED lastId
            /\ UNCHANGED <<edits, disk, loaded, applied, mixed, mishaps>>
      BY <2>5 DEF InsertRow
    <3>2. CASE Clashes(Sees(p), NewRow(p, f)) = {}
      BY <3>1, <3>2, KeepsInserts
    <3>3. CASE Clashes(Sees(p), NewRow(p, f)) # {}
      <4>1. job[p].at = "version"
        BY DEF Inserts
      <4>2. GivesUp(p)
        BY <1>1, <3>1, <3>3, <4>1, GiveUp
      <4> QED BY <4>2, KeepsGivesUp
    <3> QED BY <3>2, <3>3
  <2>6. CASE Backup(p)
    BY <2>6, KeepsBacksUp
  <2>7. CASE WriteFile(p)
    BY <2>7, KeepsWrites
  <2>8. CASE Commit(p)
    BY <2>8, KeepsCommits
  <2>9. CASE CommitFails(p) \/ WriteFails(p) \/ Killed(p)
    BY <1>1, <2>9, GiveUp, KeepsGivesUp
  <2>10. CASE Reload(p) \/ ReloadFails(p)
    BY <2>10, KeepsReloads
  <2> QED
    BY <1>2, <2>1, <2>2, <2>3, <2>4, <2>5, <2>6, <2>7, <2>8, <2>9, <2>10
    DEF ApplyStep, ApplyFails
<1>3. CASE Expire
  BY <1>3, KeepsExpires
<1>4. CASE Staff
  <2>1. CASE Edit
    <3>1. edits' \in 0 .. MaxEdits
      BY <1>1, <2>1, ApplyAssumption DEF Edit, ApplyTypeOK
    <3> QED BY <2>1, <3>1, KeepsStill DEF Edit
  <2>2. ASSUME NEW obj \in Committed \cup {None}, NEW o \in Offered, NEW c \in Content,
               SaveFile(obj, o[1], o[2], c)
        PROVE  ApplyInv'
    BY <1>1, <2>2, StaffStores, KeepsStores
  <2>3. ASSUME NEW o \in Offered, NEW c \in StaffContent, ImportFile(o[1], o[2], c)
        PROVE  ApplyInv'
    BY <1>1, <2>3, StaffImports, KeepsStores
  <2>4. ASSUME NEW i \in Committed, DeleteFile(i)
        PROVE  ApplyInv'
    BY <2>4, KeepsDeletes
  <2> QED BY <1>4, <2>1, <2>2, <2>3, <2>4 DEF Staff
<1>5. CASE UNCHANGED applyVars
  BY <1>1, <1>5, KeepsStill DEF applyVars, ApplyTypeOK
<1> QED BY <1>2, <1>3, <1>4, <1>5 DEF ApplyNext

\* The invariant of all of them: what an apply has chosen, stored and written so far
\* belongs to its stage, and to it alone (post, apply_to_fs).
THEOREM ApplyInvariant == ApplySpec => []ApplyInv
<1>1. ApplyInit => ApplyInv
  BY ApplyStarts
<1>2. ApplyInv /\ [ApplyNext]_applyVars => ApplyInv'
  BY ApplyKeeps
<1> QED BY <1>1, <1>2, PTL DEF ApplySpec

-----------------------------------------------------------------------------
(* What a step of one apply leaves alone. *)

LEMMA CompareMoves ==
  ASSUME ApplyTypeOK, NEW p \in Apply, Compare(p)
  PROVE  /\ \A q \in Apply \ {p} : job'[q] = job[q]
         /\ job'[p].at = job[p].at /\ job'[p].stored = job[p].stored /\ UNCHANGED files
<1>1. PICK f \in job[p].todo :
        \/ \E i \in Prev(p, f) : Taken(p, f, i)
        \/ /\ \A q \in Apply \ {p} : job'[q] = job[q]
           /\ job'[p].at = job[p].at /\ job'[p].stored = job[p].stored
  BY CompareDoes
<1>2. Prev(p, f) \subseteq Nat
  BY RowFacts DEF Prev, Newest, OfPath, Sees
<1> QED BY <1>1, <1>2, TakenDoes, CompareDoes

\* An insert goes through, or the apply gives up.
LEMMA InsertMoves ==
  ASSUME ApplyInv, NEW p \in Apply, InsertRow(p)
  PROVE  \/ GivesUp(p) /\ \E f \in Inserts(p) : Clashes(Sees(p), NewRow(p, f)) # {}
         \/ /\ \A q \in Apply \ {p} : job'[q] = job[q]
            /\ job'[p].at = job[p].at /\ job'[p].stored = job[p].stored
            /\ Committed' = Committed /\ \A i \in Committed : files'[i] = files[i]
<1>1. ApplyTypeOK
  BY DEF ApplyInv
<1>2. PICK f \in Inserts(p) :
        /\ IF Clashes(Sees(p), NewRow(p, f)) = {}
           THEN /\ files' = RowsWith(NextId, NewRow(p, f)) /\ lastId' = NextId
                /\ Taken(p, f, NextId) /\ UNCHANGED lock
           ELSE RolledBack(p) /\ Leave(p, "clashed") /\ UNCHANGED lastId
        /\ UNCHANGED <<edits, disk, loaded, applied, mixed, mishaps>>
  BY DEF InsertRow
<1>3. CASE Clashes(Sees(p), NewRow(p, f)) = {}
  <2>1. NextId \in Nat /\ NextId \notin DOMAIN files /\ f \in job[p].todo
    BY <1>1 DEF NextId, Inserts, ApplyTypeOK
  <2>2. /\ DOMAIN files' = DOMAIN files \cup {NextId} /\ files'[NextId].by = p
        /\ \A i \in DOMAIN files : files'[i] = files[i]
    BY <1>2, <1>3, <2>1 DEF RowsWith, NewRow
  <2>3. Committed' = Committed /\ \A i \in Committed : files'[i] = files[i]
    BY <2>1, <2>2, ApplyAssumption DEF Committed
  <2> QED BY <1>1, <1>2, <1>3, <2>1, <2>3, TakenDoes
<1>4. CASE Clashes(Sees(p), NewRow(p, f)) # {}
  <2>1. job[p].at = "version"
    BY DEF Inserts
  <2> QED BY <1>1, <1>2, <1>4, <2>1, GiveUp
<1> QED BY <1>3, <1>4

LEMMA GivesUpMoves ==
  ASSUME ApplyTypeOK, NEW p \in Apply, GivesUp(p)
  PROVE  /\ \A q \in Apply : job'[q].stored = job[q].stored
         /\ Committed' = Committed /\ \A i \in Committed : files'[i] = files[i]
BY ApplyAssumption DEF GivesUp, Committed

-----------------------------------------------------------------------------
(* Applies keep apart. *)

LEMMA InvDisk == ApplyInv => DiskIsApplied
BY DEF ApplyInv, DiskIsApplied, WritesPlan, LoadsApplied, InSection

LEMMA InvOneWriter == ApplyInv => OneWriterPerVersion
<1> SUFFICES ASSUME ApplyInv, "save" \notin mixed, NEW p \in Apply, NEW q \in Apply, p # q,
                    job[p].at = "write", job[q].at = "write",
                    NEW i \in job[p].chosen, NEW j \in job[q].chosen,
                    files[i].by = p, files[j].by = q, files[i].path = files[j].path
             PROVE  FALSE
  BY DEF OneWriterPerVersion
<1>1. ChosenStored /\ NewTogether
  BY DEF ApplyInv, VersionsNext
<1>2. i \in Uncommitted /\ j \in Uncommitted
  BY <1>1, ApplyAssumption DEF ChosenStored, Uncommitted
<1> QED BY <1>1, <1>2 DEF NewTogether

\* An apply waits for one that has an earlier file behind it, if that inserts at all.
LEMMA WaitsForward ==
  ASSUME ApplyInv, NamesTellPaths, NEW p \in Apply, NEW q \in Waits(p) \cap Apply,
         NEW g \in Inserts(q)
  PROVE  \E f \in Inserts(p) : PathOrder[f] < PathOrder[g]
<1>1. PICK f \in Inserts(p) : \E i \in Clashes(DOMAIN files \ Sees(p), NewRow(p, f)) :
        files[i].by = q
  BY DEF Waits
<1>2. PICK i \in Clashes(DOMAIN files \ Sees(p), NewRow(p, f)) : files[i].by = q
  BY <1>1
<1>3. i \in DOMAIN files /\ i \in Uncommitted /\ files[i].name = BaseName[f] /\ f \in Path
  BY <1>2, JobFacts, ApplyAssumption DEF ApplyInv, Clashes, Uncommitted, Sees, NewRow, Inserts
<1>4. files[i].path = f
  BY <1>3, RowFacts DEF ApplyInv, RowsOwned, NamesTellPaths
<1>5. g \in job[q].todo /\ job[q].at = "version"
  BY DEF Inserts
<1> QED BY <1>1, <1>2, <1>3, <1>4, <1>5 DEF ApplyInv, RowsOwned

LEMMA InvNoCircle == ApplyInv => NoneWaitInCircle
<1> SUFFICES ASSUME ApplyInv, NamesTellPaths, NEW circle \in (SUBSET Apply) \ {{}},
                    \A p \in circle : Waits(p) \cap circle # {}
             PROVE  FALSE
  BY DEF NoneWaitInCircle
<1> DEFINE Due == {f \in Path : \E p \in circle : f \in Inserts(p)}
<1> DEFINE Left == {n \in Nat : \E f \in Due : n = Cardinality(Path) - PathOrder[f]}
<1>1. \A p \in circle : Inserts(p) # {} /\ Inserts(p) \subseteq Path
  BY JobFacts, ZenonT(40) DEF ApplyInv, Inserts, Waits
<1>2. \A f \in Path : /\ PathOrder[f] \in Nat
                      /\ Cardinality(Path) \in Nat /\ Cardinality(Path) - PathOrder[f] \in Nat
  BY PlacesOK
<1>3. Left # {} /\ Left \subseteq Nat
  BY <1>1, <1>2
<1>4. PICK least \in Left : \A n \in Left : least <= n
  <2> HIDE DEF Left
  <2> QED BY <1>3, LeastNat
<1>5. PICK f \in Path, p \in circle : f \in Inserts(p) /\ least = Cardinality(Path) - PathOrder[f]
  BY <1>4
\* The apply with the last file of all waits for another, whose file is later still.
<1>6. PICK g \in Path, q \in circle : g \in Inserts(q) /\ PathOrder[f] < PathOrder[g]
  <2>1. PICK q \in circle : q \in Waits(p)
    BY <1>5
  <2>2. PICK g \in Inserts(q) : TRUE
    BY <1>1, <2>1
  <2>3. PICK e \in Inserts(p) : PathOrder[e] < PathOrder[g]
    BY <2>1, <2>2, WaitsForward
  <2>4. e = f
    BY <1>5, <2>3, SortedOnce DEF ApplyInv, Inserts
  <2> QED BY <1>1, <2>1, <2>2, <2>3, <2>4
<1>7. Cardinality(Path) - PathOrder[g] \in Left
  BY <1>2, <1>6
<1>8. least <= Cardinality(Path) - PathOrder[g]
  BY <1>4, <1>7
<1> HIDE DEF Left, Due
<1> QED BY <1>2, <1>5, <1>6, <1>8

\* Only an insert lets an apply clash.
LEMMA ClashStep ==
  ASSUME ApplyInv, [ApplyNext]_applyVars
  PROVE  ClashOnlyIf
<1> USE DEF ApplyInv
<1> SUFFICES ASSUME NEW p \in Apply, job[p].at = "version", job'[p].at = "clashed"
             PROVE  \/ {"apply", "save"} \cap mixed # {}
                    \/ \E i \in Committed : files[i].name # BaseName[files[i].path]
                    \/ ~ NamesTellPaths
  BY DEF ClashOnlyIf
<1>1. PICK q \in Apply : BeginApply(q) \/ ApplyStep(q) \/ ApplyFails(q)
  <2>1. ~ (UNCHANGED job)
    OBVIOUS
  <2>2. ~ Staff
    BY <2>1 DEF Staff, Edit, SaveFile, ImportFile, DeleteFile, ByStaff
  <2>3. ~ Expire
    BY ExpireDoes
  <2> QED BY <2>1, <2>2, <2>3 DEF ApplyNext, applyVars
<1>2. q = p
  <2>1. CASE BeginApply(q)
    BY <2>1, BeginDoes
  <2>2. CASE Generate(q)
    BY <2>2, GenerateDoes
  <2>3. CASE ReadFiles(q)
    BY <2>3, ReadFilesDoes
  <2>4. CASE Compare(q)
    BY <2>4, CompareMoves
  <2>5. CASE InsertRow(q)
    BY <2>5, InsertMoves DEF GivesUp
  <2>6. CASE Backup(q)
    BY <2>6, BackupDoes
  <2>7. CASE WriteFile(q)
    BY <2>7, WriteFileDoes
  <2>8. CASE Commit(q)
    BY <2>8, CommitDoes
  <2>9. CASE CommitFails(q) \/ WriteFails(q) \/ Killed(q)
    BY <2>9, GiveUp DEF GivesUp
  <2>10. CASE Reload(q) \/ ReloadFails(q)
    BY <2>10, ReloadDoes
  <2> QED
    BY <1>1, <2>1, <2>2, <2>3, <2>4, <2>5, <2>6, <2>7, <2>8, <2>9, <2>10
    DEF ApplyStep, ApplyFails
<1>3. InsertRow(p)
  <2>1. ~ BeginApply(p) /\ ~ Generate(p) /\ ~ ReadFiles(p)
    BY DEF BeginApply, Generate, ReadFiles
  <2>2. ~ Backup(p) /\ ~ WriteFile(p) /\ ~ Commit(p)
    BY BackupDoes DEF WriteFile, Commit
  <2>3. ~ CommitFails(p) /\ ~ WriteFails(p) /\ ~ Reload(p) /\ ~ ReloadFails(p)
    BY DEF CommitFails, WriteFails, Reload, ReloadFails
  <2>4. ~ Killed(p)
    <3>1. "failed" \in Stage
      BY DEF Stage, Ended
    <3>2. Killed(p) => job'[p].at = "failed"
      BY <3>1, LeaveDoes DEF Killed
    <3> QED BY <3>2
  <2>5. ~ Compare(p)
    BY CompareMoves
  <2> QED
    BY <1>1, <1>2, <2>1, <2>2, <2>3, <2>4, <2>5 DEF ApplyStep, ApplyFails
<1>4. PICK f \in Inserts(p) : Clashes(Sees(p), NewRow(p, f)) # {}
  BY <1>3, InsertMoves
<1>5. PICK i \in Sees(p) : files[i].name = BaseName[f] /\ files[i].version = job[p].version
  BY <1>4 DEF Clashes, NewRow
<1>6. i \in DOMAIN files /\ files[i].path \in Path /\ f \in Path /\ files[i].version \in Nat
  BY <1>5, RowFacts, JobFacts DEF Sees, Inserts
<1>7. CASE files[i].path = f /\ {"apply", "save"} \cap mixed = {}
  <2>1. files[i].version < job[p].version
    BY <1>5, <1>7 DEF AloneInserts, DueIsNew, OfPath
  <2> QED BY <1>5, <1>6, <2>1
<1>8. CASE files[i].path # f /\ files[i].by = NoApply
  BY <1>5, <1>6, <1>8 DEF Committed, NamesTellPaths
<1>9. CASE files[i].path # f /\ files[i].by # NoApply
  <2>1. files[i].name = BaseName[files[i].path]
    BY <1>6, <1>9 DEF RowsOwned, Uncommitted
  <2> QED BY <1>5, <1>6, <1>9, <2>1 DEF NamesTellPaths
<1> QED BY <1>7, <1>8, <1>9

-----------------------------------------------------------------------------
(* The versions are a ledger. *)

LEMMA KeysInLedger == KeysUnique => Books!OnePerKey(LedgerEntries)
<1> SUFFICES ASSUME KeysUnique, NEW i \in Committed, NEW j \in Committed,
                    Books!Key(Entry(i)) = Books!Key(Entry(j))
             PROVE  Entry(i) = Entry(j)
  BY DEF Books!OnePerKey, LedgerEntries
<1>1. files[i].name = files[j].name /\ files[i].version = files[j].version
  BY DEF Books!Key, Entry
<1> QED BY <1>1 DEF KeysUnique, Committed

LEMMA KeysInLedgerNext == KeysUnique' => Books!OnePerKey(LedgerEntries)'
BY KeysInLedger, PTL

LEMMA SamePublishers ==
  ASSUME \A p \in Apply : job'[p].stored = job[p].stored
  PROVE  Publishers' = Publishers
BY DEF Publishers

\* Rows that stay as they are stay in the ledger.
LEMMA SameEntries ==
  ASSUME Committed' = Committed, \A i \in Committed : files'[i] = files[i]
  PROVE  LedgerEntries' = LedgerEntries
BY DEF LedgerEntries, Entry

LEMMA CommitPublishes ==
  ASSUME ApplyInv, ApplyInv', NEW p \in Apply, Commit(p)
  PROVE  Books!Publish(p, LedgerEntries' \ LedgerEntries)
<1> USE DEF ApplyInv
<1>1. p \notin Publishers /\ Publishers' = Publishers \cup {p}
  BY CommitDoes DEF Publishers, StagesKept
<1>2. \A i \in Committed : i \in Committed' /\ Entry(i)' = Entry(i)
  BY CommitDoes DEF Committed, Entry
<1>3. LedgerEntries \subseteq LedgerEntries'
  BY <1>2 DEF LedgerEntries
<1>4. Books!OnePerKey(LedgerEntries)'
  BY KeysInLedgerNext
<1>5. Books!OnePerPath(LedgerEntries' \ LedgerEntries)
  <2> SUFFICES ASSUME NEW i \in Committed', NEW j \in Committed',
                      Entry(i)' \notin LedgerEntries, Entry(j)' \notin LedgerEntries,
                      Entry(i)'.path = Entry(j)'.path
               PROVE  Entry(i)' = Entry(j)'
    BY DEF Books!OnePerPath, LedgerEntries
  <2>1. i \notin Committed /\ j \notin Committed
    BY <1>2 DEF LedgerEntries
  <2>2. /\ i \in Uncommitted /\ files[i].by = p /\ j \in Uncommitted /\ files[j].by = p
        /\ files[i].path = files[j].path
    BY <2>1, CommitDoes DEF Committed, Uncommitted, Entry
  <2>3. i = j
    BY <2>2 DEF OneRowPerFile
  <2> QED BY <2>3
<1> QED BY <1>1, <1>3, <1>4, <1>5 DEF Books!Publish

LEMMA StoreAmends ==
  ASSUME ApplyInv, ApplyInv', ByStaff, NEW i \in Committed \cup {NextId}, NEW r \in Row,
         r.by = NoApply, Store(i, r)
  PROVE  \E entry \in LedgerEntries' : \E old \in {{}} \cup {{e} : e \in LedgerEntries} :
           Books!Amend(old, entry)
<1> USE DEF ApplyInv
<1>1. /\ DOMAIN files' = DOMAIN files \cup {i} /\ files'[i] = r
      /\ \A j \in DOMAIN files \ {i} : files'[j] = files[j]
      /\ NextId \notin DOMAIN files
  <2>1. i \in DOMAIN files \cup {NextId} /\ files' = RowsWith(i, r)
    BY DEF Committed, Store
  <2>2. /\ DOMAIN RowsWith(i, r) = DOMAIN files \cup {i}
        /\ RowsWith(i, r)[i] = r
        /\ \A j \in DOMAIN files \ {i} : RowsWith(i, r)[j] = files[j]
        /\ NextId \notin DOMAIN files
    BY <2>1, RowTyped
  <2> QED BY <2>1, <2>2
<1>2. Committed' = Committed \cup {i}
  BY <1>1 DEF Committed
<1>3. \A j \in Committed \ {i} : Entry(j)' = Entry(j) /\ Entry(j) # Entry(i)
  BY <1>1 DEF Committed, Entry
<1> DEFINE old == IF i \in Committed THEN {Entry(i)} ELSE {}
<1>4. LedgerEntries' = (LedgerEntries \ old) \cup {Entry(i)'}
  BY <1>2, <1>3 DEF LedgerEntries
<1>5. Publishers' = Publishers
  BY SamePublishers DEF ByStaff
<1>6. Books!OnePerKey(LedgerEntries)'
  BY KeysInLedgerNext
<1>7. old \in {{}} \cup {{e} : e \in LedgerEntries}
  BY DEF LedgerEntries
<1>8. Entry(i)' \in LedgerEntries'
  BY <1>4
<1> QED BY <1>4, <1>5, <1>6, <1>7, <1>8 DEF Books!Amend

LEMMA DeleteStrikes ==
  ASSUME ApplyInv, NEW i \in Committed, DeleteFile(i)
  PROVE  \E entry \in LedgerEntries : Books!Strike(entry)
<1> USE DEF ApplyInv
<1>1. DOMAIN files' = DOMAIN files \ {i} /\ \A j \in DOMAIN files \ {i} : files'[j] = files[j]
  BY WithoutTyped DEF DeleteFile
<1>2. Committed' = Committed \ {i}
  BY <1>1 DEF Committed
<1>3. \A j \in Committed \ {i} : Entry(j)' = Entry(j) /\ Entry(j) # Entry(i)
  BY <1>1 DEF Committed, Entry
<1>4. LedgerEntries' = LedgerEntries \ {Entry(i)} /\ Entry(i) \in LedgerEntries
  BY <1>2, <1>3 DEF LedgerEntries
<1>5. Publishers' = Publishers
  BY SamePublishers DEF DeleteFile, ByStaff
<1> QED BY <1>4, <1>5 DEF Books!Strike

\* The steps that leave the ledger as it is.
LEMMA LedgerStays ==
  ASSUME ApplyInv, UNCHANGED files, \A p \in Apply : job'[p].stored = job[p].stored
  PROVE  UNCHANGED <<LedgerEntries, Publishers>>
<1>1. Committed' = Committed /\ \A i \in Committed : files'[i] = files[i]
  BY DEF Committed
<1> QED BY <1>1, SameEntries, SamePublishers

LEMMA LedgerStep ==
  ASSUME ApplyInv, ApplyInv', [ApplyNext]_applyVars
  PROVE  [Books!LedgerNext]_<<LedgerEntries, Publishers>>
<1>1. ApplyTypeOK
  BY DEF ApplyInv
<1>2. ASSUME NEW p \in Apply, BeginApply(p) \/ ApplyStep(p) \/ ApplyFails(p), ~ Commit(p)
      PROVE  UNCHANGED <<LedgerEntries, Publishers>>
  <2>1. CASE BeginApply(p)
    BY <1>1, <2>1, BeginDoes, LedgerStays
  <2>2. CASE Generate(p)
    BY <1>1, <2>2, GenerateDoes, LedgerStays
  <2>3. CASE ReadFiles(p)
    BY <1>1, <2>3, ReadFilesDoes, LedgerStays
  <2>4. CASE Compare(p)
    BY <1>1, <2>4, CompareMoves, LedgerStays
  <2>5. CASE InsertRow(p)
    BY <1>1, <2>5, InsertMoves, GivesUpMoves, SameEntries, SamePublishers
  <2>6. CASE Backup(p)
    BY <1>1, <2>6, BackupDoes, LedgerStays
  <2>7. CASE WriteFile(p)
    BY <1>1, <2>7, WriteFileDoes, LedgerStays
  <2>8. CASE CommitFails(p) \/ WriteFails(p) \/ Killed(p)
    BY <1>1, <2>8, GiveUp, GivesUpMoves, SameEntries, SamePublishers
  <2>9. CASE Reload(p) \/ ReloadFails(p)
    BY <1>1, <2>9, ReloadDoes, LedgerStays
  <2> QED
    BY <1>2, <2>1, <2>2, <2>3, <2>4, <2>5, <2>6, <2>7, <2>8, <2>9 DEF ApplyStep, ApplyFails
<1>3. ASSUME NEW p \in Apply, Commit(p) PROVE Books!LedgerNext
  BY <1>3, CommitPublishes DEF Books!LedgerNext
<1>4. CASE Expire
  BY <1>1, <1>4, ExpireDoes, LedgerStays
<1>5. CASE Staff
  <2>1. CASE Edit
    BY <2>1, LedgerStays DEF Edit
  <2>2. ASSUME NEW obj \in Committed \cup {None}, NEW o \in Offered, NEW c \in Content,
               SaveFile(obj, o[1], o[2], c)
        PROVE  Books!LedgerNext
    BY <1>1, <2>2, StaffStores, StoreAmends DEF Books!LedgerNext
  <2>3. ASSUME NEW o \in Offered, NEW c \in StaffContent, ImportFile(o[1], o[2], c)
        PROVE  Books!LedgerNext
    BY <1>1, <2>3, StaffImports, StoreAmends DEF Books!LedgerNext
  <2>4. ASSUME NEW i \in Committed, DeleteFile(i)
        PROVE  Books!LedgerNext
    BY <2>4, DeleteStrikes DEF Books!LedgerNext
  <2> QED BY <1>5, <2>1, <2>2, <2>3, <2>4 DEF Staff
<1>6. CASE UNCHANGED applyVars
  BY <1>6, LedgerStays DEF applyVars
<1> QED BY <1>2, <1>3, <1>4, <1>5, <1>6 DEF ApplyNext

\* The versions of the files are a ledger: an apply adds all of its new versions when it
\* commits or none, at most one for a path and each under a name and version that are
\* free; nobody else adds, changes or removes more than one at a time (post,
\* create_configuration_file, save_model).
THEOREM VersionsAreALedgerAlways == ApplySpec => VersionsAreALedger
<1>1. ApplyInit => Books!LedgerInit
  <2> SUFFICES ASSUME ApplyInit PROVE Books!LedgerInit
    OBVIOUS
  <2>1. ApplyInv
    BY ApplyStarts
  <2>2. Publishers = {}
    <3>1. \A p \in Apply : job[p] = Outside("idle", FALSE, FALSE)
      BY DEF ApplyInit
    <3> QED BY <3>1 DEF Publishers, Outside
  <2> QED BY <2>1, <2>2, KeysInLedger DEF ApplyInv, Books!LedgerInit
<1>2. ApplyInv /\ ApplyInv' /\ [ApplyNext]_applyVars
        => [Books!LedgerNext]_<<LedgerEntries, Publishers>>
  BY LedgerStep
<1> QED
  BY <1>1, <1>2, ApplyInvariant, PTL
  DEF ApplySpec, VersionsAreALedger, Books!LedgerSpec

-----------------------------------------------------------------------------
(* SIP. *)

\* The keys of a row name rows.
KeysHeld(row) ==
  /\ row.transport \in DOMAIN transports \cup {Null}
  /\ row.table \in tables \cup {Null}

SipTyped ==
  /\ DOMAIN transports \subseteq Transport
  /\ \A t \in DOMAIN transports : transports[t] \in TransportRows
  /\ tables \subseteq Table
  /\ \A n \in DOMAIN users : n \in Name /\ users[n] \in UserRows /\ KeysHeld(users[n])
  /\ \A n \in DOMAIN peers : n \in Name /\ peers[n] \in PeerRows /\ KeysHeld(peers[n])
  /\ members \subseteq Name /\ loose \subseteq Name
  /\ settings \in BOOLEAN

SipInv == SipTyped /\ ops \in 0 .. MaxOps /\ MembersHaveEndpoints

LEMMA SipBounds == MaxOps \in Nat
BY SipAssumption

LEMMA SipKeys == Null \notin Transport /\ Null \notin Table
BY SipAssumption

LEMMA SipInitially == SipInit => SipInv
<1> SUFFICES ASSUME SipInit PROVE SipInv
  OBVIOUS
<1>1. ops \in 0 .. MaxOps
  <2>1. ops = 0 \/ ops = MaxOps
    BY DEF SipInit
  <2> QED BY <2>1, SipBounds
<1>2. /\ \A t \in DOMAIN transports : transports[t] \in TransportRows
      /\ DOMAIN transports = Transport /\ tables = Table
      /\ members = {} /\ loose = {} /\ settings = TRUE
  BY SipAssumption DEF SipInit
<1>3. \A n \in DOMAIN users : n \in Name /\ users[n] \in UserRows
  <2>1. ASSUME NEW m \in Name, NEW row \in UserRows, users = With(<<>>, m, row)
        PROVE  \A n \in DOMAIN users : n \in Name /\ users[n] \in UserRows
    BY <2>1 DEF With
  <2>2. CASE users = <<>>
    BY <2>2
  <2> QED BY <2>1, <2>2 DEF SipInit
<1>4. \A n \in DOMAIN peers : n \in Name /\ peers[n] \in PeerRows
  <2>1. ASSUME NEW m \in Name, NEW row \in PeerRows, peers = With(<<>>, m, row)
        PROVE  \A n \in DOMAIN peers : n \in Name /\ peers[n] \in PeerRows
    BY <2>1 DEF With
  <2>2. CASE peers = <<>>
    BY <2>2
  <2>3. PICK m : m = CHOOSE n \in Name : TRUE
    OBVIOUS
  <2>4. m \in Name
    BY <2>3, SipAssumption
  <2>5. peers = <<>> \/ \E row \in PeerRows : peers = With(<<>>, m, row)
    BY <2>3 DEF SipInit
  <2> QED BY <2>1, <2>2, <2>4, <2>5
<1>5. SipTyped
  <2>1. \A row \in UserRows \cup PeerRows : KeysHeld(row)
    BY <1>2 DEF KeysHeld, UserRows, PeerRows
  <2> QED BY <1>2, <1>3, <1>4, <2>1 DEF SipTyped
<1> QED BY <1>1, <1>2, <1>5 DEF SipInv, MembersHaveEndpoints

\* Rows that keep their keys.
LEMMA RowsStay ==
  ASSUME SipInv, DOMAIN transports \subseteq DOMAIN transports', tables \subseteq tables'
  PROVE  \A row : KeysHeld(row) => KeysHeld(row)'
BY DEF KeysHeld

LEMMA SipChange ==
  ASSUME SipInv, Change
  PROVE  ops' \in 0 .. MaxOps
<1>1. ops \in 0 .. MaxOps /\ ops < MaxOps /\ ops' = ops + 1
  BY DEF SipInv, Change
<1> QED BY <1>1, SipBounds

\* Nothing else than the transports and tables changes.
LEMMA SipRefStep ==
  ASSUME SipInv, UNCHANGED <<users, peers, members, settings, loose>>,
         DOMAIN transports' \subseteq Transport, tables' \subseteq Table,
         \A t \in DOMAIN transports' : transports'[t] \in TransportRows,
         \A n \in DOMAIN users : KeysHeld(users[n])',
         \A n \in DOMAIN peers : KeysHeld(peers[n])'
  PROVE  SipTyped' /\ MembersHaveEndpoints'
BY DEF SipInv, SipTyped, MembersHaveEndpoints

LEMMA TransportsStep ==
  ASSUME SipInv,
         (\E t \in Transport : DeleteTransport(t) \/ \E row \in TransportRow : SaveTransport(t, row))
         \/ \E x \in Table : SaveTable(x) \/ DeleteTable(x)
  PROVE  SipTyped' /\ MembersHaveEndpoints'
<1>1. ASSUME NEW t \in Transport, NEW row \in TransportRow, SaveTransport(t, row)
      PROVE  SipTyped' /\ MembersHaveEndpoints'
  <2>1. /\ DOMAIN transports' = DOMAIN transports \cup {t}
        /\ \A u \in DOMAIN transports' : transports'[u] \in TransportRows
        /\ UNCHANGED <<tables, users, peers, members, settings, loose>>
    BY <1>1, SipAssumption DEF SaveTransport, With, SipInv, SipTyped
  <2> QED BY <2>1, RowsStay, SipRefStep DEF SipInv, SipTyped
<1>2. ASSUME NEW x \in Table, SaveTable(x) PROVE SipTyped' /\ MembersHaveEndpoints'
  <2>1. tables' = tables \cup {x} /\ UNCHANGED <<transports, users, peers, members, settings, loose>>
    BY <1>2 DEF SaveTable
  <2> QED BY <2>1, RowsStay, SipRefStep DEF SipInv, SipTyped
<1>3. ASSUME NEW t \in Transport, DeleteTransport(t) PROVE SipTyped' /\ MembersHaveEndpoints'
  <2>1. /\ DOMAIN transports' = DOMAIN transports \ {t}
        /\ \A u \in DOMAIN transports' : transports'[u] = transports[u]
        /\ UNCHANGED <<tables, users, peers, members, settings, loose>>
    BY <1>3 DEF DeleteTransport, Drop
  <2>2. /\ \A n \in DOMAIN users : users[n].transport # t
        /\ \A n \in DOMAIN peers : peers[n].transport # t
    BY <1>3 DEF DeleteTransport, Holders
  <2>3. /\ \A n \in DOMAIN users : KeysHeld(users[n])'
        /\ \A n \in DOMAIN peers : KeysHeld(peers[n])'
    BY <2>1, <2>2 DEF KeysHeld, SipInv, SipTyped
  <2> QED BY <2>1, <2>3, SipRefStep DEF SipInv, SipTyped
<1>4. ASSUME NEW x \in Table, DeleteTable(x) PROVE SipTyped' /\ MembersHaveEndpoints'
  <2>1. tables' = tables \ {x} /\ UNCHANGED <<transports, users, peers, members, settings, loose>>
    BY <1>4 DEF DeleteTable
  <2>2. /\ \A n \in DOMAIN users : users[n].table # x
        /\ \A n \in DOMAIN peers : peers[n].table # x
    BY <1>4 DEF DeleteTable, Holders
  <2>3. /\ \A n \in DOMAIN users : KeysHeld(users[n])'
        /\ \A n \in DOMAIN peers : KeysHeld(peers[n])'
    BY <2>1, <2>2 DEF KeysHeld, SipInv, SipTyped
  <2> QED BY <2>1, <2>3, SipRefStep DEF SipInv, SipTyped
<1> QED BY <1>1, <1>2, <1>3, <1>4

LEMMA SaveUserStep ==
  ASSUME SipInv, NEW n \in Name, NEW old \in DOMAIN users \cup {Null}, NEW row \in UserRow,
         SaveUser(old, n, row)
  PROVE  SipTyped' /\ MembersHaveEndpoints'
<1>1. /\ UNCHANGED <<transports, tables, peers, members, settings>>
      /\ loose' = loose \cup IF old \in {Null, n} THEN {} ELSE {old}
      /\ row \in UserRows /\ KeysHeld(row)
  BY SipAssumption DEF SaveUser, Complete, KeysHeld
<1>2. /\ DOMAIN users' = (DOMAIN users \ ({old} \ {Null})) \cup {n}
      /\ \A m \in DOMAIN users' : users'[m] = IF m = n THEN row ELSE users[m]
  BY DEF SaveUser, With, Drop
<1>3. SipTyped'
  BY <1>1, <1>2 DEF SipInv, SipTyped, KeysHeld
<1>4. MembersHaveEndpoints'
  BY <1>1, <1>2 DEF SipInv, MembersHaveEndpoints
<1> QED BY <1>3, <1>4

LEMMA SavePeerStep ==
  ASSUME SipInv, NEW n \in Name, NEW old \in DOMAIN peers \cup {Null}, NEW row \in PeerRow,
         SavePeer(old, n, row)
  PROVE  SipTyped' /\ MembersHaveEndpoints'
<1>1. /\ UNCHANGED <<transports, tables, users, members, settings>>
      /\ loose' = loose \cup IF old \in {Null, n} THEN {} ELSE {old}
      /\ row \in PeerRows /\ KeysHeld(row)
  BY SipAssumption DEF SavePeer, Complete, KeysHeld
<1>2. /\ DOMAIN peers' = (DOMAIN peers \ ({old} \ {Null})) \cup {n}
      /\ \A m \in DOMAIN peers' : peers'[m] = IF m = n THEN row ELSE peers[m]
  BY DEF SavePeer, With, Drop
<1>3. SipTyped'
  BY <1>1, <1>2 DEF SipInv, SipTyped, KeysHeld
<1>4. MembersHaveEndpoints'
  BY <1>1, <1>2 DEF SipInv, MembersHaveEndpoints
<1> QED BY <1>3, <1>4

LEMMA NamesStep ==
  ASSUME SipInv, NEW n \in Name, DeleteUser(n) \/ DeletePeer(n) \/ TypeMember(n)
  PROVE  SipTyped' /\ MembersHaveEndpoints'
<1>1. CASE DeleteUser(n)
  <2>1. /\ DOMAIN users' = DOMAIN users \ {n} /\ \A m \in DOMAIN users' : users'[m] = users[m]
        /\ members' = (IF n \in DOMAIN peers THEN members ELSE members \ {n})
        /\ UNCHANGED <<transports, tables, peers, settings, loose>>
    BY <1>1 DEF DeleteUser, Drop, Cleaned
  <2> QED BY <2>1 DEF SipInv, SipTyped, KeysHeld, MembersHaveEndpoints
<1>2. CASE DeletePeer(n)
  <2>1. /\ DOMAIN peers' = DOMAIN peers \ {n} /\ \A m \in DOMAIN peers' : peers'[m] = peers[m]
        /\ loose' = loose \cup {n}
        /\ UNCHANGED <<transports, tables, users, members, settings>>
    BY <1>2 DEF DeletePeer, Drop
  <2> QED BY <2>1 DEF SipInv, SipTyped, KeysHeld, MembersHaveEndpoints
<1>3. CASE TypeMember(n)
  BY <1>3 DEF TypeMember, SipInv, SipTyped, KeysHeld, MembersHaveEndpoints
<1> QED BY <1>1, <1>2, <1>3

LEMMA SipStep == SipInv /\ [SipNext]_sipVars => SipInv'
<1> SUFFICES ASSUME SipInv, [SipNext]_sipVars PROVE SipInv'
  OBVIOUS
<1>1. CASE UNCHANGED sipVars
  BY <1>1 DEF sipVars, SipInv, SipTyped, KeysHeld, MembersHaveEndpoints
<1>2. CASE SipNext
  <2>1. Change
    BY <1>2 DEF SipNext, DeleteTransport, SaveTransport, SaveTable, DeleteTable, DeleteUser, DeletePeer,
       TypeMember, SaveUser, SavePeer, AddMembers, SaveSettings
  <2>2. ASSUME NEW ns \in SUBSET Name, AddMembers(ns) PROVE SipTyped' /\ MembersHaveEndpoints'
    BY <2>2 DEF AddMembers, SipInv, SipTyped, KeysHeld, MembersHaveEndpoints
  <2>3. ASSUME SaveSettings PROVE SipTyped' /\ MembersHaveEndpoints'
    BY <2>3 DEF SaveSettings, SipInv, SipTyped, KeysHeld, MembersHaveEndpoints
  <2>4. SipTyped' /\ MembersHaveEndpoints'
    BY <1>2, <2>2, <2>3, TransportsStep, SaveUserStep, SavePeerStep, NamesStep, SMTT(30) DEF SipNext
  <2> QED BY <2>1, <2>4, SipChange DEF SipInv
<1> QED BY <1>1, <1>2

\* Where a section of pjsip.conf comes from.
LEMMA SectionsFrom ==
  ASSUME NEW s
  PROVE  s \in PjsipConf <=>
           \/ s \in TransportSections \/ s \in WebTemplates \/ s \in Templates("user")
           \/ \E n \in DOMAIN peers : s \in PeerSections(n, peers[n])
           \/ \E n \in DOMAIN users \ Excluded : s \in UserSections(n, users[n])
<1> DEFINE P(n) == PeerSections(n, peers[n])
           U(n) == UserSections(n, users[n])
           Ps == UNION {P(n) : n \in DOMAIN peers}
           Us == UNION {U(n) : n \in DOMAIN users \ Excluded}
<1>1. s \in Ps <=> \E n \in DOMAIN peers : s \in P(n)
  <2> HIDE DEF P
  <2> QED OBVIOUS
<1>2. s \in Us <=> \E n \in DOMAIN users \ Excluded : s \in U(n)
  <2> HIDE DEF U
  <2> QED OBVIOUS
<1>3. PjsipConf = TransportSections \cup WebTemplates \cup Templates("user") \cup Ps \cup Us
  BY DEF PjsipConf
<1> HIDE DEF Ps, Us
<1> QED BY <1>1, <1>2, <1>3

LEMMA SectionFields ==
  ASSUME NEW type, NEW name, NEW uses
  PROVE  /\ Section(type, name, uses).type = type /\ Section(type, name, uses).name = name
         /\ Section(type, name, uses).uses = uses
BY DEF Section

LEMMA SectionDefines ==
  ASSUME NEW type, NEW name, NEW uses, Section(type, name, uses) \in PjsipConf
  PROVE  <<type, name>> \in Defined
<1>1. PICK s \in PjsipConf : s = Section(type, name, uses)
  OBVIOUS
<1>2. s.type = type /\ s.name = name
  BY <1>1, SectionFields
<1>3. <<s.type, s.name>> \in {<<x.type, x.name>> : x \in PjsipConf}
  OBVIOUS
<1> QED BY <1>2, <1>3 DEF Defined

\* What a trunk defines.
LEMMA PeerDefines ==
  ASSUME NEW n \in DOMAIN peers, NEW p, p = peers[n]
  PROVE  /\ p.auth \/ (p.username /\ p.secret) => <<"auth", n>> \in Defined
         /\ p.transport # Null => <<"aor", n>> \in Defined
         /\ ~Half(p) => <<"endpoint", n>> \in Defined
<1>1. \A s \in PeerSections(n, p) : s \in PjsipConf
  BY SectionsFrom
<1>2. ASSUME p.auth \/ (p.username /\ p.secret) PROVE <<"auth", n>> \in Defined
  <2>1. Section("auth", n, {}) \in PjsipConf
    BY <1>1, <1>2 DEF PeerSections, PeerAuth
  <2> QED BY <2>1, SectionDefines
<1>3. ASSUME p.transport # Null PROVE <<"aor", n>> \in Defined
  <2>1. Section("aor", n, {}) \in PjsipConf
    BY <1>1, <1>3 DEF PeerSections, PeerAor
  <2> QED BY <2>1, SectionDefines
<1>4. ASSUME ~Half(p) PROVE <<"endpoint", n>> \in Defined
  <2>1. \E uses : Section("endpoint", n, uses) \in PjsipConf
    BY <1>1, <1>4 DEF PeerSections, PeerEndpoint, Half
  <2> QED BY <2>1, SectionDefines
<1> QED BY <1>2, <1>3, <1>4

LEMMA TransportDefines ==
  ASSUME NEW t \in DOMAIN transports
  PROVE  <<"transport", t>> \in Defined
<1> DEFINE uses == {<<"file", <<t, c>>>> : c \in CertsNamed(t)}
<1>1. Section("transport", t, uses) \in TransportSections
  BY DEF TransportSections
<1> HIDE DEF uses
<1>2. Section("transport", t, uses) \in PjsipConf
  BY <1>1, SectionsFrom
<1> QED BY <1>2, SectionDefines

LEMMA TableDefines ==
  ASSUME NEW x \in tables
  PROVE  <<"context", x>> \in Defined
BY DEF Defined

\* What may be named and not defined.
Excused(r) ==
  \/ r[1] = "auth" /\ r[2] \in DOMAIN peers /\ NoCredentials(peers[r[2]])
  \/ r[1] = "endpoint" /\ r[2] \in DOMAIN peers /\ Half(peers[r[2]])
  \/ r[1] = "template" /\ ~settings

LEMMA PeerResolves ==
  ASSUME SipInv, NEW n \in DOMAIN peers, NEW s \in PeerSections(n, peers[n]), NEW r \in s.uses
  PROVE  r \in Defined \/ Excused(r)
<1>1. PICK p : p = peers[n]
  OBVIOUS
<1>2. /\ p.transport \in DOMAIN transports \cup {Null} /\ p.table \in tables \cup {Null}
      /\ p.there \in BOOLEAN /\ p.here \in BOOLEAN /\ p.auth \in BOOLEAN
      /\ p.username \in BOOLEAN /\ p.secret \in BOOLEAN
  BY <1>1 DEF SipInv, SipTyped, KeysHeld, PeerRows
<1>3. /\ p.auth \/ (p.username /\ p.secret) => <<"auth", n>> \in Defined
      /\ p.transport # Null => <<"aor", n>> \in Defined
      /\ ~Half(p) => <<"endpoint", n>> \in Defined
  BY <1>1, PeerDefines
<1>4. CASE r = <<"auth", n>> /\ (p.there \/ p.here \/ (p.username /\ p.secret))
  BY <1>1, <1>2, <1>3, <1>4 DEF Excused, NoCredentials
<1>5. CASE r = <<"endpoint", n>>
  BY <1>1, <1>3, <1>5 DEF Excused
<1>6. CASE s \in Registration(n, p)
  <2>1. p.there /\ s = Section("registration", n, {<<"auth", n>>, <<"endpoint", n>>})
    BY <1>6 DEF Registration
  <2>2. r \in {<<"auth", n>>, <<"endpoint", n>>}
    BY <2>1, SectionFields
  <2> QED BY <1>4, <1>5, <2>1, <2>2
<1>7. CASE s \in PeerAuth(n, p) \cup PeerAor(n, p)
  <2>1. s.uses = {}
    BY <1>7, SectionFields DEF PeerAuth, PeerAor
  <2> QED BY <2>1
<1>8. CASE s \in PeerIdentify(n, p)
  <2>1. s.uses = {<<"endpoint", n>>}
    BY <1>8, SectionFields DEF PeerIdentify
  <2> QED BY <1>5, <2>1
<1>9. CASE s \in PeerEndpoint(n, p)
  <2> DEFINE uses == {<<"transport", p.transport>>, <<"context", p.table>>, <<"aor", n>>}
            \cup IF p.there \/ p.here \/ (p.username /\ p.secret) THEN {<<"auth", n>>}
                 ELSE {}
  <2>1. p.transport # Null /\ p.table # Null /\ s = Section("endpoint", n, uses)
    BY <1>9 DEF PeerEndpoint
  <2>2. s.uses = uses
    BY <2>1, SectionFields
  <2>3. \/ r = <<"transport", p.transport>> \/ r = <<"context", p.table>> \/ r = <<"aor", n>>
        \/ r = <<"auth", n>> /\ (p.there \/ p.here \/ (p.username /\ p.secret))
    BY <2>2
  <2>4. <<"transport", p.transport>> \in Defined /\ <<"context", p.table>> \in Defined
    BY <1>2, <2>1, TransportDefines, TableDefines
  <2> QED BY <1>3, <1>4, <2>1, <2>3, <2>4
<1>10. s \in PeerSections(n, p)
  BY <1>1
<1> QED BY <1>6, <1>7, <1>8, <1>9, <1>10 DEF PeerSections

LEMMA TemplateDefines ==
  ASSUME NEW kind, NEW type \in {"endpoint", "auth", "aor"},
         kind = "user"
         \/ (kind = "webrtc" /\ settings /\ \E t \in DOMAIN transports : transports[t].protocol = "wss")
  PROVE  <<"template", <<kind, type>>>> \in Defined
<1>1. Section("template", <<kind, type>>, {}) \in Templates(kind)
  BY DEF Templates
<1>2. Section("template", <<kind, type>>, {}) \in PjsipConf
  BY <1>1, SectionsFrom DEF WebTemplates
<1> QED BY <1>2, SectionDefines

\* The three sections of a user.
LEMMA UserSectionsAre ==
  ASSUME NEW n, NEW u, NEW s \in UserSections(n, u), NEW kind,
         kind = IF ProtocolOf(u.transport) = "wss" THEN "webrtc" ELSE "user"
  PROVE  \/ s = Section("endpoint", n, {<<"template", <<kind, "endpoint">>>>, <<"transport", u.transport>>,
                             <<"context", u.table>>, <<"auth", n>>, <<"aor", n>>})
         \/ s = Section("auth", n, {<<"template", <<kind, "auth">>>>})
         \/ s = Section("aor", n, {<<"template", <<kind, "aor">>>>})
BY DEF UserSections

LEMMA UserResolves ==
  ASSUME SipInv, NEW n \in DOMAIN users \ Excluded, NEW s \in UserSections(n, users[n]), NEW r \in s.uses
  PROVE  r \in Defined \/ Excused(r)
<1>1. PICK u, kind : u = users[n] /\ kind = IF ProtocolOf(u.transport) = "wss" THEN "webrtc" ELSE "user"
  OBVIOUS
<1>2. u.transport \in DOMAIN transports /\ u.table \in tables /\ u.transport # Null
  BY <1>1 DEF SipInv, SipTyped, KeysHeld, Excluded
<1>3. <<"auth", n>> \in Defined /\ <<"aor", n>> \in Defined
  <2>1. /\ Section("auth", n, {<<"template", <<kind, "auth">>>>}) \in UserSections(n, u)
        /\ Section("aor", n, {<<"template", <<kind, "aor">>>>}) \in UserSections(n, u)
    BY <1>1 DEF UserSections
  <2>2. \A x \in UserSections(n, u) : x \in PjsipConf
    BY <1>1, SectionsFrom
  <2> QED BY <2>1, <2>2, SectionDefines
<1>4. ASSUME NEW type \in {"endpoint", "auth", "aor"}, r = <<"template", <<kind, type>>>>
      PROVE  r \in Defined \/ Excused(r)
  <2>1. \/ kind = "user"
        \/ kind = "webrtc" /\ \E t \in DOMAIN transports : transports[t].protocol = "wss"
    BY <1>1, <1>2 DEF ProtocolOf
  <2>2. CASE ~settings
    BY <1>4, <2>2 DEF Excused
  <2>3. CASE settings
    BY <1>4, <2>1, <2>3, TemplateDefines
  <2> QED BY <2>2, <2>3
<1>5. <<"transport", u.transport>> \in Defined /\ <<"context", u.table>> \in Defined
  BY <1>2, TransportDefines, TableDefines
<1>6. \/ s.uses = {<<"template", <<kind, "endpoint">>>>, <<"transport", u.transport>>,
                             <<"context", u.table>>, <<"auth", n>>, <<"aor", n>>}
      \/ s.uses = {<<"template", <<kind, "auth">>>>}
      \/ s.uses = {<<"template", <<kind, "aor">>>>}
  <2> DEFINE e == {<<"template", <<kind, "endpoint">>>>, <<"transport", u.transport>>,
                             <<"context", u.table>>, <<"auth", n>>, <<"aor", n>>}
             a == {<<"template", <<kind, "auth">>>>}
             o == {<<"template", <<kind, "aor">>>>}
  <2>1. s = Section("endpoint", n, e) \/ s = Section("auth", n, a) \/ s = Section("aor", n, o)
    BY <1>1, UserSectionsAre
  <2> HIDE DEF e, a, o
  <2>2. s.uses \in {e, a, o}
    BY <2>1, SectionFields
  <2> QED BY <2>2 DEF e, a, o
<1> QED BY <1>3, <1>4, <1>5, <1>6

LEMMA SipResolves == SipInv => ReferencesResolve
<1> SUFFICES ASSUME SipInv, NEW s \in PjsipConf, NEW r \in s.uses PROVE r \in Defined \/ Excused(r)
  BY DEF ReferencesResolve, Excused
<1>1. CASE s \in TransportSections
  <2>1. PICK t \in DOMAIN transports :
          s = Section("transport", t, {<<"file", <<t, c>>>> : c \in CertsNamed(t)})
    BY <1>1 DEF TransportSections
  <2>2. s.uses = {<<"file", <<t, c>>>> : c \in CertsNamed(t)}
    BY <2>1, SectionFields
  <2>3. PICK c \in CertsNamed(t) : r = <<"file", <<t, c>>>>
    BY <2>2
  <2>4. transports[t].protocol = "tls" /\ c \in transports[t].certs
    BY <2>3 DEF CertsNamed
  <2>5. c \in CertFile
    BY <2>4 DEF SipInv, SipTyped, TransportRows
  <2>6. <<t, c>> \in CertsWritten
    BY <2>4, <2>5 DEF CertsWritten
  <2> QED BY <2>3, <2>6 DEF Defined
<1>2. CASE s \in WebTemplates \cup Templates("user")
  <2>1. \E kind : s \in Templates(kind)
    BY <1>2 DEF WebTemplates
  <2>2. s.uses = {}
    BY <2>1, SectionFields DEF Templates
  <2> QED BY <2>2
<1> QED BY <1>1, <1>2, SectionsFrom, PeerResolves, UserResolves

LEMMA SipRegisters == SipInv => RegistersIfAccepted
<1> SUFFICES ASSUME SipInv, NEW n \in DOMAIN peers, NEW p, p = peers[n],
                    p.there, Registrable(p), ~Half(p), FirstHost(p.registration),
                    ProtocolOf(p.transport) # "wss"
             PROVE  \E s \in PjsipConf : s.type = "registration" /\ s.name = n
  BY DEF RegistersIfAccepted
<1>1. ProtocolOf(p.transport) \in {"udp", "tcp", "tls"}
  BY SipKeys DEF Half, ProtocolOf, SipInv, SipTyped, KeysHeld, TransportRows, Protocol
<1>2. p.username
  BY DEF Registrable
<1>3. Section("registration", n, {<<"auth", n>>, <<"endpoint", n>>}) \in PeerSections(n, p)
  BY <1>1, <1>2 DEF PeerSections, Registration
<1>4. Section("registration", n, {<<"auth", n>>, <<"endpoint", n>>}) \in PjsipConf
  BY <1>3, SectionsFrom
<1> QED BY <1>4, SectionFields

LEMMA SipIdentifies == SipInv => IdentifiedAsOffered
<1> SUFFICES ASSUME SipInv, NEW n \in DOMAIN peers, NEW p, p = peers[n]
             PROVE  /\ IdentifyBy(p) \ {"username"} \subseteq IdentifyLines(p)
                    /\ "header" \in IdentifyLines(p) => "header" \in IdentifyBy(p)
  BY DEF IdentifiedAsOffered
<1>1. CASE p.identify = {}
  BY <1>1 DEF IdentifyBy, IdentifyLines
<1>2. CASE p.identify # {}
  BY <1>2 DEF IdentifyBy, IdentifyLines
<1> QED BY <1>1, <1>2

LEMMA SipDials == SipInv => DialledHaveEndpoints
<1> SUFFICES ASSUME SipInv, NEW d \in Dialled
             PROVE  \E s \in PjsipConf :
                      /\ s.type = "endpoint" /\ s.name = d.name
                      /\ d.wakes => <<"template", <<"webrtc", "endpoint">>>> \in s.uses
  BY DEF DialledHaveEndpoints
<1>1. PICK n \in DOMAIN users \ Excluded : d = [name |-> n, wakes |-> ProtocolOf(users[n].transport) = "wss"]
  BY DEF Dialled
<1>2. PICK u, kind : u = users[n] /\ kind = IF ProtocolOf(u.transport) = "wss" THEN "webrtc" ELSE "user"
  OBVIOUS
<1>3. PICK s : s = Section("endpoint", n, {<<"template", <<kind, "endpoint">>>>, <<"transport", u.transport>>,
                             <<"context", u.table>>, <<"auth", n>>, <<"aor", n>>})
  OBVIOUS
<1>4. s \in UserSections(n, u)
  BY <1>2, <1>3 DEF UserSections
<1>5. s \in PjsipConf
  BY <1>2, <1>4, SectionsFrom
<1>6. s.type = "endpoint" /\ s.name = n /\ <<"template", <<kind, "endpoint">>>> \in s.uses
  BY <1>3, SectionFields
<1>7. d.name = n /\ (d.wakes => kind = "webrtc")
  BY <1>1, <1>2
<1> QED BY <1>5, <1>6, <1>7

\* A trunk has one section of each type.
LEMMA PeerUnique ==
  ASSUME NEW n, NEW p, NEW s \in PeerSections(n, p), NEW t \in PeerSections(n, p), s.type = t.type
  PROVE  s = t
<1> DEFINE Of(x) == \/ x \in Registration(n, p) /\ x.type = "registration"
                    \/ x \in PeerAuth(n, p) /\ x.type = "auth"
                    \/ x \in PeerAor(n, p) /\ x.type = "aor"
                    \/ x \in PeerEndpoint(n, p) /\ x.type = "endpoint"
                    \/ x \in PeerIdentify(n, p) /\ x.type = "identify"
<1>1. ASSUME NEW x \in PeerSections(n, p) PROVE Of(x)
  BY <1>1, SectionFields DEF PeerSections, Registration, PeerAuth, PeerAor, PeerEndpoint, PeerIdentify
<1>2. \A x, y \in Registration(n, p) : x = y
  BY DEF Registration
<1>3. \A x, y \in PeerAuth(n, p) : x = y
  BY DEF PeerAuth
<1>4. \A x, y \in PeerAor(n, p) : x = y
  BY DEF PeerAor
<1>5. \A x, y \in PeerEndpoint(n, p) : x = y
  BY DEF PeerEndpoint
<1>6. \A x, y \in PeerIdentify(n, p) : x = y
  BY DEF PeerIdentify
<1>7. Of(s) /\ Of(t)
  BY <1>1
<1> QED BY <1>2, <1>3, <1>4, <1>5, <1>6, <1>7

LEMMA PeerNames ==
  ASSUME NEW n, NEW p, NEW s \in PeerSections(n, p)
  PROVE  s.name = n /\ s.type \in {"registration", "auth", "aor", "endpoint", "identify"}
BY SectionFields DEF PeerSections, Registration, PeerAuth, PeerAor, PeerEndpoint, PeerIdentify

LEMMA UserNames ==
  ASSUME NEW n, NEW u, NEW s \in UserSections(n, u)
  PROVE  s.name = n /\ s.type \in {"auth", "aor", "endpoint"}
<1>1. PICK kind : kind = IF ProtocolOf(u.transport) = "wss" THEN "webrtc" ELSE "user"
  OBVIOUS
<1> DEFINE e == {<<"template", <<kind, "endpoint">>>>, <<"transport", u.transport>>,
                           <<"context", u.table>>, <<"auth", n>>, <<"aor", n>>}
           a == {<<"template", <<kind, "auth">>>>}
           o == {<<"template", <<kind, "aor">>>>}
<1>2. s = Section("endpoint", n, e) \/ s = Section("auth", n, a) \/ s = Section("aor", n, o)
  BY <1>1, UserSectionsAre
<1> HIDE DEF e, a, o
<1> QED BY <1>2, SectionFields

LEMMA UserUnique ==
  ASSUME NEW n, NEW u, NEW s \in UserSections(n, u), NEW t \in UserSections(n, u), s.type = t.type
  PROVE  s = t
<1>1. PICK kind : kind = IF ProtocolOf(u.transport) = "wss" THEN "webrtc" ELSE "user"
  OBVIOUS
<1> DEFINE e == Section("endpoint", n, {<<"template", <<kind, "endpoint">>>>, <<"transport", u.transport>>,
                             <<"context", u.table>>, <<"auth", n>>, <<"aor", n>>})
           a == Section("auth", n, {<<"template", <<kind, "auth">>>>})
           o == Section("aor", n, {<<"template", <<kind, "aor">>>>})
<1>2. s \in {e, a, o} /\ t \in {e, a, o}
  BY <1>1, UserSectionsAre
<1>3. e.type = "endpoint" /\ a.type = "auth" /\ o.type = "aor"
  BY SectionFields
<1> HIDE DEF e, a, o
<1> QED BY <1>2, <1>3

LEMMA SipUnique == SipInv => SectionsUnique
<1> SUFFICES ASSUME SipInv, DOMAIN users \cap DOMAIN peers = {},
                    NEW s \in PjsipConf, NEW t \in PjsipConf, s.type = t.type, s.name = t.name
             PROVE  s = t
  BY DEF SectionsUnique
<1> DEFINE FromPeer(x) == \E n \in DOMAIN peers : x \in PeerSections(n, peers[n])
           FromUser(x) == \E n \in DOMAIN users \ Excluded : x \in UserSections(n, users[n])
           Template(x) == x \in WebTemplates \cup Templates("user")
<1>1. ASSUME NEW x \in TransportSections
      PROVE  /\ x.type = "transport" /\ x.name \in DOMAIN transports
             /\ x = Section("transport", x.name, {<<"file", <<x.name, c>>>> : c \in CertsNamed(x.name)})
  <2> DEFINE uses(key) == {<<"file", <<key, c>>>> : c \in CertsNamed(key)}
  <2>1. PICK key \in DOMAIN transports : x = Section("transport", key, uses(key))
    BY <1>1 DEF TransportSections
  <2> HIDE DEF uses
  <2>2. x.type = "transport" /\ x.name = key
    BY <2>1, SectionFields
  <2>3. x = Section("transport", x.name, uses(x.name)) /\ x.name \in DOMAIN transports
    BY <2>1, <2>2
  <2> QED BY <2>2, <2>3 DEF uses
<1>2. ASSUME NEW x, Template(x) PROVE x.type = "template" /\ x = Section("template", x.name, {})
  BY <1>2, SectionFields DEF WebTemplates, Templates
<1>3. ASSUME NEW x, FromPeer(x)
      PROVE  /\ x.type \in {"registration", "auth", "aor", "endpoint", "identify"}
             /\ x.name \in DOMAIN peers /\ x \in PeerSections(x.name, peers[x.name])
  BY <1>3, PeerNames
<1>4. ASSUME NEW x, FromUser(x)
      PROVE  /\ x.type \in {"auth", "aor", "endpoint"}
             /\ x.name \in DOMAIN users /\ x \in UserSections(x.name, users[x.name])
  BY <1>4, UserNames
<1>5. \A x \in PjsipConf : x \in TransportSections \/ Template(x) \/ FromPeer(x) \/ FromUser(x)
  BY SectionsFrom
<1> HIDE DEF FromPeer, FromUser, Template
<1>6. CASE s \in TransportSections
  <2>1. t \in TransportSections
    BY <1>1, <1>2, <1>3, <1>4, <1>5, <1>6
  <2>2. PICK u : u = s.name
    OBVIOUS
  <2>3. /\ s = Section("transport", u, {<<"file", <<u, c>>>> : c \in CertsNamed(u)})
        /\ t = Section("transport", u, {<<"file", <<u, c>>>> : c \in CertsNamed(u)})
    BY <1>1, <1>6, <2>1, <2>2
  <2> QED BY <2>3
<1>7. CASE Template(s)
  <2>1. Template(t)
    BY <1>1, <1>2, <1>3, <1>4, <1>5, <1>7
  <2> QED BY <1>2, <1>7, <2>1
<1>8. CASE FromPeer(s)
  <2>1. FromPeer(t)
    BY <1>1, <1>2, <1>3, <1>4, <1>5, <1>8
  <2> QED BY <1>3, <1>8, <2>1, PeerUnique
<1>9. CASE FromUser(s)
  <2>1. FromUser(t)
    BY <1>1, <1>2, <1>3, <1>4, <1>5, <1>9
  <2> QED BY <1>4, <1>9, <2>1, UserUnique
<1> QED BY <1>5, <1>6, <1>7, <1>8, <1>9

\* What the invariant says of the properties that are checked.
LEMMA SipMeans ==
  SipInv => /\ ReferencesResolve /\ SectionsUnique /\ RegistersIfAccepted /\ IdentifiedAsOffered
            /\ DialledHaveEndpoints /\ MembersHaveEndpoints /\ SipTypeOK
<1> SUFFICES ASSUME SipInv PROVE MembersHaveEndpoints /\ SipTypeOK
  BY SipResolves, SipUnique, SipRegisters, SipIdentifies, SipDials
<1> QED BY DEF SipInv, SipTyped, KeysHeld, SipTypeOK

-----------------------------------------------------------------------------
(* The names of the dialplan. *)

DialplanTyped ==
  /\ DOMAIN rows = Kind
  /\ \A kind \in Kind : \A k \in DOMAIN rows[kind] : k \in Rows[kind] /\ rows[kind][k] \in NamesOf[kind]

TextsTyped ==
  /\ DOMAIN bodies = DOMAIN rows["macro"] /\ \A m \in DOMAIN bodies : bodies[m] \in Text \cup {{}}
  /\ \A e \in DOMAIN exts : e \in Extension /\ exts[e].context \in DOMAIN rows["context"] /\ exts[e].text \in Text
  /\ template \in Text \cup {{}}
  /\ \A hook \in hooks :
       hook = <<hook[1], hook[2]>> /\ hook[1] \in Scope /\ hook[2] \in DOMAIN rows[hook[1]]

InFlight ==
  /\ asked \in [Request -> Changes \cup {Nothing}]
  /\ at \in [Request -> {"idle", "checked", "saving"}]
  /\ late \in [Request -> SUBSET {"checked", "saving"}]
  /\ \A r \in Request :
       /\ at[r] = "idle" => asked[r] = Nothing /\ late[r] = {}
       /\ at[r] # "idle" => asked[r] \in Changes
       /\ at[r] = "saving" => asked[r].op = "save" /\ asked[r].kind \in Scope

\* As long as no change has come between, what a request has checked holds.
StillChecked ==
  \A r \in Request : \A c : asked[r] = c /\ at[r] # "idle" /\ late[r] = {} => Checked(c)
StillPasses ==
  \A r \in Request : \A c : asked[r] = c /\ at[r] = "saving" /\ "saving" \notin late[r] => SavePasses(c)

UniqueNames ==
  \A kind \in Kind : \A k, l \in DOMAIN rows[kind] : rows[kind][k] = rows[kind][l] => k = l

\* The change neither deletes the context with this key nor gives it another name.
Spares(what, key) ==
  /\ ~(what.op = "delete" /\ what.kind = "context" /\ what.key = key)
  /\ what.op = "save" /\ what.kind = "context" /\ what.key = key => what.name = UsersName

\* The users' context is there, and no request in flight means to change that.
UsersKept ==
  \E key \in DOMAIN rows["context"] :
    rows["context"][key] = UsersName /\ \A r \in Request : Spares(asked[r], key)

DamageTold == Damage \subseteq torn

GuardsInv ==
  /\ DialplanTyped /\ TextsTyped /\ InFlight /\ StillChecked /\ StillPasses /\ UniqueNames /\ UsersKept
  /\ DamageTold /\ writes \in 0 .. MaxWrites

LEMMA GuardBounds == MaxWrites \in Nat
BY GuardsAssumption

LEMMA KindsApart ==
  /\ Kind = {"context", "table", "macro", "queue", "group"}
  /\ Scope = {"context", "table"} /\ Called = {"macro", "queue", "group"}
BY DEF Kind, Scope, Called

\* What is asked for is one of these.
LEMMA ChangesAre ==
  ASSUME NEW c \in Changes
  PROVE  \/ /\ c.op = "save" /\ c.kind \in Kind /\ c.key \in Rows[c.kind] /\ c.name \in NamesOf[c.kind]
            /\ c.text \in Text \cup {{}}
         \/ c.op = "delete" /\ c.kind \in Kind /\ c.key \in Rows[c.kind]
         \/ c.op = "extension" /\ c.ext \in Extension /\ c.key \in Rows["context"] /\ c.text \in Text
         \/ c.op = "drop" /\ c.ext \in Extension
         \/ c.op = "template" /\ c.text \in Text
         \/ c.op = "filter" /\ c.kind \in Scope /\ c.key \in Rows[c.kind]
BY DEF Changes

\* Of the damage there are three kinds.
LEMMA DamageIs ==
  ASSUME NEW d
  PROVE  d \in Damage <=>
           \/ \E x, y \in Emitted : x # y /\ x[3] = y[3] /\ d = <<"twice", x[3]>>
           \/ \E e \in DOMAIN exts : rows["context"][exts[e].context] = UsersName /\ d = <<"left out", e>>
           \/ \E e \in DOMAIN exts : \E m \in MacrosIn(exts[e].text) \ Macros : d = <<"no macro", m>>
<1> DEFINE T == {<<"twice", c[3]>> : c \in {x \in Emitted : \E e \in Emitted : e # x /\ e[3] = x[3]}}
           Had == {<<"left out", e>> : e \in {x \in DOMAIN exts : rows["context"][exts[x].context] = UsersName}}
           M(e) == {<<"no macro", m>> : m \in MacrosIn(exts[e].text) \ Macros}
           U == UNION {M(e) : e \in DOMAIN exts}
<1>1. d \in T <=> \E x, y \in Emitted : x # y /\ x[3] = y[3] /\ d = <<"twice", x[3]>>
  OBVIOUS
<1>2. d \in Had <=> \E e \in DOMAIN exts : rows["context"][exts[e].context] = UsersName /\ d = <<"left out", e>>
  OBVIOUS
<1>3. d \in U <=> \E e \in DOMAIN exts : d \in M(e)
  <2> HIDE DEF M
  <2> QED OBVIOUS
<1>4. Damage = T \cup Had \cup U
  BY DEF Damage
<1> HIDE DEF T, Had, U
<1> QED BY <1>1, <1>2, <1>3, <1>4

\* The contexts that are generated.
LEMMA EmittedIs ==
  ASSUME NEW x
  PROVE  x \in Emitted <=>
           \/ x = <<"users", 0, UsersName>>
           \/ \E k \in DOMAIN rows["context"] :
                rows["context"][k] # UsersName /\ x = <<"context", k, rows["context"][k]>>
           \/ \E k \in DOMAIN rows["table"] : x = <<"table", k, rows["table"][k]>>
BY DEF Emitted

LEMMA GuardsInitially == GuardsInit => GuardsInv
<1> SUFFICES ASSUME GuardsInit PROVE GuardsInv
  OBVIOUS
<1>1. PICK stored \in Stored : rows = stored
  BY DEF GuardsInit
<1>2. /\ DOMAIN rows = Kind
      /\ \A kind \in Kind :
           /\ DOMAIN rows[kind] \subseteq Rows[kind] /\ Range(rows[kind]) \subseteq NamesOf[kind]
           /\ \A k, l \in DOMAIN rows[kind] : rows[kind][k] = rows[kind][l] => k = l
      /\ UsersName \in Range(rows["context"])
      /\ Range(rows["context"]) \cap Range(rows["table"]) = {}
  BY <1>1, GuardsAssumption
<1>3. DialplanTyped /\ UniqueNames
  BY <1>2 DEF DialplanTyped, UniqueNames, Range
<1>4. TextsTyped
  BY DEF GuardsInit, TextsTyped
<1>5. InFlight /\ StillChecked /\ StillPasses
  BY DEF GuardsInit, InFlight, StillChecked, StillPasses
<1>6. UsersKept
  <2>1. \A r \in Request : asked[r].op = "nothing"
    BY DEF GuardsInit, Nothing
  <2> QED BY <1>2, <2>1 DEF UsersKept, Spares, Range
<1>7. Damage = {}
  <2> SUFFICES ASSUME NEW d \in Damage PROVE FALSE
    OBVIOUS
  <2>1. DOMAIN exts = {}
    BY DEF GuardsInit
  <2>2. PICK x, y \in Emitted : x # y /\ x[3] = y[3]
    BY <2>1, DamageIs
  <2>3. UsersName \notin Range(rows["table"])
    BY <1>2
  <2> QED BY <1>2, <1>3, <2>2, <2>3, EmittedIs, KindsApart DEF UniqueNames, Range
<1>8. writes \in 0 .. MaxWrites
  <2>1. writes = 0
    BY DEF GuardsInit
  <2> QED BY <2>1, GuardBounds
<1> QED BY <1>3, <1>4, <1>5, <1>6, <1>7, <1>8 DEF GuardsInv, DamageTold

-----------------------------------------------------------------------------
(* The steps that what no row. *)

guarded == <<rows, bodies, exts, template, hooks>>

LEMMA CheckedStays ==
  ASSUME UNCHANGED guarded, NEW c
  PROVE  (Checked(c) => Checked(c)') /\ (SavePasses(c) => SavePasses(c)')
BY DEF guarded, Checked, SavePasses, MayName, MayDelete, MayExtend, FreeName, Keeps, Referenced,
       InContext, Macros

\* What the steps that change no row do to the requests.
LEMMA QuietStep ==
  ASSUME GuardsInv, UNCHANGED <<guarded, writes, torn>>, InFlight', StillChecked', StillPasses',
         \A r \in Request : \A key : rows["context"][key] = UsersName /\ key \in DOMAIN rows["context"] =>
                                   (Spares(asked[r], key) => Spares(asked'[r], key))
  PROVE  GuardsInv'
<1>1. DialplanTyped' /\ TextsTyped' /\ UniqueNames' /\ (writes \in 0 .. MaxWrites)'
  BY DEF GuardsInv, guarded, DialplanTyped, TextsTyped, UniqueNames
<1>3. Damage' = Damage
  BY DEF guarded, Damage, Emitted, Macros
<1>4. DamageTold'
  BY <1>3 DEF GuardsInv, DamageTold
<1>2. UsersKept'
  BY DEF GuardsInv, guarded, UsersKept, Spares
<1> QED BY <1>1, <1>2, <1>4 DEF GuardsInv

LEMMA CheckStep ==
  ASSUME GuardsInv, NEW r \in Request, NEW c \in Changes, Check(r, c)
  PROVE  GuardsInv'
<1>1. UNCHANGED <<guarded, late, writes, torn>> /\ Checked(c) /\ at[r] = "idle"
  BY DEF Check, guarded
<1>2. /\ asked' = [asked EXCEPT ![r] = c] /\ at' = [at EXCEPT ![r] = "checked"]
  BY DEF Check
<1>3. InFlight'
  BY <1>1, <1>2 DEF InFlight, GuardsInv
<1>4. StillChecked'
  <2> SUFFICES ASSUME NEW s \in Request, NEW a, asked'[s] = a, at'[s] # "idle", late'[s] = {} PROVE Checked(a)'
    BY DEF StillChecked
  <2>2. Checked(a)
    <3>1. CASE s = r
      BY <1>1, <1>2, <3>1 DEF InFlight, GuardsInv
    <3>2. CASE s # r
      <4>1. at[s] # "idle" /\ late[s] = {} /\ a = asked[s]
        BY <1>1, <1>2, <3>2 DEF InFlight, GuardsInv
      <4> QED BY <4>1 DEF StillChecked, GuardsInv
    <3> QED BY <3>1, <3>2
  <2> QED BY <1>1, <2>2, CheckedStays
<1>5. StillPasses'
  <2> SUFFICES ASSUME NEW s \in Request, NEW a, asked'[s] = a, at'[s] = "saving",
                      "saving" \notin late'[s]
               PROVE  SavePasses(a)'
    BY DEF StillPasses
  <2>2. s # r /\ at[s] = "saving" /\ "saving" \notin late[s] /\ a = asked[s]
    BY <1>1, <1>2 DEF InFlight, GuardsInv
  <2>3. SavePasses(a)
    BY <2>2 DEF StillPasses, GuardsInv
  <2> QED BY <1>1, <2>3, CheckedStays
<1>6. ASSUME NEW s \in Request, NEW key, rows["context"][key] = UsersName, key \in DOMAIN rows["context"],
             Spares(asked[s], key)
      PROVE  Spares(asked'[s], key)
  <2>1. CASE s = r
    <3>1. asked'[s] = c
      BY <1>2, <2>1 DEF InFlight, GuardsInv
    <3> QED BY <1>1, <1>6, <3>1 DEF Spares, Checked, MayName, MayDelete, Keeps
  <2>2. CASE s # r
    <3>1. asked'[s] = asked[s]
      BY <1>2, <2>2 DEF InFlight, GuardsInv
    <3> QED BY <1>6, <3>1
  <2> QED BY <2>1, <2>2
<1> QED BY <1>1, <1>3, <1>4, <1>5, <1>6, QuietStep

\* A request ends and nothing has changed.
LEMMA FailStep ==
  ASSUME GuardsInv, NEW r \in Request, Finish(r), late' = [late EXCEPT ![r] = {}],
         UNCHANGED <<guarded, writes, torn>>
  PROVE  GuardsInv'
<1>1. asked' = [asked EXCEPT ![r] = Nothing] /\ at' = [at EXCEPT ![r] = "idle"]
  BY DEF Finish
<1>2. InFlight'
  BY <1>1 DEF InFlight, GuardsInv
<1>3. \A s \in Request : at'[s] # "idle" => s # r /\ at'[s] = at[s] /\ asked'[s] = asked[s] /\ late'[s] = late[s]
  BY <1>1 DEF InFlight, GuardsInv
<1>4. StillChecked'
  <2> SUFFICES ASSUME NEW s \in Request, NEW a, asked'[s] = a, at'[s] # "idle", late'[s] = {} PROVE Checked(a)'
    BY DEF StillChecked
  <2>2. Checked(a)
    BY <1>3 DEF StillChecked, GuardsInv
  <2> QED BY <2>2, CheckedStays
<1>5. StillPasses'
  <2> SUFFICES ASSUME NEW s \in Request, NEW a, asked'[s] = a, at'[s] = "saving",
                      "saving" \notin late'[s]
               PROVE  SavePasses(a)'
    BY DEF StillPasses
  <2>2. SavePasses(a)
    BY <1>3 DEF StillPasses, GuardsInv
  <2> QED BY <2>2, CheckedStays
<1>6. ASSUME NEW s \in Request, NEW key, Spares(asked[s], key)
      PROVE  Spares(asked'[s], key)
  <2>1. asked'[s] = asked[s] \/ asked'[s].op = "nothing"
    BY <1>1 DEF InFlight, GuardsInv, Nothing
  <2> QED BY <1>6, <2>1 DEF Spares
<1> QED BY <1>2, <1>4, <1>5, <1>6, QuietStep

LEMMA RecheckStep ==
  ASSUME GuardsInv, NEW r \in Request, Recheck(r)
  PROVE  GuardsInv'
<1>1. UNCHANGED <<guarded, writes, torn>> /\ at[r] = "checked" /\ asked[r].op = "save" /\ asked[r].kind \in Scope
  BY DEF Recheck, guarded
<1>2. CASE ~SavePasses(asked[r])
  BY <1>1, <1>2, FailStep DEF Recheck
<1>3. CASE SavePasses(asked[r])
  <2>1. at' = [at EXCEPT ![r] = "saving"] /\ UNCHANGED <<asked, late>>
    BY <1>3 DEF Recheck
  <2>2. InFlight'
    BY <1>1, <2>1 DEF InFlight, GuardsInv
  <2>3. StillChecked'
    <3> SUFFICES ASSUME NEW s \in Request, NEW a, asked'[s] = a, at'[s] # "idle", late'[s] = {} PROVE Checked(a)'
      BY DEF StillChecked
    <3>1. a = asked[s]
      BY <2>1
    <3>2. at[s] # "idle" /\ late[s] = {}
      BY <1>1, <2>1 DEF InFlight, GuardsInv
    <3>3. Checked(a)
      BY <3>1, <3>2 DEF StillChecked, GuardsInv
    <3> QED BY <1>1, <3>3, CheckedStays
  <2>4. StillPasses'
    <3> SUFFICES ASSUME NEW s \in Request, NEW a, asked'[s] = a, at'[s] = "saving",
                      "saving" \notin late'[s]
               PROVE  SavePasses(a)'
      BY DEF StillPasses
    <3>1. a = asked[s]
      BY <2>1
    <3>2. SavePasses(a)
      <4>1. CASE s = r
        BY <1>3, <3>1, <4>1
      <4>2. CASE s # r
        <5>1. at[s] = "saving" /\ "saving" \notin late[s]
          BY <2>1, <4>2 DEF InFlight, GuardsInv
        <5> QED BY <3>1, <5>1 DEF StillPasses, GuardsInv
      <4> QED BY <4>1, <4>2
    <3> QED BY <1>1, <3>2, CheckedStays
  <2> QED BY <1>1, <2>1, <2>2, <2>3, <2>4, QuietStep
<1> QED BY <1>2, <1>3

-----------------------------------------------------------------------------
(* The steps that what a row. *)

\* The same after a step.
LEMMA DamageIsNext ==
  ASSUME NEW d
  PROVE  d \in Damage' <=>
           \/ \E x, y \in Emitted' : x # y /\ x[3] = y[3] /\ d = <<"twice", x[3]>>
           \/ \E e \in DOMAIN exts' : rows'["context"][exts'[e].context] = UsersName /\ d = <<"left out", e>>
           \/ \E e \in DOMAIN exts' : \E m \in MacrosIn(exts'[e].text) \ Macros' : d = <<"no macro", m>>
<1> DEFINE T == {<<"twice", c[3]>> : c \in {x \in Emitted' : \E e \in Emitted' : e # x /\ e[3] = x[3]}}
           Had == {<<"left out", e>> : e \in {x \in DOMAIN exts' : rows'["context"][exts'[x].context] = UsersName}}
           M(e) == {<<"no macro", m>> : m \in MacrosIn(exts'[e].text) \ Macros'}
           U == UNION {M(e) : e \in DOMAIN exts'}
<1>1. d \in T <=> \E x, y \in Emitted' : x # y /\ x[3] = y[3] /\ d = <<"twice", x[3]>>
  OBVIOUS
<1>2. d \in Had <=> \E e \in DOMAIN exts' : rows'["context"][exts'[e].context] = UsersName /\ d = <<"left out", e>>
  OBVIOUS
<1>3. d \in U <=> \E e \in DOMAIN exts' : d \in M(e)
  <2> HIDE DEF M
  <2> QED OBVIOUS
<1>4. Damage' = T \cup Had \cup U
  BY DEF Damage
<1> HIDE DEF T, Had, U
<1> QED BY <1>1, <1>2, <1>3, <1>4

LEMMA EmittedIsNext ==
  ASSUME NEW x
  PROVE  x \in Emitted' <=>
           \/ x = <<"users", 0, UsersName>>
           \/ \E k \in DOMAIN rows'["context"] :
                rows'["context"][k] # UsersName /\ x = <<"context", k, rows'["context"][k]>>
           \/ \E k \in DOMAIN rows'["table"] : x = <<"table", k, rows'["table"][k]>>
BY DEF Emitted

\* What a step must not do to harm: give a name twice, make the users' context of an
\* extension's, take a macro from an extension.
NoTwice ==
  \A x, y \in Emitted' : x # y /\ x[3] = y[3] =>
    \E u, v \in Emitted : u # v /\ u[3] = v[3] /\ u[3] = x[3]
NoneLeftOut ==
  \A e \in DOMAIN exts' : rows'["context"][exts'[e].context] = UsersName =>
    e \in DOMAIN exts /\ rows["context"][exts[e].context] = UsersName
NoMacroLost ==
  \A e \in DOMAIN exts' : \A m \in MacrosIn(exts'[e].text) \ Macros' :
    \E f \in DOMAIN exts : m \in MacrosIn(exts[f].text) \ Macros

LEMMA NoHarm ==
  ASSUME NoTwice, NoneLeftOut, NoMacroLost
  PROVE  Damage' \subseteq Damage
<1> SUFFICES ASSUME NEW d \in Damage' PROVE d \in Damage
  OBVIOUS
<1>1. CASE \E x, y \in Emitted' : x # y /\ x[3] = y[3] /\ d = <<"twice", x[3]>>
  BY <1>1, DamageIs DEF NoTwice
<1>2. CASE \E e \in DOMAIN exts' : rows'["context"][exts'[e].context] = UsersName /\ d = <<"left out", e>>
  BY <1>2, DamageIs DEF NoneLeftOut
<1>3. CASE \E e \in DOMAIN exts' : \E m \in MacrosIn(exts'[e].text) \ Macros' : d = <<"no macro", m>>
  BY <1>3, DamageIs DEF NoMacroLost
<1> QED BY <1>1, <1>2, <1>3, DamageIsNext

\* A change is made, and it comes between for the other requests.
LEMMA DoneStep ==
  ASSUME GuardsInv, NEW r \in Request, Done(r), writes < MaxWrites,
         DialplanTyped', TextsTyped', UniqueNames',
         \A key \in DOMAIN rows["context"] :
           rows["context"][key] = UsersName /\ Spares(asked[r], key) =>
             key \in DOMAIN rows'["context"] /\ rows'["context"][key] = UsersName,
         ~Between(r) => Damage' \subseteq Damage
  PROVE  GuardsInv'
<1>1. /\ asked' = [asked EXCEPT ![r] = Nothing] /\ at' = [at EXCEPT ![r] = "idle"]
      /\ writes' = writes + 1
      /\ late' = [s \in Request |->
                IF s = r \/ at[s] = "idle" THEN {}
                ELSE late[s] \cup (IF at[s] = "saving" THEN {"saving"} ELSE {"checked"})]
      /\ torn' = IF Between(r) THEN torn \cup Damage' ELSE torn
  BY DEF Done, Finish
<1>2. InFlight'
  <2>1. late' \in [Request -> SUBSET {"checked", "saving"}]
    BY <1>1 DEF InFlight, GuardsInv
  <2> QED BY <1>1, <2>1 DEF InFlight, GuardsInv
<1>3. StillChecked' /\ StillPasses'
  BY <1>1 DEF InFlight, GuardsInv, StillChecked, StillPasses
<1>4. UsersKept'
  <2>1. PICK key \in DOMAIN rows["context"] :
          rows["context"][key] = UsersName /\ \A s \in Request : Spares(asked[s], key)
    BY DEF GuardsInv, UsersKept
  <2>2. \A s \in Request : asked'[s] = asked[s] \/ asked'[s].op = "nothing"
    BY <1>1 DEF InFlight, GuardsInv, Nothing
  <2>3. \A s \in Request : Spares(asked'[s], key)
    BY <2>1, <2>2 DEF Spares
  <2>4. key \in DOMAIN rows'["context"] /\ rows'["context"][key] = UsersName
    BY <2>1
  <2> QED BY <2>3, <2>4 DEF UsersKept, Spares
<1>5. DamageTold'
  BY <1>1 DEF DamageTold, GuardsInv
<1>6. (writes \in 0 .. MaxWrites)'
  <2>1. writes \in 0 .. MaxWrites
    BY DEF GuardsInv
  <2> QED BY <1>1, <2>1, GuardBounds
<1> QED BY <1>2, <1>3, <1>4, <1>5, <1>6 DEF GuardsInv

\* A statement to which no change came between is one that the checks still allow.
LEMMA NotBetween ==
  ASSUME GuardsInv, NEW r \in Request, Ready(r), NEW c, c = asked[r], c # Nothing, ~Between(r)
  PROVE  /\ c.op = "save" /\ c.kind \in Scope =>
              SavePasses(c) /\ (Checked(c) \/ c.key \notin DOMAIN rows[Other(c.kind)])
         /\ ~(c.op = "save" /\ c.kind \in Scope) => Checked(c)
<1>1. CASE c.op = "save" /\ c.kind \in Scope
  <2>1. at[r] = "saving"
    BY <1>1 DEF Ready
  <2>2. "saving" \notin late[r]
    BY <2>1 DEF Between
  <2>3. SavePasses(c)
    BY <2>1, <2>2 DEF StillPasses, GuardsInv
  <2>4. late[r] = {} => Checked(c)
    BY <2>1 DEF StillChecked, GuardsInv
  <2>5. late[r] = {} \/ c.key \notin DOMAIN rows[Other(c.kind)]
    BY <2>1 DEF Between
  <2> QED BY <1>1, <2>3, <2>4, <2>5
<1>2. CASE ~(c.op = "save" /\ c.kind \in Scope)
  <2>1. at[r] = "checked"
    BY <1>2 DEF Ready
  <2>2. late[r] = {}
    BY <2>1 DEF Between
  <2> QED BY <1>2, <2>1, <2>2 DEF StillChecked, GuardsInv
<1> QED BY <1>1, <1>2

\* The rows after a row is stored.
LEMMA RowStored ==
  ASSUME GuardsInv, NEW kind \in Kind, NEW key \in Rows[kind], NEW name \in NamesOf[kind],
         rows' = [rows EXCEPT ![kind] = With(@, key, name)],
         ~\E k \in DOMAIN rows[kind] \ {key} : rows[kind][k] = name
  PROVE  /\ \A other \in Kind : other # kind => rows'[other] = rows[other]
         /\ DOMAIN rows'[kind] = DOMAIN rows[kind] \cup {key}
         /\ rows'[kind][key] = name
         /\ \A k \in DOMAIN rows[kind] : k # key => rows'[kind][k] = rows[kind][k]
         /\ DialplanTyped' /\ UniqueNames'
<1>1. DOMAIN rows = Kind
  BY DEF GuardsInv, DialplanTyped
<1>2. rows'[kind] = With(rows[kind], key, name) /\ DOMAIN rows' = Kind
      /\ \A other \in Kind : other # kind => rows'[other] = rows[other]
  BY <1>1
<1>3. /\ DOMAIN rows'[kind] = DOMAIN rows[kind] \cup {key}
      /\ rows'[kind][key] = name
      /\ \A k \in DOMAIN rows[kind] : k # key => rows'[kind][k] = rows[kind][k]
  BY <1>2 DEF With
<1>4. DialplanTyped'
  <2> SUFFICES ASSUME NEW x \in Kind, NEW k \in DOMAIN rows'[x]
               PROVE  k \in Rows[x] /\ rows'[x][k] \in NamesOf[x]
    BY <1>2 DEF DialplanTyped
  <2> QED BY <1>2, <1>3 DEF GuardsInv, DialplanTyped
<1>5. UniqueNames'
  <2> SUFFICES ASSUME NEW x \in Kind, NEW k \in DOMAIN rows'[x], NEW l \in DOMAIN rows'[x],
                      rows'[x][k] = rows'[x][l]
               PROVE  k = l
    BY DEF UniqueNames
  <2>1. CASE x # kind
    BY <1>2, <2>1 DEF GuardsInv, UniqueNames
  <2>2. CASE x = kind
    <3>1. \A m \in DOMAIN rows'[kind] : m = key \/ m \in DOMAIN rows[kind]
      BY <1>3
    <3> QED BY <1>3, <2>2, <3>1 DEF GuardsInv, UniqueNames
  <2> QED BY <2>1, <2>2
<1> QED BY <1>2, <1>3, <1>4, <1>5

\* A context or a routing table is stored.
LEMMA ScopeHarmless ==
  ASSUME GuardsInv, NEW kind \in Scope, NEW key \in Rows[kind], NEW name \in NamesOf[kind],
         rows' = [rows EXCEPT ![kind] = With(@, key, name)], UNCHANGED exts,
         ~\E k \in DOMAIN rows[kind] \ {key} : rows[kind][k] = name,
         \A k \in DOMAIN rows[Other(kind)] : rows[Other(kind)][k] # name
  PROVE  Damage' \subseteq Damage
<1>1. kind \in Kind /\ Other(kind) \in Kind /\ Other(kind) # kind /\ Other(kind) \in Scope
  BY KindsApart DEF Other
<1>2. /\ \A other \in Kind : other # kind => rows'[other] = rows[other]
      /\ DOMAIN rows'[kind] = DOMAIN rows[kind] \cup {key}
      /\ rows'[kind][key] = name
      /\ \A k \in DOMAIN rows[kind] : k # key => rows'[kind][k] = rows[kind][k]
  <2>1. kind \in Kind
    BY <1>1
  <2>2. DOMAIN rows = Kind
    BY DEF GuardsInv, DialplanTyped
  <2> QED BY <2>1, <2>2 DEF With
<1>3. PICK first \in DOMAIN rows["context"] : rows["context"][first] = UsersName
  BY DEF GuardsInv, UsersKept
<1> DEFINE new == <<kind, key, name>>
<1>4. \A x \in Emitted' : x \in Emitted \/ (x = new /\ (kind = "context" => name # UsersName))
  <2> SUFFICES ASSUME NEW x \in Emitted'
               PROVE  x \in Emitted \/ (x = new /\ (kind = "context" => name # UsersName))
    OBVIOUS
  <2>1. CASE x = <<"users", 0, UsersName>>
    BY <2>1, EmittedIs
  <2>2. CASE \E k \in DOMAIN rows'["context"] :
                rows'["context"][k] # UsersName /\ x = <<"context", k, rows'["context"][k]>>
    BY <1>2, <2>2, EmittedIs, KindsApart
  <2>3. CASE \E k \in DOMAIN rows'["table"] : x = <<"table", k, rows'["table"][k]>>
    BY <1>2, <2>3, EmittedIs, KindsApart
  <2> QED BY <2>1, <2>2, <2>3, EmittedIsNext
<1>5. ASSUME NEW y \in Emitted, y[3] = name, kind = "context" => name # UsersName
      PROVE  y[1] = kind /\ y[2] = key
  <2>1. CASE y = <<"users", 0, UsersName>>
    <3>1. kind = "table" /\ name = UsersName
      BY <1>5, <2>1, KindsApart
    <3> QED BY <1>3, <3>1 DEF Other
  <2>2. CASE \E k \in DOMAIN rows["context"] :
                rows["context"][k] # UsersName /\ y = <<"context", k, rows["context"][k]>>
    BY <1>5, <2>2, KindsApart DEF Other
  <2>3. CASE \E k \in DOMAIN rows["table"] : y = <<"table", k, rows["table"][k]>>
    BY <1>5, <2>3, KindsApart DEF Other
  <2> QED BY <2>1, <2>2, <2>3, EmittedIs
<1>6. NoTwice
  <2> SUFFICES ASSUME NEW x \in Emitted', NEW y \in Emitted', x # y, x[3] = y[3]
               PROVE  x \in Emitted /\ y \in Emitted
    BY DEF NoTwice
  <2>1. \A z \in Emitted' : z[1] = kind /\ z[2] = key /\ z[3] = name => z = new
    BY EmittedIsNext, KindsApart
  <2>2. new[3] = name
    OBVIOUS
  <2> HIDE DEF new
  <2> QED BY <1>4, <1>5, <2>1, <2>2
<1>7. NoneLeftOut
  <2> SUFFICES ASSUME NEW e \in DOMAIN exts, rows'["context"][exts[e].context] = UsersName
               PROVE  rows["context"][exts[e].context] = UsersName
    BY DEF NoneLeftOut
  <2>1. exts[e].context \in DOMAIN rows["context"]
    BY DEF GuardsInv, TextsTyped
  <2> QED BY <1>2, <1>3, <2>1, KindsApart
<1>8. NoMacroLost
  <2>1. Macros' = Macros
    BY <1>2, KindsApart DEF Macros
  <2> QED BY <2>1 DEF NoMacroLost
<1> QED BY <1>6, <1>7, <1>8, NoHarm

\* A request that is ready has asked for something.
LEMMA ReadyIs ==
  ASSUME GuardsInv, NEW r \in Request, Ready(r), NEW c, c = asked[r]
  PROVE  c \in Changes /\ c # Nothing /\ writes < MaxWrites /\ at[r] # "idle"
<1>1. at[r] # "idle" /\ writes < MaxWrites
  BY DEF Ready
<1>2. c \in Changes
  BY <1>1 DEF GuardsInv, InFlight
<1>3. c.op # "nothing"
  BY <1>2, ChangesAre
<1>4. Nothing.op = "nothing"
  BY DEF Nothing
<1> QED BY <1>1, <1>2, <1>3, <1>4

\* A macro, a queue or a trunk group is stored.
LEMMA CalledHarmless ==
  ASSUME GuardsInv, NEW kind \in Called, NEW key \in Rows[kind], NEW name \in NamesOf[kind],
         rows' = [rows EXCEPT ![kind] = With(@, key, name)], UNCHANGED exts,
         MayName(kind, key, name)
  PROVE  Damage' \subseteq Damage
<1>1. /\ rows'["context"] = rows["context"] /\ rows'["table"] = rows["table"]
      /\ kind # "macro" => rows'["macro"] = rows["macro"]
      /\ kind = "macro" => rows'["macro"] = With(rows["macro"], key, name)
  BY KindsApart DEF GuardsInv, DialplanTyped
<1>2. NoTwice
  <2>1. \A x \in Emitted' : x \in Emitted
    BY <1>1, EmittedIs, EmittedIsNext
  <2> QED BY <2>1 DEF NoTwice
<1>3. NoneLeftOut
  BY <1>1 DEF NoneLeftOut
<1>4. ASSUME NEW e \in DOMAIN exts, NEW m \in MacrosIn(exts[e].text), m \in Macros, m \notin Macros'
      PROVE  FALSE
  <2>1. kind = "macro"
    BY <1>1, <1>4 DEF Macros
  <2>2. PICK k \in DOMAIN rows["macro"] : rows["macro"][k] = m
    BY <1>4 DEF Macros, Range
  <2>3. k = key /\ name # m
    BY <1>1, <1>4, <2>1, <2>2 DEF Macros, Range, With
  <2>4. ~Referenced("macro", m)
    BY <2>1, <2>2, <2>3 DEF MayName, Keeps
  <2>5. PICK call \in exts[e].text : call[1] = "macro" /\ call[2] = m
    BY <1>4 DEF MacrosIn
  <2> QED BY <2>4, <2>5 DEF Referenced, Calls, Same
<1>5. NoMacroLost
  BY <1>4 DEF NoMacroLost
<1> QED BY <1>2, <1>3, <1>5, NoHarm

LEMMA WriteStep ==
  ASSUME GuardsInv, NEW r \in Request, Write(r)
  PROVE  GuardsInv'
<1>1. PICK c : c = asked[r]
  OBVIOUS
<1>2. Ready(r) /\ c.op = "save"
  BY <1>1 DEF Write
<1>3. c \in Changes /\ c # Nothing /\ writes < MaxWrites
  BY <1>1, <1>2, ReadyIs
<1>4. c.kind \in Kind /\ c.key \in Rows[c.kind] /\ c.name \in NamesOf[c.kind] /\ c.text \in Text \cup {{}}
  BY <1>2, <1>3, ChangesAre
<1>5. CASE \E k \in DOMAIN rows[c.kind] \ {c.key} : rows[c.kind][k] = c.name
  BY <1>1, <1>5, FailStep DEF Write, Fails, guarded
<1>6. CASE ~\E k \in DOMAIN rows[c.kind] \ {c.key} : rows[c.kind][k] = c.name
  <2>1. /\ rows' = [rows EXCEPT ![c.kind] = With(@, c.key, c.name)]
        /\ bodies' = IF c.kind = "macro" THEN With(bodies, c.key, c.text) ELSE bodies
        /\ UNCHANGED <<exts, template, hooks>>
        /\ Done(r)
    BY <1>1, <1>6 DEF Write
  <2>2. /\ \A other \in Kind : other # c.kind => rows'[other] = rows[other]
        /\ DOMAIN rows'[c.kind] = DOMAIN rows[c.kind] \cup {c.key}
        /\ rows'[c.kind][c.key] = c.name
        /\ \A k \in DOMAIN rows[c.kind] : k # c.key => rows'[c.kind][k] = rows[c.kind][k]
        /\ DialplanTyped' /\ UniqueNames'
    BY <1>4, <1>6, <2>1, RowStored
  <2>3. TextsTyped'
    <3>1. \A x \in Kind : DOMAIN rows[x] \subseteq DOMAIN rows'[x]
      BY <2>2
    <3>2. DOMAIN bodies' = DOMAIN rows'["macro"] /\ \A m \in DOMAIN bodies' : bodies'[m] \in Text \cup {{}}
      <4>1. CASE c.kind = "macro"
        BY <1>4, <2>1, <2>2, <4>1 DEF With, GuardsInv, TextsTyped
      <4>2. CASE c.kind # "macro"
        BY <2>1, <2>2, <4>2, KindsApart DEF GuardsInv, TextsTyped
      <4> QED BY <4>1, <4>2
    <3>3. Scope \subseteq Kind
      BY KindsApart
    <3> QED BY <2>1, <3>1, <3>2, <3>3, KindsApart DEF GuardsInv, TextsTyped
  <2>4. ASSUME NEW key \in DOMAIN rows["context"], rows["context"][key] = UsersName, Spares(asked[r], key)
        PROVE  key \in DOMAIN rows'["context"] /\ rows'["context"][key] = UsersName
    BY <1>1, <1>2, <2>2, <2>4, KindsApart DEF Spares
  <2>5. ASSUME ~Between(r) PROVE Damage' \subseteq Damage
    <3>1. /\ c.kind \in Scope => SavePasses(c) /\ (Checked(c) \/ c.key \notin DOMAIN rows[Other(c.kind)])
          /\ c.kind \notin Scope => Checked(c)
      BY <1>1, <1>2, <1>3, <2>5, NotBetween
    <3>2. Checked(c) => MayName(c.kind, c.key, c.name)
      BY <1>2 DEF Checked
    <3>3. CASE c.kind \in Scope
      <4>1. \A k \in DOMAIN rows[Other(c.kind)] : rows[Other(c.kind)][k] # c.name
        BY <3>1, <3>2, <3>3 DEF SavePasses, MayName, FreeName, Range
      <4>2. PICK kind, key, name : kind \in Scope /\ kind = c.kind /\ key = c.key /\ name = c.name
        BY <3>3
      <4>3. /\ key \in Rows[kind] /\ name \in NamesOf[kind]
            /\ rows' = [rows EXCEPT ![kind] = With(@, key, name)]
            /\ UNCHANGED exts
        BY <1>4, <2>1, <4>2
      <4>4. /\ ~\E k \in DOMAIN rows[kind] \ {key} : rows[kind][k] = name
            /\ \A k \in DOMAIN rows[Other(kind)] : rows[Other(kind)][k] # name
        BY <1>6, <4>1, <4>2
      <4> QED BY <4>2, <4>3, <4>4, ScopeHarmless, ZenonT(60)
    <3>4. CASE c.kind \notin Scope
      <4>1. c.kind \in Called /\ MayName(c.kind, c.key, c.name)
        BY <1>4, <3>1, <3>2, <3>4 DEF Kind
      <4> QED BY <1>4, <2>1, <4>1, CalledHarmless
    <3> QED BY <3>3, <3>4
  <2> QED BY <1>3, <2>1, <2>2, <2>3, <2>4, <2>5, DoneStep
<1> QED BY <1>5, <1>6

\* A step after which there is no new context, no new or changed extension, and none of
\* the macros that an extension calls is gone.
LEMMA FewerHarmless ==
  ASSUME \A x \in Emitted' : x \in Emitted,
         \A e \in DOMAIN exts' : /\ e \in DOMAIN exts /\ exts'[e] = exts[e]
                                 /\ rows'["context"][exts[e].context] = rows["context"][exts[e].context]
                                 /\ MacrosIn(exts[e].text) \cap Macros \subseteq Macros'
  PROVE  Damage' \subseteq Damage
<1>1. NoTwice
  BY DEF NoTwice
<1>2. NoneLeftOut
  BY DEF NoneLeftOut
<1>3. NoMacroLost
  BY DEF NoMacroLost
<1> QED BY <1>1, <1>2, <1>3, NoHarm

\* A macro that no extension calls goes.
LEMMA MacroGone ==
  ASSUME GuardsInv, NEW key \in DOMAIN rows["macro"], ~Referenced("macro", rows["macro"][key]),
         rows'["macro"] = Without(rows["macro"], key), NEW e \in DOMAIN exts
  PROVE  MacrosIn(exts[e].text) \cap Macros \subseteq Macros'
<1> SUFFICES ASSUME NEW m \in MacrosIn(exts[e].text), m \in Macros, m \notin Macros' PROVE FALSE
  OBVIOUS
<1>1. PICK k \in DOMAIN rows["macro"] : rows["macro"][k] = m
  BY DEF Macros, Range
<1>2. k = key
  BY <1>1 DEF Macros, Range, Without, Restrict
<1>3. PICK call \in exts[e].text : call[1] = "macro" /\ call[2] = m
  BY DEF MacrosIn
<1> QED BY <1>1, <1>2, <1>3 DEF Referenced, Calls, Same

LEMMA RemoveRowStep ==
  ASSUME GuardsInv, NEW r \in Request, RemoveRow(r)
  PROVE  GuardsInv'
<1>1. PICK c : c = asked[r]
  OBVIOUS
<1>2. Ready(r) /\ c.op = "delete"
  BY <1>1 DEF RemoveRow
<1>3. c \in Changes /\ c # Nothing /\ writes < MaxWrites
  BY <1>1, <1>2, ReadyIs
<1>4. c.kind \in Kind /\ c.key \in Rows[c.kind]
  BY <1>2, <1>3, ChangesAre
<1>5. CASE c.kind = "context" /\ \E e \in DOMAIN exts : exts[e].context = c.key
  BY <1>1, <1>5, FailStep DEF RemoveRow, Fails, guarded
<1>6. CASE ~(c.kind = "context" /\ \E e \in DOMAIN exts : exts[e].context = c.key)
  <2>1. /\ rows' = [rows EXCEPT ![c.kind] = Without(@, c.key)]
        /\ bodies' = IF c.kind = "macro" THEN Without(bodies, c.key) ELSE bodies
        /\ hooks' = hooks \ {<<c.kind, c.key>>}
        /\ UNCHANGED <<exts, template>>
        /\ Done(r)
    BY <1>1, <1>6 DEF RemoveRow, Unhooked
  <2>2. /\ \A other \in Kind : other # c.kind => rows'[other] = rows[other]
        /\ DOMAIN rows' = Kind
        /\ rows'[c.kind] = Without(rows[c.kind], c.key)
    BY <1>4, <2>1 DEF GuardsInv, DialplanTyped
  <2>3. /\ DOMAIN rows'[c.kind] = DOMAIN rows[c.kind] \ {c.key}
        /\ \A k \in DOMAIN rows'[c.kind] : rows'[c.kind][k] = rows[c.kind][k]
    BY <2>2 DEF Without, Restrict
  <2>4. \A x \in Kind : \A k \in DOMAIN rows'[x] : k \in DOMAIN rows[x] /\ rows'[x][k] = rows[x][k]
    <3> SUFFICES ASSUME NEW x \in Kind PROVE \A k \in DOMAIN rows'[x] : k \in DOMAIN rows[x] /\ rows'[x][k] = rows[x][k]
      OBVIOUS
    <3>1. CASE x = c.kind
      BY <2>3, <3>1
    <3>2. CASE x # c.kind
      BY <2>2, <3>2
    <3> QED BY <3>1, <3>2
  <2>5. DialplanTyped' /\ UniqueNames'
    BY <2>2, <2>4 DEF DialplanTyped, UniqueNames, GuardsInv
  <2>6. TextsTyped'
    <3>1. DOMAIN bodies' = DOMAIN rows'["macro"] /\ \A m \in DOMAIN bodies' : bodies'[m] \in Text \cup {{}}
      <4>1. CASE c.kind = "macro"
        BY <2>1, <2>2, <2>3, <4>1 DEF Without, Restrict, GuardsInv, TextsTyped
      <4>2. CASE c.kind # "macro"
        BY <2>1, <2>2, <4>2, KindsApart DEF GuardsInv, TextsTyped
      <4> QED BY <4>1, <4>2
    <3>2. \A e \in DOMAIN exts' : e \in Extension /\ exts'[e].context \in DOMAIN rows'["context"] /\ exts'[e].text \in Text
      BY <1>6, <2>1, <2>2, <2>3, KindsApart DEF GuardsInv, TextsTyped
    <3>3. \A hook \in hooks' : hook = <<hook[1], hook[2]>> /\ hook[1] \in Scope /\ hook[2] \in DOMAIN rows'[hook[1]]
      <4> SUFFICES ASSUME NEW hook \in hooks'
                   PROVE  hook = <<hook[1], hook[2]>> /\ hook[1] \in Scope /\ hook[2] \in DOMAIN rows'[hook[1]]
        OBVIOUS
      <4>1. hook \in hooks /\ hook # <<c.kind, c.key>>
        BY <2>1
      <4>2. hook[1] \in Scope /\ hook[2] \in DOMAIN rows[hook[1]]
        BY <4>1 DEF GuardsInv, TextsTyped
      <4>3. hook = <<hook[1], hook[2]>>
        BY <4>1 DEF GuardsInv, TextsTyped
      <4> QED BY <2>2, <2>3, <4>1, <4>2, <4>3 DEF Kind
    <3> QED BY <2>1, <3>1, <3>2, <3>3 DEF GuardsInv, TextsTyped
  <2>7. ASSUME NEW key \in DOMAIN rows["context"], rows["context"][key] = UsersName, Spares(asked[r], key)
        PROVE  key \in DOMAIN rows'["context"] /\ rows'["context"][key] = UsersName
    BY <1>1, <1>2, <2>2, <2>3, <2>7, KindsApart DEF Spares
  <2>8. ASSUME ~Between(r) PROVE Damage' \subseteq Damage
    <3>1. MayDelete(c.kind, c.key)
      BY <1>1, <1>2, <1>3, <2>8, NotBetween DEF Checked
    <3>2. \A x \in Emitted' : x \in Emitted
      BY <2>4, EmittedIs, EmittedIsNext, KindsApart
    <3>3. ASSUME NEW e \in DOMAIN exts'
          PROVE  /\ e \in DOMAIN exts /\ exts'[e] = exts[e]
                 /\ rows'["context"][exts[e].context] = rows["context"][exts[e].context]
                 /\ MacrosIn(exts[e].text) \cap Macros \subseteq Macros'
      <4>1. e \in DOMAIN exts /\ exts'[e] = exts[e]
        BY <2>1
      <4>2. rows'["context"][exts[e].context] = rows["context"][exts[e].context]
        BY <2>4, <2>6, <4>1, KindsApart DEF TextsTyped
      <4>3. MacrosIn(exts[e].text) \cap Macros \subseteq Macros'
        <5>1. CASE c.kind = "macro"
          <6>1. c.key \in DOMAIN rows["macro"] /\ ~Referenced("macro", rows["macro"][c.key])
            BY <3>1, <5>1, KindsApart DEF MayDelete
          <6>2. rows'["macro"] = Without(rows["macro"], c.key)
            BY <2>2, <5>1
          <6> QED BY <4>1, <6>1, <6>2, MacroGone
        <5>2. CASE c.kind # "macro"
          BY <2>2, <5>2, KindsApart DEF Macros
        <5> QED BY <5>1, <5>2
      <4> QED BY <4>1, <4>2, <4>3
    <3> QED BY <3>2, <3>3, FewerHarmless
  <2> QED BY <1>3, <2>1, <2>5, <2>6, <2>7, <2>8, DoneStep
<1> QED BY <1>5, <1>6

LEMMA WriteExtensionStep ==
  ASSUME GuardsInv, NEW r \in Request, WriteExtension(r)
  PROVE  GuardsInv'
<1>1. PICK c : c = asked[r]
  OBVIOUS
<1>2. Ready(r) /\ c.op = "extension"
  BY <1>1 DEF WriteExtension
<1>3. c \in Changes /\ c # Nothing /\ writes < MaxWrites
  BY <1>1, <1>2, ReadyIs
<1>4. c.ext \in Extension /\ c.key \in Rows["context"] /\ c.text \in Text
  BY <1>2, <1>3, ChangesAre
<1>5. CASE c.key \notin DOMAIN rows["context"]
  BY <1>1, <1>5, FailStep DEF WriteExtension, Fails, guarded
<1>6. CASE c.key \in DOMAIN rows["context"]
  <2>1. /\ exts' = With(exts, c.ext, [context |-> c.key, text |-> c.text])
        /\ UNCHANGED <<rows, bodies, template, hooks>>
        /\ Done(r)
    BY <1>1, <1>6 DEF WriteExtension
  <2>2. DialplanTyped' /\ UniqueNames'
    BY <2>1 DEF DialplanTyped, UniqueNames, GuardsInv
  <2>3. \A e \in DOMAIN exts' : \/ e = c.ext /\ exts'[e].context = c.key /\ exts'[e].text = c.text
                                \/ e \in DOMAIN exts /\ exts'[e] = exts[e]
    BY <2>1 DEF With
  <2>4. TextsTyped'
    BY <1>4, <1>6, <2>1, <2>3 DEF GuardsInv, TextsTyped
  <2>5. ASSUME ~Between(r) PROVE Damage' \subseteq Damage
    <3>1. MayExtend(c.key, c.text)
      BY <1>1, <1>2, <1>3, <2>5, NotBetween DEF Checked
    <3>2. Emitted' = Emitted /\ Macros' = Macros
      BY <2>1 DEF Emitted, Macros
    <3>3. NoTwice
      BY <3>2 DEF NoTwice
    <3>4. NoneLeftOut
      BY <2>1, <2>3, <3>1 DEF NoneLeftOut, MayExtend, InContext
    <3>5. NoMacroLost
      BY <2>3, <3>1, <3>2 DEF NoMacroLost, MayExtend
    <3> QED BY <3>3, <3>4, <3>5, NoHarm
  <2> QED BY <1>3, <2>1, <2>2, <2>4, <2>5, DoneStep
<1> QED BY <1>5, <1>6

LEMMA DropExtensionStep ==
  ASSUME GuardsInv, NEW r \in Request, DropExtension(r)
  PROVE  GuardsInv'
<1>1. /\ exts' = Without(exts, asked[r].ext)
      /\ UNCHANGED <<rows, bodies, template, hooks>>
      /\ Done(r) /\ writes < MaxWrites
  BY ReadyIs DEF DropExtension
<1>2. DialplanTyped' /\ UniqueNames'
  BY <1>1 DEF DialplanTyped, UniqueNames, GuardsInv
<1>3. \A e \in DOMAIN exts' : e \in DOMAIN exts /\ exts'[e] = exts[e]
  BY <1>1 DEF Without, Restrict
<1>4. TextsTyped'
  BY <1>1, <1>3 DEF GuardsInv, TextsTyped
<1>5. Damage' \subseteq Damage
  <2>1. Emitted' = Emitted /\ Macros' = Macros
    BY <1>1 DEF Emitted, Macros
  <2> QED BY <1>1, <1>3, <2>1, FewerHarmless
<1> QED BY <1>1, <1>2, <1>4, <1>5, DoneStep

LEMMA WriteTemplateStep ==
  ASSUME GuardsInv, NEW r \in Request, WriteTemplate(r)
  PROVE  GuardsInv'
<1>1. PICK c : c = asked[r]
  OBVIOUS
<1>2. /\ Ready(r) /\ c.op = "template" /\ template' = c.text
      /\ UNCHANGED <<rows, bodies, exts, hooks>> /\ Done(r)
  BY <1>1 DEF WriteTemplate
<1>3. c \in Changes /\ writes < MaxWrites
  BY <1>1, <1>2, ReadyIs
<1>4. c.text \in Text
  BY <1>2, <1>3, ChangesAre
<1>5. DialplanTyped' /\ UniqueNames' /\ TextsTyped'
  BY <1>2, <1>4 DEF DialplanTyped, UniqueNames, TextsTyped, GuardsInv
<1>6. Damage' = Damage
  BY <1>2 DEF Damage, Emitted, Macros
<1> QED BY <1>2, <1>3, <1>5, <1>6, DoneStep

LEMMA WriteFilterStep ==
  ASSUME GuardsInv, NEW r \in Request, WriteFilter(r)
  PROVE  GuardsInv'
<1>1. PICK c : c = asked[r]
  OBVIOUS
<1>2. Ready(r) /\ c.op = "filter"
  BY <1>1 DEF WriteFilter
<1>3. c \in Changes /\ writes < MaxWrites
  BY <1>1, <1>2, ReadyIs
<1>4. c.kind \in Scope
  BY <1>2, <1>3, ChangesAre
<1>5. CASE c.key \notin DOMAIN rows[c.kind]
  BY <1>1, <1>5, FailStep DEF WriteFilter, Fails, guarded
<1>6. CASE c.key \in DOMAIN rows[c.kind]
  <2>1. /\ hooks' = hooks \cup {<<c.kind, c.key>>} /\ UNCHANGED <<rows, bodies, exts, template>> /\ Done(r)
    BY <1>1, <1>6 DEF WriteFilter
  <2>2. DialplanTyped' /\ UniqueNames' /\ TextsTyped'
    BY <1>4, <1>6, <2>1 DEF DialplanTyped, UniqueNames, TextsTyped, GuardsInv
  <2>3. Damage' = Damage
    BY <2>1 DEF Damage, Emitted, Macros
  <2> QED BY <1>3, <2>1, <2>2, <2>3, DoneStep
<1> QED BY <1>5, <1>6

LEMMA GuardsStep == GuardsInv /\ [GuardsNext]_guardVars => GuardsInv'
<1> SUFFICES ASSUME GuardsInv, [GuardsNext]_guardVars PROVE GuardsInv'
  OBVIOUS
<1>1. CASE UNCHANGED guardVars
  <2>1. UNCHANGED <<guarded, writes, torn>> /\ UNCHANGED <<asked, at, late>>
    BY <1>1 DEF guardVars, guarded
  <2>2. InFlight'
    BY <2>1 DEF InFlight, GuardsInv
  <2>3. StillChecked' /\ StillPasses'
    <3>1. \A c : (Checked(c) => Checked(c)') /\ (SavePasses(c) => SavePasses(c)')
      BY <2>1, CheckedStays
    <3> QED BY <2>1, <3>1 DEF GuardsInv, StillChecked, StillPasses
  <2> QED BY <2>1, <2>2, <2>3, QuietStep
<1>2. ASSUME NEW r \in Request, NEW c \in Changes, Check(r, c) PROVE GuardsInv'
  BY <1>2, CheckStep
<1>3. ASSUME NEW r \in Request, Act(r) PROVE GuardsInv'
  BY <1>3, RecheckStep, WriteStep, RemoveRowStep, WriteExtensionStep, DropExtensionStep, WriteTemplateStep,
     WriteFilterStep DEF Act
<1> QED BY <1>1, <1>2, <1>3 DEF GuardsNext

LEMMA GuardsMeans ==
  GuardsInv => GeneratedOnce /\ ExtensionsGenerated /\ MacrosExist /\ GuardsTypeOK
<1> SUFFICES ASSUME GuardsInv PROVE GeneratedOnce /\ ExtensionsGenerated /\ MacrosExist /\ GuardsTypeOK
  OBVIOUS
<1>1. GeneratedOnce /\ ExtensionsGenerated /\ MacrosExist
  BY DEF GuardsInv, DamageTold, GeneratedOnce, ExtensionsGenerated, MacrosExist
<1>2. GuardsTypeOK
  BY DEF GuardsInv, DialplanTyped, TextsTyped, InFlight, GuardsTypeOK, Range
<1> QED BY <1>1, <1>2

-----------------------------------------------------------------------------
(* What renames and deletions take along. *)

\* A row whose name no text calls is not what a call in the texts searched is after.
LEMMA NotCalled ==
  ASSUME GuardsInv, NEW kind \in Called, NEW key \in DOMAIN rows[kind], ~Referenced(kind, rows[kind][key]),
         NEW text \in Searched(kind, key), NEW call \in text, call[1] = kind
  PROVE  ~Same(kind, call[2], rows[kind][key])
<1> SUFFICES ASSUME Calls(text, kind, rows[kind][key]) PROVE FALSE
  BY DEF Calls
<1>1. CASE \E e \in DOMAIN exts : text = exts[e].text
  BY <1>1 DEF Referenced
<1>2. CASE \E m \in DOMAIN bodies : text = bodies[m] /\ (kind = "macro" => m # key)
  <2>1. PICK m \in DOMAIN bodies : text = bodies[m] /\ (kind = "macro" => m # key)
    BY <1>2
  <2>2. kind = "macro" => rows["macro"][m] # rows["macro"][key]
    BY <2>1, KindsApart DEF GuardsInv, UniqueNames, TextsTyped
  <2> QED BY <2>1, <2>2 DEF Referenced
<1>3. CASE kind = "macro" /\ text = template
  BY <1>3 DEF Referenced
<1> QED BY <1>1, <1>2, <1>3 DEF Searched

\* Only the statement of a request counts as a change.
LEMMA WhoWrites ==
  ASSUME GuardsInv, [GuardsNext]_guardVars, writes' # writes
  PROVE  \E r \in Request :
           /\ Done(r)
           /\ Write(r) \/ RemoveRow(r) \/ WriteExtension(r) \/ DropExtension(r) \/ WriteTemplate(r) \/ WriteFilter(r)
<1>1. ASSUME NEW r \in Request, NEW c \in Changes, Check(r, c) PROVE FALSE
  BY <1>1 DEF Check
<1>2. ASSUME NEW r \in Request, Recheck(r) PROVE FALSE
  BY <1>2 DEF Recheck
<1>3. ASSUME NEW r \in Request, Fails(r) PROVE FALSE
  BY <1>3 DEF Fails
<1> QED BY <1>1, <1>2, <1>3 DEF GuardsNext, Act, guardVars, Write, RemoveRow, WriteExtension, DropExtension,
           WriteTemplate, WriteFilter

\* A rename or a deletion to which no change came between.
BreaksNone ==
  \A r \in Request, kind \in Called :
    (asked[r].op \in {"save", "delete"} /\ asked[r].kind = kind
       /\ writes' > writes /\ at[r] # "idle" /\ at'[r] = "idle" /\ late[r] = {})
    => \A text \in Searched(kind, asked[r].key) : \A call \in text :
         call[1] = kind /\ Answered(kind, call) => Answered(kind, call)'

LEMMA GuardsBreakNone ==
  ASSUME GuardsInv, [GuardsNext]_guardVars
  PROVE  BreaksNone
<1> SUFFICES ASSUME NEW r \in Request, NEW kind \in Called, NEW c, c = asked[r],
                    c.op \in {"save", "delete"}, c.kind = kind, writes' > writes,
                    at[r] # "idle", at'[r] = "idle", late[r] = {},
                    NEW text \in Searched(kind, c.key), NEW call \in text, call[1] = kind,
                    Answered(kind, call)
             PROVE  Answered(kind, call)'
  BY DEF BreaksNone
<1>1. writes' # writes
  BY GuardBounds DEF GuardsInv
<1>2. PICK s \in Request :
        /\ Done(s)
        /\ Write(s) \/ RemoveRow(s) \/ WriteExtension(s) \/ DropExtension(s) \/ WriteTemplate(s) \/ WriteFilter(s)
  BY <1>1, WhoWrites
<1>3. s = r
  BY <1>2 DEF Done, Finish, GuardsInv, InFlight
<1>4. Done(r) /\ ((c.op = "save" /\ Write(r)) \/ (c.op = "delete" /\ RemoveRow(r)))
  BY <1>2, <1>3 DEF Write, RemoveRow, WriteExtension, DropExtension, WriteTemplate, WriteFilter
<1>5. Ready(r) /\ ~Between(r)
  BY <1>4 DEF Write, RemoveRow, Between
<1>6. c # Nothing
  BY <1>5, ReadyIs
<1>7. Checked(c)
  BY <1>5, <1>6, NotBetween, KindsApart
<1>8. kind \in Kind /\ DOMAIN rows = Kind
  BY KindsApart DEF GuardsInv, DialplanTyped
<1>9. PICK k \in DOMAIN rows[kind] : Same(kind, call[2], rows[kind][k])
  BY DEF Answered, Range
<1>10. SUFFICES k \in DOMAIN rows'[kind] /\ rows'[kind][k] = rows[kind][k]
  BY <1>9 DEF Answered, Range, Same
<1>11. CASE c.op = "save" /\ Write(r)
  <2>1. rows' = [rows EXCEPT ![kind] = With(@, c.key, c.name)]
    BY <1>1, <1>11 DEF Write, Fails
  <2>2. rows'[kind] = With(rows[kind], c.key, c.name)
    BY <1>8, <2>1
  <2>3. MayName(kind, c.key, c.name)
    BY <1>7, <1>11 DEF Checked
  <2>4. k = c.key => rows[kind][k] = c.name
    BY <1>9, <2>3, NotCalled DEF MayName, Keeps
  <2> QED BY <2>2, <2>4 DEF With
<1>12. CASE c.op = "delete" /\ RemoveRow(r)
  <2>1. rows' = [rows EXCEPT ![kind] = Without(@, c.key)]
    BY <1>1, <1>12 DEF RemoveRow, Fails
  <2>2. rows'[kind] = Without(rows[kind], c.key)
    BY <1>8, <2>1
  <2>3. MayDelete(kind, c.key)
    BY <1>7, <1>12 DEF Checked
  <2>4. k # c.key
    BY <1>9, <2>3, NotCalled DEF MayDelete
  <2> QED BY <2>2, <2>4 DEF Without, Restrict
<1> QED BY <1>4, <1>11, <1>12

\* A filter loses a context only to a deletion that a change came between.
FiltersLost == \A hook \in hooks \ hooks' : \E r \in Request : at'[r] # at[r] /\ late[r] # {}

LEMMA GuardsKeepFilters ==
  ASSUME GuardsInv, [GuardsNext]_guardVars
  PROVE  FiltersLost
<1> SUFFICES ASSUME NEW hook \in hooks \ hooks' PROVE \E r \in Request : at'[r] # at[r] /\ late[r] # {}
  BY DEF FiltersLost
<1>1. PICK r \in Request : RemoveRow(r)
  BY DEF GuardsNext, guardVars, Act, Check, Recheck, Write, WriteExtension, DropExtension, WriteTemplate,
         WriteFilter, Fails
<1>2. PICK c : c = asked[r]
  OBVIOUS
<1>3. Ready(r) /\ c.op = "delete" /\ Done(r) /\ hooks' = hooks \ {<<c.kind, c.key>>}
  BY <1>1, <1>2 DEF RemoveRow, Fails, Unhooked
<1>4. at'[r] # at[r]
  BY <1>3, ReadyIs DEF Done, Finish, GuardsInv, InFlight
<1>5. ASSUME late[r] = {} PROVE FALSE
  <2>1. ~Between(r) /\ c # Nothing
    BY <1>2, <1>3, <1>5, ReadyIs DEF Between
  <2>2. MayDelete(c.kind, c.key)
    BY <1>2, <1>3, <2>1, NotBetween DEF Checked
  <2>3. hook = <<c.kind, c.key>> /\ hook[1] \in Scope
    BY <1>3 DEF GuardsInv, TextsTyped
  <2> QED BY <2>2, <2>3 DEF MayDelete
<1> QED BY <1>4, <1>5

-----------------------------------------------------------------------------
(* The order of a rule's lines. *)

\* The changes of a rule can be sorted, whichever of two equal ones comes first.
LEMMA SortingExists ==
  ASSUME NEW S, IsFiniteSet(S), S \subseteq Changed
  PROVE  Sortings(S) # {}
<1> DEFINE n == Cardinality(S)
<1>1. n \in Nat /\ ExistsBijection(1 .. n, S)
  BY FS_CardinalityType
<1>2. PICK f : f \in Bijection(1 .. n, S)
  BY <1>1 DEF ExistsBijection
<1>3. /\ f \in [1 .. n -> S]
      /\ \A c \in S : \E i \in 1 .. n : f[i] = c
  BY <1>2 DEF Bijection, Surjection
<1> DEFINE g == [c \in S |-> CHOOSE i \in 1 .. n : f[i] = c]
<1>4. \A c \in S : g[c] \in 1 .. n /\ f[g[c]] = c
  BY <1>3
<1>5. \A c \in S : g[c] \in Int
  BY <1>1, <1>4
<1>6. \A c, d \in S : g[c] = g[d] => c = d
  BY <1>4
<1>7. \A c \in S : c.seconds \in Int /\ c.order \in Int
  BY DEF Changed
<1> HIDE DEF g
<1> DEFINE Before(c, d) ==
             \/ c.seconds < d.seconds
             \/ c.seconds = d.seconds /\ (c.order < d.order \/ (c.order = d.order /\ g[c] < g[d]))
           Below(c) == {e \in S : Before(e, c)}
           rank == [c \in S |-> Cardinality(Below(c)) + 1]
<1>8. \A c \in S : ~Before(c, c)
  BY <1>5, <1>7
<1>9. \A c, d \in S : c # d => Before(c, d) \/ Before(d, c)
  BY <1>5, <1>6, <1>7
<1>10. \A c, d, e \in S : Before(c, d) /\ Before(d, e) => Before(c, e)
  BY <1>5, <1>7
<1>11. \A c, d \in S : Earlier(c, d) => Before(c, d)
  BY DEF Earlier
<1> HIDE DEF Before
<1>12. \A c \in S : IsFiniteSet(Below(c)) /\ Cardinality(Below(c)) \in Nat /\ Cardinality(Below(c)) < n
  <2> SUFFICES ASSUME NEW c \in S
               PROVE  IsFiniteSet(Below(c)) /\ Cardinality(Below(c)) \in Nat /\ Cardinality(Below(c)) < n
    OBVIOUS
  <2>1. Below(c) \in SUBSET S /\ c \notin Below(c)
    BY <1>8
  <2> HIDE DEF Below
  <2>2. IsFiniteSet(Below(c)) /\ Cardinality(Below(c)) <= n /\ (Cardinality(Below(c)) = n => S = Below(c))
    BY <2>1, FS_Subset
  <2>3. Cardinality(Below(c)) \in Nat
    BY <2>2, FS_CardinalityType
  <2> QED BY <1>1, <2>1, <2>2, <2>3
<1>13. \A c, d \in S : Before(c, d) => rank[c] < rank[d]
  <2> SUFFICES ASSUME NEW c \in S, NEW d \in S, Before(c, d) PROVE rank[c] < rank[d]
    OBVIOUS
  <2>1. Below(c) \in SUBSET Below(d) /\ c \in Below(d) /\ c \notin Below(c)
    BY <1>8, <1>10
  <2>2. rank[c] = Cardinality(Below(c)) + 1 /\ rank[d] = Cardinality(Below(d)) + 1
    OBVIOUS
  <2> HIDE DEF Below, rank
  <2>3. /\ Cardinality(Below(c)) <= Cardinality(Below(d))
        /\ Cardinality(Below(d)) = Cardinality(Below(c)) => Below(d) = Below(c)
    BY <1>12, <2>1, FS_Subset
  <2> QED BY <1>12, <2>1, <2>2, <2>3
<1>14. \A c \in S : rank[c] \in 1 .. n
  <2>1. \A c \in S : rank[c] = Cardinality(Below(c)) + 1
    OBVIOUS
  <2> HIDE DEF rank, Below, n
  <2> QED BY <1>1, <1>12, <2>1
<1>15. rank \in Injection(S, 1 .. n)
  <2>1. rank \in [S -> 1 .. n]
    BY <1>14
  <2>2. ASSUME NEW c \in S, NEW d \in S, rank[c] = rank[d] PROVE c = d
    <3>1. rank[c] \in Int
      BY <1>1, <1>14
    <3> HIDE DEF rank, Below
    <3> QED BY <1>9, <1>13, <2>2, <3>1
  <2> HIDE DEF rank
  <2> QED BY <2>1, <2>2 DEF Injection, IsInjective
<1> HIDE DEF rank
<1>16. \A i \in 1 .. n : \E c \in S : rank[c] = i
  <2>1. IsFiniteSet(1 .. n) /\ Cardinality(1 .. n) = n
    BY <1>1, FS_Interval
  <2>2. rank \in Surjection(S, 1 .. n)
    BY <1>15, <2>1, FS_Injection
  <2> QED BY <2>2 DEF Surjection
<1> DEFINE s == [i \in 1 .. n |-> CHOOSE c \in S : rank[c] = i]
<1>17. \A i \in 1 .. n : s[i] \in S /\ rank[s[i]] = i
  BY <1>16
<1>18. s \in [1 .. n -> S] /\ DOMAIN s = 1 .. n
  BY <1>17
<1> HIDE DEF s
<1>19. ASSUME NEW i \in 1 .. n, NEW j \in 1 .. n, i < j PROVE s[i] # s[j] /\ ~Earlier(s[j], s[i])
  <2>1. i \in Int /\ j \in Int
    BY <1>1
  <2> QED BY <1>11, <1>13, <1>17, <1>19, <2>1
<1>20. s \in Sortings(S)
  BY <1>18, <1>19 DEF Sortings
<1> QED BY <1>20

\* A sorting leaves no change out.
LEMMA SortingFull ==
  ASSUME NEW S, IsFiniteSet(S), NEW s \in Sortings(S), NEW c \in S
  PROVE  \E i \in DOMAIN s : s[i] = c
<1> DEFINE n == Cardinality(S)
<1>1. n \in Nat
  BY FS_CardinalityType
<1>2. s \in [1 .. n -> S] /\ DOMAIN s = 1 .. n
  BY DEF Sortings
<1>3. \A i, j \in 1 .. n : i < j => s[i] # s[j]
  BY <1>2 DEF Sortings
<1>4. s \in Injection(1 .. n, S)
  <2>1. \A i, j \in 1 .. n : i < j \/ j < i \/ i = j
    BY <1>1
  <2> QED BY <1>2, <1>3, <2>1 DEF Injection, IsInjective
<1>5. IsFiniteSet(1 .. n) /\ Cardinality(1 .. n) = n
  BY <1>1, FS_Interval
<1>6. s \in Surjection(1 .. n, S)
  BY <1>4, <1>5, FS_Injection
<1> QED BY <1>2, <1>6 DEF Surjection

-----------------------------------------------------------------------------
(* What app_queue reads. *)

LEMMA OptionLines ==
  ASSUME NEW row, NEW line
  PROVE  line \in QueueOptions(row) <=>
           \/ line = <<"strategy", IF row.strategy = NoValue THEN "None" ELSE row.strategy>>
           \/ row.maxlen \notin Falsy /\ line = <<"maxlen", row.maxlen>>
           \/ row.context \notin Falsy /\ line = <<"context", row.context>>
           \/ row.timeout \notin Falsy /\ line = <<"timeout", row.timeout>>
           \/ line = <<"autofill", IF row.autofill THEN "yes" ELSE "no">>
           \/ announces[row.announcement] \notin Falsy /\ line = <<"queue-thankyou", announces[row.announcement]>>
           \/ row.rule \notin Falsy /\ line = <<"defaultrule", row.rule>>
BY DEF QueueOptions, Verbatim, Opt, YesNo

LEMMA OptionFound ==
  ASSUME NEW options, NEW key, NEW value, <<key, value>> \in options,
         \A line \in options : line[1] = key => line[2] = value
  PROVE  OptionRead(options, key) = value
<1>1. \E line \in options : line[1] = key
  OBVIOUS
<1> DEFINE found == CHOOSE line \in options : line[1] = key
<1>2. found \in options /\ found[1] = key
  BY <1>1
<1>3. OptionRead(options, key) = found[2]
  BY <1>1 DEF OptionRead
<1> HIDE DEF found
<1> QED BY <1>2, <1>3

LEMMA OptionAbsent ==
  ASSUME NEW options, NEW key, \A line \in options : line[1] # key
  PROVE  OptionRead(options, key) = AsteriskDefault[key]
BY DEF OptionRead

LEMMA QueueRowIs ==
  ASSUME NEW row \in QueueRows
  PROVE  /\ row.maxlen \in {"0", "9"} /\ row.context \in {NoValue, "", "c"} /\ row.timeout \in {"0", "30"}
         /\ row.autofill \in BOOLEAN /\ row.rule \in RuleKey \cup {NoValue}
BY DEF QueueRows

LEMMA QueueRead ==
  ASSUME NEW row \in QueueRows,
         NEW key \in DOMAIN Meant(row) \ (IF row.timeout = "0" THEN {"timeout"} ELSE {})
  PROVE  OptionRead(QueueOptions(row), key) = Meant(row)[key]
<1>1. key \in {"maxlen", "timeout", "context", "autofill", "defaultrule"} /\ (row.timeout = "0" => key # "timeout")
  BY DEF Meant
<1>2. CASE key = "maxlen"
  <2>1. Meant(row)[key] = row.maxlen /\ AsteriskDefault[key] = "0"
    BY <1>2 DEF Meant, AsteriskDefault
  <2>2. CASE row.maxlen = "0"
    <3>0. \A line \in QueueOptions(row) : line[1] = "maxlen" => row.maxlen \notin Falsy
      BY OptionLines
    <3>1. \A line \in QueueOptions(row) : line[1] # key
      BY <1>2, <2>2, <3>0 DEF Falsy
    <3> QED BY <2>1, <2>2, <3>1, OptionAbsent
  <2>3. CASE row.maxlen = "9"
    <3>1. <<key, row.maxlen>> \in QueueOptions(row)
      BY <1>2, <2>3, OptionLines DEF Falsy, NoValue
    <3>2. \A line \in QueueOptions(row) : line[1] = key => line[2] = row.maxlen
      BY <1>2, OptionLines
    <3> QED BY <2>1, <3>1, <3>2, OptionFound
  <2> QED BY <2>2, <2>3, QueueRowIs
<1>3. CASE key = "timeout"
  <2>1. Meant(row)[key] = row.timeout /\ row.timeout = "30"
    BY <1>1, <1>3, QueueRowIs DEF Meant
  <2>2. <<key, row.timeout>> \in QueueOptions(row)
    BY <1>3, <2>1, OptionLines DEF Falsy, NoValue
  <2>3. \A line \in QueueOptions(row) : line[1] = key => line[2] = row.timeout
    BY <1>3, OptionLines
  <2> QED BY <2>1, <2>2, <2>3, OptionFound
<1>4. CASE key = "context"
  <2>1. Meant(row)[key] = (IF row.context = NoValue THEN "" ELSE row.context) /\ AsteriskDefault[key] = ""
    BY <1>4 DEF Meant, AsteriskDefault
  <2>2. CASE row.context \in {NoValue, ""}
    <3>0. \A line \in QueueOptions(row) : line[1] = "context" => row.context \notin Falsy
      BY OptionLines
    <3>1. \A line \in QueueOptions(row) : line[1] # key
      BY <1>4, <2>2, <3>0 DEF Falsy
    <3> QED BY <2>1, <2>2, <3>1, OptionAbsent
  <2>3. CASE row.context = "c"
    <3>1. <<key, row.context>> \in QueueOptions(row)
      BY <1>4, <2>3, OptionLines DEF Falsy, NoValue
    <3>2. \A line \in QueueOptions(row) : line[1] = key => line[2] = row.context
      BY <1>4, OptionLines
    <3>3. Meant(row)[key] = row.context
      BY <2>1, <2>3 DEF NoValue
    <3> QED BY <3>1, <3>2, <3>3, OptionFound
  <2> QED BY <2>2, <2>3, QueueRowIs
<1>5. CASE key = "autofill"
  <2> DEFINE value == IF row.autofill THEN "yes" ELSE "no"
  <2>1. Meant(row)[key] = value
    BY <1>5 DEF Meant
  <2>2. <<key, value>> \in QueueOptions(row)
    BY <1>5, OptionLines
  <2>3. \A line \in QueueOptions(row) : line[1] = key => line[2] = value
    BY <1>5, OptionLines
  <2> HIDE DEF value
  <2> QED BY <2>1, <2>2, <2>3, OptionFound
<1>6. CASE key = "defaultrule"
  <2>1. Meant(row)[key] = (IF row.rule = NoValue THEN "" ELSE row.rule) /\ AsteriskDefault[key] = ""
    BY <1>6 DEF Meant, AsteriskDefault
  <2>2. CASE row.rule = NoValue
    <3>0. \A line \in QueueOptions(row) : line[1] = "defaultrule" => row.rule \notin Falsy
      BY OptionLines
    <3>1. \A line \in QueueOptions(row) : line[1] # key
      BY <1>6, <2>2, <3>0 DEF Falsy
    <3> QED BY <2>1, <2>2, <3>1, OptionAbsent
  <2>3. CASE row.rule \in RuleKey
    <3>0. row.rule \notin Falsy /\ row.rule # NoValue
      BY <2>3, QueueAssumption DEF Falsy
    <3>1. <<key, row.rule>> \in QueueOptions(row)
      BY <1>6, <3>0, OptionLines
    <3>2. \A line \in QueueOptions(row) : line[1] = key => line[2] = row.rule
      BY <1>6, OptionLines
    <3>3. Meant(row)[key] = row.rule
      BY <2>1, <3>0
    <3> QED BY <3>1, <3>2, <3>3, OptionFound
  <2> QED BY <2>2, <2>3, QueueRowIs
<1> QED BY <1>1, <1>2, <1>3, <1>4, <1>5, <1>6

LEMMA SixColumns ==
  ASSUME NEW w, NEW c1, NEW c2, NEW c3, NEW c4, NEW c5, NEW c6,
         w = <<c1, c2>> \o <<c3>> \o <<c4, c5, c6>>
  PROVE  Len(w) = 6 /\ w[1] = c1 /\ w[4] = c4 /\ w[5] = c5 /\ w[6] = c6
<1> DEFINE s == <<c1, c2>> \o <<c3>>
<1>1. Len(s) = 3 /\ s[1] = c1 /\ s[2] = c2 /\ s[3] = c3 /\ DOMAIN s = 1 .. 3
  OBVIOUS
<1>2. w = s \o <<c4, c5, c6>>
  OBVIOUS
<1> HIDE DEF s
<1> QED BY <1>1, <1>2

\* The columns of a member whose name has no comma.
LEMMA MemberRead ==
  ASSUME NEW row \in MemberRows, \A words \in row.name : Len(words) < 2
  PROVE  LET columns == MemberColumns(row)
         IN  /\ columns[1] = row.interface
             /\ Column(columns, 4) = (IF row.state = NoValue THEN "" ELSE row.state)
             /\ Column(columns, 5) = "no" /\ Column(columns, 6) = "0"
<1> DEFINE middle == IF row.name = {} THEN <<"None">> ELSE CHOOSE words \in row.name : TRUE
           state == IF row.state = NoValue THEN "" ELSE row.state
<1>1. row.name \in {{}} \cup {{<<n>>} : n \in Account} \cup {{<<"">>}, {<<"x", "y">>}}
  BY DEF MemberRows
<1>2. PICK x : middle = <<x>>
  <2>1. CASE row.name = {}
    BY <2>1
  <2>2. CASE \E n \in Account : row.name = {<<n>>}
    <3>1. PICK n \in Account : row.name = {<<n>>}
      BY <2>2
    <3>2. middle = <<n>>
      BY <3>1
    <3> HIDE DEF middle
    <3> QED BY <3>2
  <2>3. CASE row.name = {<<"">>}
    BY <2>3
  <2>4. row.name # {<<"x", "y">>}
    <3>1. Len(<<"x", "y">>) = 2 /\ ~(2 < 2)
      OBVIOUS
    <3>2. <<"x", "y">> \in row.name => Len(<<"x", "y">>) < 2
      OBVIOUS
    <3> QED BY <3>1, <3>2
  <2> HIDE DEF middle
  <2> QED BY <1>1, <2>1, <2>2, <2>3, <2>4
<1>3. MemberColumns(row) = <<row.interface, "100">> \o middle \o <<state, "no", "0">>
  BY DEF MemberColumns
<1> HIDE DEF middle, state
<1>4. PICK w : w = MemberColumns(row)
  OBVIOUS
<1>5. Len(w) = 6 /\ w[1] = row.interface /\ w[4] = state /\ w[5] = "no" /\ w[6] = "0"
  BY <1>2, <1>3, <1>4, SixColumns
<1>6. Column(w, 4) = w[4] /\ Column(w, 5) = w[5] /\ Column(w, 6) = w[6]
  <2>1. Len(w) = 6
    BY <1>5
  <2> QED BY <2>1 DEF Column
<1> QED BY <1>4, <1>5, <1>6 DEF state

\* The columns of a change, of which the empty ones at the end are left out.
LEMMA PenaltiesRead ==
  ASSUME NEW altered, NEW i \in 1 .. 3
  PROVE  Column(PenaltyColumns(altered), i) = <<altered.max, altered.min, altered.raise>>[i]
<1> DEFINE parts == <<altered.max, altered.min, altered.raise>>
           Had == {0} \cup {j \in 1 .. 3 : parts[j] # ""}
           last == Max(Had)
<1>0. Had \subseteq {0, 1, 2, 3} /\ 0 \in Had /\ (\A j \in 1 .. 3 : parts[j] # "" => j \in Had)
  <2> HIDE DEF parts
  <2>1. \A j \in 1 .. 3 : j \in {0, 1, 2, 3}
    OBVIOUS
  <2> QED BY <2>1
<1>1. PICK m \in Had : \A y \in Had : m >= y
  <2>1. Had \subseteq {0, 1, 2, 3} /\ 0 \in Had
    BY <1>0
  <2> HIDE DEF Had
  <2>2. CASE 3 \in Had
    BY <2>1, <2>2
  <2>3. CASE 3 \notin Had /\ 2 \in Had
    BY <2>1, <2>3
  <2>4. CASE 3 \notin Had /\ 2 \notin Had /\ 1 \in Had
    BY <2>1, <2>4
  <2>5. CASE 3 \notin Had /\ 2 \notin Had /\ 1 \notin Had
    BY <2>1, <2>5
  <2> QED BY <2>2, <2>3, <2>4, <2>5
<1>2. last \in Had /\ \A y \in Had : last >= y
  BY <1>1 DEF Max
<1>3. last \in 0 .. 3 /\ \A j \in 1 .. 3 : parts[j] # "" => j <= last
  <2> HIDE DEF parts, last, Had
  <2>1. last \in {0, 1, 2, 3} /\ (\A j \in 1 .. 3 : parts[j] # "" => j \in Had)
    BY <1>0, <1>2
  <2>2. last \in {0, 1, 2, 3} /\ \A y \in Had : last >= y
    BY <1>2, <2>1
  <2>3. last \in 0 .. 3 /\ \A j \in 1 .. 3 : j \in Had => j <= last
    BY <2>2
  <2> QED BY <2>1, <2>3
<1> HIDE DEF last, Had
<1>4. PICK p : p = parts
  OBVIOUS
<1>5. p \in Seq({p[1], p[2], p[3]}) /\ Len(p) = 3
  BY <1>4
<1>6. PenaltyColumns(altered) = SubSeq(p, 1, last)
  BY <1>4 DEF PenaltyColumns, last, Had
<1> HIDE DEF parts
<1>7. Len(SubSeq(p, 1, last)) = last /\ \A j \in 1 .. last : SubSeq(p, 1, last)[j] = p[j]
  <2>1. last \in 0 .. 3
    BY <1>3
  <2>2. PICK E : p \in Seq(E) /\ Len(p) = 3
    BY <1>5
  <2>3. DOMAIN p = 1 .. 3
    BY <2>2
  <2>4. SubSeq(p, 1, last) = [j \in 1 .. last |-> p[j]]
    BY <2>1, <2>2, <2>3
  <2> QED BY <2>1, <2>4
<1>8. CASE i <= last
  <2>0. last \in 0 .. 3
    BY <1>3
  <2>1. i \in 1 .. last /\ last \in Int
    BY <1>8, <2>0
  <2> QED BY <1>4, <1>6, <1>7, <1>8, <2>1 DEF Column, parts
<1>9. CASE ~(i <= last)
  <2>1. parts[i] = ""
    BY <1>3, <1>9
  <2> QED BY <1>6, <1>7, <1>9, <2>1 DEF Column, parts
<1> QED BY <1>8, <1>9

\* The lines of a rule tell each of its changes.
ToldInLines(r, altered) ==
  \E i \in DOMAIN RuleLines(r) :
    /\ RuleLines(r)[i].seconds = altered.seconds
    /\ <<Column(RuleLines(r)[i].columns, 1), Column(RuleLines(r)[i].columns, 2),
         Column(RuleLines(r)[i].columns, 3)>> = <<altered.max, altered.min, altered.raise>>
    /\ (\A other \in ruleRows[r] \ {altered} : other.seconds = altered.seconds => other.order < altered.order)
         => \A j \in DOMAIN RuleLines(r) : j > i => RuleLines(r)[j].seconds > altered.seconds

LEMMA RuleRead ==
  ASSUME NEW r, IsFiniteSet(ruleRows[r]), ruleRows[r] \subseteq Changed, NEW altered \in ruleRows[r]
  PROVE  ToldInLines(r, altered)
<1>1. PICK S : S = ruleRows[r]
  OBVIOUS
<1> DEFINE s == CHOOSE t \in Sortings(S) : TRUE
<1>2. s \in Sortings(S)
  BY <1>1, SortingExists
<1>3. RuleLines(r) = [i \in DOMAIN s |-> [seconds |-> s[i].seconds, columns |-> PenaltyColumns(s[i])]]
  BY <1>1 DEF RuleLines
<1> HIDE DEF s
<1>4. PICK i \in DOMAIN s : s[i] = altered
  BY <1>1, <1>2, SortingFull
<1>5. /\ DOMAIN RuleLines(r) = DOMAIN s
      /\ \A j \in DOMAIN s : RuleLines(r)[j].seconds = s[j].seconds /\ RuleLines(r)[j].columns = PenaltyColumns(s[j])
  BY <1>3
<1>6. RuleLines(r)[i].seconds = altered.seconds /\ RuleLines(r)[i].columns = PenaltyColumns(altered)
  BY <1>4, <1>5
<1>7. <<Column(PenaltyColumns(altered), 1), Column(PenaltyColumns(altered), 2), Column(PenaltyColumns(altered), 3)>>
        = <<altered.max, altered.min, altered.raise>>
  <2>1. 1 \in 1 .. 3 /\ 2 \in 1 .. 3 /\ 3 \in 1 .. 3
    OBVIOUS
  <2> QED BY <2>1, PenaltiesRead
<1>8. ASSUME \A other \in S \ {altered} : other.seconds = altered.seconds => other.order < altered.order,
             NEW j \in DOMAIN s, j > i
      PROVE  s[j].seconds > altered.seconds
  <2>1. s \in [1 .. Cardinality(S) -> S] /\ DOMAIN s = 1 .. Cardinality(S)
    BY <1>2 DEF Sortings
  <2>2. Cardinality(S) \in Nat
    BY <1>1, FS_CardinalityType
  <2>3. i < j
    BY <1>8, <2>1, <2>2
  <2>4. s[j] # altered /\ ~Earlier(s[j], altered)
    BY <1>2, <1>4, <2>3 DEF Sortings
  <2>5. s[j] \in S /\ s[j] \in Changed /\ altered \in Changed
    BY <1>1, <2>1
  <2>6. s[j].seconds \in Int /\ altered.seconds \in Int
    BY <2>5 DEF Changed
  <2>7. s[j].seconds = altered.seconds => s[j].order < altered.order
    BY <1>8, <2>4, <2>5
  <2> QED BY <2>4, <2>6, <2>7 DEF Earlier
<1>9. (\A other \in ruleRows[r] \ {altered} : other.seconds = altered.seconds => other.order < altered.order)
         => \A j \in DOMAIN RuleLines(r) : j > i => RuleLines(r)[j].seconds > altered.seconds
  BY <1>1, <1>5, <1>8
<1>10. i \in DOMAIN RuleLines(r)
  BY <1>4, <1>5
<1>11. <<Column(RuleLines(r)[i].columns, 1), Column(RuleLines(r)[i].columns, 2),
         Column(RuleLines(r)[i].columns, 3)>> = <<altered.max, altered.min, altered.raise>>
  BY <1>6, <1>7
<1> QED BY <1>6, <1>9, <1>10, <1>11 DEF ToldInLines

-----------------------------------------------------------------------------
(* The rows. *)

QueuesTyped ==
  /\ DOMAIN queueRows \subseteq QueueKey
  /\ \A q \in DOMAIN queueRows :
       /\ queueRows[q] \in QueueRows
       /\ queueRows[q].announcement \in DOMAIN announces
       /\ queueRows[q].rule \in DOMAIN ruleRows \cup {NoValue}

MembersTyped ==
  /\ DOMAIN memberRows \subseteq 1 .. lastKey /\ lastKey \in 0 .. MaxMembers
  /\ \A m \in DOMAIN memberRows : memberRows[m] \in MemberRows /\ memberRows[m].queue \in DOMAIN queueRows

RulesTyped ==
  /\ DOMAIN ruleRows \subseteq RuleKey
  /\ \A r \in DOMAIN ruleRows : ruleRows[r] \subseteq Changed /\ IsFiniteSet(ruleRows[r])
  /\ DOMAIN announces \subseteq AnnounceKey
  /\ global \in {NoValue, "MixMonitor", "Monitor"}
  /\ accounts \subseteq Account
  /\ editions \in 0 .. MaxEditions

AddersTyped == adding \in [Adder -> {<< >>} \cup QueueKey \X Account]

CleanerTyped ==
  /\ cleaner \in [at : {"idle", "read", "listed"}, names : SUBSET Account, doomed : SUBSET (1 .. lastKey)]
  /\ stayed \in [accounts : SUBSET Account, rows : SUBSET (1 .. lastKey)]

\* The cleaner knows every account that has been there all the time, and spares it.
CleanerSees ==
  /\ cleaner.at # "listed" => cleaner.doomed = {}
  /\ stayed.accounts \subseteq cleaner.names
  /\ \A m \in cleaner.doomed \cap DOMAIN memberRows \cap stayed.rows : Orphan(memberRows[m], cleaner.names)

Unseen(q, name) == {m \in SameInterface(q, name) : ~memberRows[m].typed}
Asking(q, name) == {a \in Adder : adding[a] = <<q, name>>}

\* Of the rows that nobody typed and the requests about to add one there are never more
\* than there are requests, for queues that are gone as well.
NoMore ==
  \A q \in QueueKey, name \in Account :
    Cardinality(Unseen(q, name)) + Cardinality(Asking(q, name)) <= Cardinality(Adder)

QconfInv == QueuesTyped /\ MembersTyped /\ RulesTyped /\ AddersTyped /\ CleanerTyped /\ CleanerSees /\ NoMore

LEMMA QconfBounds == MaxMembers \in Nat /\ MaxEditions \in Nat /\ IsFiniteSet(Adder) /\ Cardinality(Adder) \in Nat
BY QueueAssumption, FS_CardinalityType

LEMMA QconfInitially == QueueInit => QconfInv
<1> SUFFICES ASSUME QueueInit PROVE QconfInv
  OBVIOUS
<1>1. PICK form \in QueueForm, k \in AnnounceKey, text \in AnnounceForm, changed \in RuleForm, r \in RuleKey :
       /\ form.announcement = k /\ form.rule = r
       /\ announces = With(<< >>, k, text) /\ ruleRows = With(<< >>, r, changed)
       /\ queueRows = With(<< >>, CHOOSE q \in QueueKey : \A p \in QueueKey : q <= p, form)
  BY DEF QueueInit
<1>2. PICK q \in QueueKey : queueRows = With(<< >>, q, form)
  BY <1>1, QueueAssumption
<1>3. /\ DOMAIN announces = {k} /\ DOMAIN ruleRows = {r} /\ ruleRows[r] = changed
      /\ DOMAIN queueRows = {q} /\ queueRows[q] = form
  BY <1>1, <1>2 DEF With
<1>4. QueuesTyped
  BY <1>1, <1>3, QueueAssumption DEF QueuesTyped
<1>5. RulesTyped
  <2>1. 0 \in 0 .. MaxEditions
    BY QconfBounds
  <2> QED BY <1>3, <2>1, QueueAssumption DEF RulesTyped, QueueInit
<1>6. MembersTyped
  <2>1. 0 \in 0 .. MaxMembers
    BY QconfBounds
  <2> QED BY <2>1 DEF MembersTyped, QueueInit
<1>7. AddersTyped /\ CleanerTyped /\ CleanerSees
  BY DEF AddersTyped, CleanerTyped, CleanerSees, QueueInit, Idle, Nobody
<1>8. NoMore
  <2> SUFFICES ASSUME NEW p \in QueueKey, NEW name \in Account
               PROVE  Cardinality(Unseen(p, name)) + Cardinality(Asking(p, name)) <= Cardinality(Adder)
    BY DEF NoMore
  <2>1. Unseen(p, name) = {} /\ Asking(p, name) = {}
    BY DEF QueueInit, Unseen, SameInterface, MembersOf, Asking
  <2>2. Cardinality({}) = 0
    BY FS_EmptySet
  <2> QED BY <2>1, <2>2, QconfBounds
<1> QED BY <1>4, <1>5, <1>6, <1>7, <1>8 DEF QconfInv

LEMMA CountsFinite ==
  ASSUME QconfInv, NEW q, NEW name
  PROVE  /\ IsFiniteSet(Unseen(q, name)) /\ Cardinality(Unseen(q, name)) \in Nat
         /\ IsFiniteSet(Asking(q, name)) /\ Cardinality(Asking(q, name)) \in Nat
<1>1. Unseen(q, name) \in SUBSET (1 .. lastKey) /\ lastKey \in Int /\ 1 \in Int
  BY QconfBounds DEF QconfInv, MembersTyped, Unseen, SameInterface, MembersOf
<1>2. IsFiniteSet(1 .. lastKey)
  BY <1>1, FS_Interval
<1>3. IsFiniteSet(Unseen(q, name))
  BY <1>1, <1>2, FS_Subset
<1>4. Asking(q, name) \in SUBSET Adder
  BY DEF Asking
<1>5. IsFiniteSet(Asking(q, name))
  BY <1>4, QconfBounds, FS_Subset
<1> QED BY <1>3, <1>5, FS_CardinalityType

\* As long as the counts do not grow, they are fine.
LEMMA NoMoreKept ==
  ASSUME QconfInv,
         \A q \in QueueKey, name \in Account :
           Unseen(q, name)' \subseteq Unseen(q, name) /\ Asking(q, name)' \subseteq Asking(q, name)
  PROVE  NoMore'
<1> SUFFICES ASSUME NEW q \in QueueKey, NEW name \in Account
             PROVE  Cardinality(Unseen(q, name)') + Cardinality(Asking(q, name)') <= Cardinality(Adder)
  BY DEF NoMore
<1> DEFINE U == Unseen(q, name)
           A == Asking(q, name)
           U1 == Unseen(q, name)'
           A1 == Asking(q, name)'
<1>1. U1 \in SUBSET U /\ A1 \in SUBSET A
  OBVIOUS
<1>2. Cardinality(U) + Cardinality(A) <= Cardinality(Adder)
  BY DEF QconfInv, NoMore
<1>3. IsFiniteSet(U) /\ Cardinality(U) \in Nat /\ IsFiniteSet(A) /\ Cardinality(A) \in Nat
  BY CountsFinite
<1> HIDE DEF U, A, U1, A1
<1>4. IsFiniteSet(U1) /\ Cardinality(U1) <= Cardinality(U) /\ IsFiniteSet(A1) /\ Cardinality(A1) <= Cardinality(A)
  BY <1>1, <1>3, FS_Subset
<1>5. Cardinality(U1) \in Nat /\ Cardinality(A1) \in Nat
  BY <1>4, FS_CardinalityType
<1>6. Cardinality(U1) + Cardinality(A1) <= Cardinality(Adder)
  BY <1>2, <1>3, <1>4, <1>5, QconfBounds
<1> QED BY <1>6 DEF U1, A1

\* Nobody adds a member; some may go.
LEMMA MembersGo ==
  ASSUME QconfInv, UNCHANGED <<adding, lastKey>>, QueuesTyped', RulesTyped',
         \A m \in DOMAIN memberRows' : /\ m \in DOMAIN memberRows /\ memberRows'[m] = memberRows[m]
                                       /\ memberRows[m].queue \in DOMAIN queueRows',
         CleanerTyped', CleanerSees'
  PROVE  QconfInv'
<1>1. MembersTyped'
  BY DEF QconfInv, MembersTyped
<1>2. AddersTyped'
  BY DEF QconfInv, AddersTyped
<1>3. NoMore'
  <2>1. ASSUME NEW q \in QueueKey, NEW name \in Account
        PROVE  Unseen(q, name)' \subseteq Unseen(q, name) /\ Asking(q, name)' \subseteq Asking(q, name)
    BY DEF Unseen, SameInterface, MembersOf, Asking
  <2> QED BY <2>1, NoMoreKept
<1> QED BY <1>1, <1>2, <1>3 DEF QconfInv

\* The cleaner stays, and of what it saw no more has stayed.
LEMMA CleanerStays ==
  ASSUME QconfInv, UNCHANGED <<cleaner, lastKey>>,
         \/ UNCHANGED stayed
         \/ \E name : stayed' = [stayed EXCEPT !.accounts = @ \ {name}]
         \/ \E m : stayed' = [stayed EXCEPT !.rows = @ \ {m}],
         \A m \in DOMAIN memberRows' : m \in stayed'.rows /\ m \in cleaner.doomed =>
                                         m \in DOMAIN memberRows /\ memberRows'[m] = memberRows[m]
  PROVE  CleanerTyped' /\ CleanerSees'
<1>1. CleanerTyped /\ CleanerSees
  BY DEF QconfInv
<1>2. stayed' \in [accounts : SUBSET Account, rows : SUBSET (1 .. lastKey)]
      /\ stayed'.accounts \subseteq stayed.accounts /\ stayed'.rows \subseteq stayed.rows
  BY <1>1 DEF CleanerTyped
<1>3. CleanerTyped'
  BY <1>1, <1>2 DEF CleanerTyped
<1>4. CleanerSees'
  <2>1. ASSUME NEW m \in cleaner.doomed, m \in DOMAIN memberRows', m \in stayed'.rows
        PROVE  Orphan(memberRows'[m], cleaner.names)
    BY <1>1, <1>2, <2>1 DEF CleanerSees
  <2> QED BY <1>1, <1>2, <2>1 DEF CleanerSees
<1> QED BY <1>3, <1>4

LEMMA EditingCounts ==
  ASSUME QconfInv, Editing
  PROVE  editions' \in 0 .. MaxEditions
<1>1. editions \in 0 .. MaxEditions
  BY DEF QconfInv, RulesTyped
<1> QED BY <1>1, QconfBounds DEF Editing

LEMMA SaveQueueStep ==
  ASSUME QconfInv, NEW q \in QueueKey, NEW form \in QueueForm, NEW api \in BOOLEAN, SaveQueue(q, form, api)
  PROVE  QconfInv'
<1>1. /\ queueRows' = With(queueRows, q, form)
      /\ form.announcement \in DOMAIN announces /\ form.rule \in DOMAIN ruleRows \cup {NoValue}
      /\ UNCHANGED <<memberRows, ruleRows, announces, global, accounts, adding, cleaner, lastKey, stayed>>
  BY DEF SaveQueue
<1>2. QueuesTyped'
  BY <1>1, QueueAssumption DEF QconfInv, QueuesTyped, With
<1>3. RulesTyped'
  BY <1>1, EditingCounts DEF QconfInv, RulesTyped, SaveQueue
<1>4. CleanerTyped' /\ CleanerSees'
  BY <1>1, CleanerStays
<1>5. DOMAIN queueRows \subseteq DOMAIN queueRows'
  BY <1>1 DEF With
<1>6. \A m \in DOMAIN memberRows : memberRows[m].queue \in DOMAIN queueRows
  BY DEF QconfInv, MembersTyped
<1> QED BY <1>1, <1>2, <1>3, <1>4, <1>5, <1>6, MembersGo

\* The queues go, and their members with them.
LEMMA CascadeTakes ==
  ASSUME QconfInv, NEW gone \in SUBSET DOMAIN queueRows, Cascade(gone)
  PROVE  /\ DOMAIN queueRows' = DOMAIN queueRows \ gone /\ \A q \in DOMAIN queueRows' : queueRows'[q] = queueRows[q]
         /\ \A m \in DOMAIN memberRows' : /\ m \in DOMAIN memberRows /\ memberRows'[m] = memberRows[m]
                                          /\ memberRows[m].queue \in DOMAIN queueRows'
<1>1. queueRows' = Restrict(queueRows, DOMAIN queueRows \ gone)
  BY DEF Cascade
<1>2. DOMAIN queueRows' = DOMAIN queueRows \ gone /\ \A q \in DOMAIN queueRows' : queueRows'[q] = queueRows[q]
  BY <1>1 DEF Restrict
<1> DEFINE T == UNION {MembersOf(q) : q \in gone}
<1>3. memberRows' = Restrict(memberRows, DOMAIN memberRows \ T)
  BY DEF Cascade
<1>4. \A m \in DOMAIN memberRows : memberRows[m].queue \in gone => m \in T
  BY DEF MembersOf
<1> HIDE DEF T
<1>5. \A m \in DOMAIN memberRows' : m \in DOMAIN memberRows /\ memberRows'[m] = memberRows[m] /\ m \notin T
  BY <1>3 DEF Restrict
<1>6. \A m \in DOMAIN memberRows : memberRows[m].queue \in DOMAIN queueRows
  BY DEF QconfInv, MembersTyped
<1> QED BY <1>2, <1>4, <1>5, <1>6

LEMMA DeleteQueueStep ==
  ASSUME QconfInv, NEW q \in QueueKey, DeleteQueue(q)
  PROVE  QconfInv'
<1>1. /\ Cascade({q}) /\ {q} \in SUBSET DOMAIN queueRows
      /\ UNCHANGED <<ruleRows, announces, global, accounts, adding, cleaner, lastKey, stayed>>
  BY DEF DeleteQueue
<1>2. /\ DOMAIN queueRows' = DOMAIN queueRows \ {q} /\ \A p \in DOMAIN queueRows' : queueRows'[p] = queueRows[p]
      /\ \A m \in DOMAIN memberRows' : /\ m \in DOMAIN memberRows /\ memberRows'[m] = memberRows[m]
                                       /\ memberRows[m].queue \in DOMAIN queueRows'
  BY <1>1, CascadeTakes
<1>3. QueuesTyped'
  BY <1>1, <1>2 DEF QconfInv, QueuesTyped
<1>4. RulesTyped'
  BY <1>1, EditingCounts DEF QconfInv, RulesTyped, DeleteQueue
<1>5. CleanerTyped' /\ CleanerSees'
  BY <1>1, <1>2, CleanerStays
<1> QED BY <1>1, <1>2, <1>3, <1>4, <1>5, MembersGo

LEMMA DeleteAnnouncementStep ==
  ASSUME QconfInv, NEW k \in AnnounceKey, DeleteAnnouncement(k)
  PROVE  QconfInv'
<1> DEFINE gone == {q \in DOMAIN queueRows : queueRows[q].announcement = k}
<1>1. /\ Cascade(gone) /\ gone \in SUBSET DOMAIN queueRows /\ announces' = Without(announces, k)
      /\ UNCHANGED <<ruleRows, global, accounts, adding, cleaner, lastKey, stayed>>
  BY DEF DeleteAnnouncement
<1>2. /\ DOMAIN queueRows' = DOMAIN queueRows \ gone /\ \A p \in DOMAIN queueRows' : queueRows'[p] = queueRows[p]
      /\ \A m \in DOMAIN memberRows' : /\ m \in DOMAIN memberRows /\ memberRows'[m] = memberRows[m]
                                       /\ memberRows[m].queue \in DOMAIN queueRows'
  BY <1>1, CascadeTakes
<1>3. DOMAIN announces' = DOMAIN announces \ {k}
  BY <1>1 DEF Without, Restrict
<1>4. QueuesTyped'
  BY <1>1, <1>2, <1>3 DEF QconfInv, QueuesTyped
<1>5. RulesTyped'
  BY <1>1, <1>3, EditingCounts DEF QconfInv, RulesTyped, DeleteAnnouncement
<1>6. CleanerTyped' /\ CleanerSees'
  BY <1>1, <1>2, CleanerStays
<1> QED BY <1>1, <1>2, <1>4, <1>5, <1>6, MembersGo

LEMMA SaveRuleStep ==
  ASSUME QconfInv, NEW r \in RuleKey, NEW form \in RuleForm, SaveRule(r, form)
  PROVE  QconfInv'
<1>1. /\ ruleRows' = With(ruleRows, r, form)
      /\ UNCHANGED <<queueRows, memberRows, announces, global, accounts, adding, cleaner, lastKey, stayed>>
  BY DEF SaveRule
<1>2. DOMAIN ruleRows' = DOMAIN ruleRows \cup {r}
      /\ \A s \in DOMAIN ruleRows' : ruleRows'[s] = form \/ (s \in DOMAIN ruleRows /\ ruleRows'[s] = ruleRows[s])
  BY <1>1 DEF With
<1>3. QueuesTyped'
  BY <1>1, <1>2 DEF QconfInv, QueuesTyped
<1>4. RulesTyped'
  <2>1. form \subseteq Changed /\ IsFiniteSet(form)
    BY QueueAssumption
  <2> QED BY <1>1, <1>2, <2>1, EditingCounts DEF QconfInv, RulesTyped, SaveRule
<1>5. CleanerTyped' /\ CleanerSees'
  BY <1>1, CleanerStays
<1>6. \A m \in DOMAIN memberRows : memberRows[m].queue \in DOMAIN queueRows
  BY DEF QconfInv, MembersTyped
<1> QED BY <1>1, <1>3, <1>4, <1>5, <1>6, MembersGo

LEMMA DeleteRuleStep ==
  ASSUME QconfInv, NEW r \in RuleKey, DeleteRule(r)
  PROVE  QconfInv'
<1>1. /\ ruleRows' = Without(ruleRows, r)
      /\ queueRows' = [q \in DOMAIN queueRows |-> Unruled(queueRows[q], r)]
      /\ UNCHANGED <<memberRows, announces, global, accounts, adding, cleaner, lastKey, stayed>>
  BY DEF DeleteRule
<1>2. DOMAIN ruleRows' = DOMAIN ruleRows \ {r} /\ \A s \in DOMAIN ruleRows' : ruleRows'[s] = ruleRows[s]
  BY <1>1 DEF Without, Restrict
<1>3. QueuesTyped'
  <2>1. ASSUME NEW q \in DOMAIN queueRows
        PROVE  /\ queueRows'[q] \in QueueRows
               /\ queueRows'[q].announcement \in DOMAIN announces
               /\ queueRows'[q].rule \in DOMAIN ruleRows' \cup {NoValue}
    <3>1. /\ queueRows[q] \in QueueRows
          /\ queueRows[q].announcement \in DOMAIN announces
          /\ queueRows[q].rule \in DOMAIN ruleRows \cup {NoValue}
      BY DEF QconfInv, QueuesTyped
    <3>2. PICK row : row = queueRows[q] /\ queueRows'[q] = Unruled(row, r)
      BY <1>1
    <3>3. CASE row.rule = r
      <4>1. queueRows'[q] = [row EXCEPT !.rule = NoValue]
        BY <3>2, <3>3 DEF Unruled
      <4> QED BY <3>1, <3>2, <4>1 DEF QueueRows
    <3>4. CASE row.rule # r
      BY <1>2, <3>1, <3>2, <3>4 DEF Unruled
    <3> QED BY <3>3, <3>4
  <2>2. DOMAIN queueRows' = DOMAIN queueRows
    BY <1>1
  <2> QED BY <1>1, <2>1, <2>2 DEF QconfInv, QueuesTyped
<1>4. RulesTyped'
  BY <1>1, <1>2, EditingCounts DEF QconfInv, RulesTyped, DeleteRule
<1>5. CleanerTyped' /\ CleanerSees'
  BY <1>1, CleanerStays
<1>6. \A m \in DOMAIN memberRows : memberRows[m].queue \in DOMAIN queueRows'
  BY <1>1 DEF QconfInv, MembersTyped
<1> QED BY <1>1, <1>3, <1>4, <1>5, <1>6, MembersGo

LEMMA SaveAnnouncementStep ==
  ASSUME QconfInv, NEW k \in AnnounceKey, NEW text \in AnnounceForm, SaveAnnouncement(k, text)
  PROVE  QconfInv'
<1>1. /\ announces' = With(announces, k, text)
      /\ UNCHANGED <<queueRows, memberRows, ruleRows, global, accounts, adding, cleaner, lastKey, stayed>>
  BY DEF SaveAnnouncement
<1>2. DOMAIN announces' = DOMAIN announces \cup {k}
  BY <1>1 DEF With
<1>3. QueuesTyped'
  BY <1>1, <1>2 DEF QconfInv, QueuesTyped
<1>4. RulesTyped'
  BY <1>1, <1>2, EditingCounts DEF QconfInv, RulesTyped, SaveAnnouncement
<1>5. CleanerTyped' /\ CleanerSees'
  BY <1>1, CleanerStays
<1>6. \A m \in DOMAIN memberRows : memberRows[m].queue \in DOMAIN queueRows
  BY DEF QconfInv, MembersTyped
<1> QED BY <1>1, <1>3, <1>4, <1>5, <1>6, MembersGo

LEMMA SaveGlobalStep ==
  ASSUME QconfInv, NEW type \in {"MixMonitor", "Monitor"}, SaveGlobal(type)
  PROVE  QconfInv'
<1>1. /\ global' = type
      /\ UNCHANGED <<queueRows, memberRows, ruleRows, announces, accounts, adding, cleaner, lastKey, stayed>>
  BY DEF SaveGlobal
<1>2. QueuesTyped'
  BY <1>1 DEF QconfInv, QueuesTyped
<1>3. RulesTyped'
  BY <1>1, EditingCounts DEF QconfInv, RulesTyped, SaveGlobal
<1>4. CleanerTyped' /\ CleanerSees'
  BY <1>1, CleanerStays
<1>5. \A m \in DOMAIN memberRows : memberRows[m].queue \in DOMAIN queueRows
  BY DEF QconfInv, MembersTyped
<1> QED BY <1>1, <1>2, <1>3, <1>4, <1>5, MembersGo

LEMMA AddAccountStep ==
  ASSUME QconfInv, NEW name \in Account, AddAccount(name)
  PROVE  QconfInv'
<1>1. /\ accounts' = accounts \cup {name}
      /\ UNCHANGED <<queueRows, memberRows, ruleRows, announces, global, adding, cleaner, lastKey, stayed>>
  BY DEF AddAccount
<1>2. QueuesTyped'
  BY <1>1 DEF QconfInv, QueuesTyped
<1>3. RulesTyped'
  BY <1>1, EditingCounts DEF QconfInv, RulesTyped, AddAccount
<1>4. CleanerTyped' /\ CleanerSees'
  BY <1>1, CleanerStays
<1>5. \A m \in DOMAIN memberRows : memberRows[m].queue \in DOMAIN queueRows
  BY DEF QconfInv, MembersTyped
<1> QED BY <1>1, <1>2, <1>3, <1>4, <1>5, MembersGo

LEMMA DeleteAccountStep ==
  ASSUME QconfInv, NEW name \in Account, DeleteAccount(name)
  PROVE  QconfInv'
<1>1. /\ accounts' = accounts \ {name}
      /\ memberRows' = Restrict(memberRows, {m \in DOMAIN memberRows : memberRows[m].interface # name})
      /\ stayed' = [stayed EXCEPT !.accounts = @ \ {name}]
      /\ UNCHANGED <<queueRows, ruleRows, announces, global, adding, cleaner, lastKey>>
  BY DEF DeleteAccount
<1>2. QueuesTyped'
  BY <1>1 DEF QconfInv, QueuesTyped
<1>3. RulesTyped'
  BY <1>1, EditingCounts DEF QconfInv, RulesTyped, DeleteAccount
<1>4. \A m \in DOMAIN memberRows' : m \in DOMAIN memberRows /\ memberRows'[m] = memberRows[m]
  BY <1>1 DEF Restrict
<1>5. CleanerTyped' /\ CleanerSees'
  BY <1>1, <1>4, CleanerStays
<1>6. \A m \in DOMAIN memberRows : memberRows[m].queue \in DOMAIN queueRows
  BY DEF QconfInv, MembersTyped
<1> QED BY <1>1, <1>2, <1>3, <1>4, <1>5, <1>6, MembersGo

LEMMA DeleteRowStep ==
  ASSUME QconfInv, NEW k \in DOMAIN memberRows, DeleteRow(k)
  PROVE  QconfInv'
<1>1. /\ memberRows' = Without(memberRows, k)
      /\ UNCHANGED <<queueRows, ruleRows, announces, global, accounts, adding, cleaner, lastKey, stayed>>
  BY DEF DeleteRow
<1>2. QueuesTyped'
  BY <1>1 DEF QconfInv, QueuesTyped
<1>3. RulesTyped'
  BY <1>1, EditingCounts DEF QconfInv, RulesTyped, DeleteRow
<1>4. \A m \in DOMAIN memberRows' : m \in DOMAIN memberRows /\ memberRows'[m] = memberRows[m]
  BY <1>1 DEF Without, Restrict
<1>5. CleanerTyped' /\ CleanerSees'
  BY <1>1, <1>4, CleanerStays
<1>6. \A m \in DOMAIN memberRows : memberRows[m].queue \in DOMAIN queueRows
  BY DEF QconfInv, MembersTyped
<1> QED BY <1>1, <1>2, <1>3, <1>4, <1>5, <1>6, MembersGo

-----------------------------------------------------------------------------
(* The cleanup. *)

LEMMA CleanupReadsStep ==
  ASSUME QconfInv, CleanupReads
  PROVE  QconfInv'
<1>1. /\ cleaner' = [at |-> "read", names |-> accounts, doomed |-> {}]
      /\ stayed' = [accounts |-> accounts, rows |-> {}]
      /\ UNCHANGED <<queueRows, memberRows, ruleRows, announces, global, accounts, adding, lastKey, editions>>
  BY DEF CleanupReads, Idle
<1>2. QueuesTyped' /\ RulesTyped'
  BY <1>1 DEF QconfInv, QueuesTyped, RulesTyped
<1>3. CleanerTyped' /\ CleanerSees'
  BY <1>1 DEF QconfInv, CleanerTyped, CleanerSees, RulesTyped
<1>4. \A m \in DOMAIN memberRows : memberRows[m].queue \in DOMAIN queueRows
  BY DEF QconfInv, MembersTyped
<1> QED BY <1>1, <1>2, <1>3, <1>4, MembersGo

LEMMA CleanupListsStep ==
  ASSUME QconfInv, CleanupLists
  PROVE  QconfInv'
<1> DEFINE orphans == {m \in DOMAIN memberRows : Orphan(memberRows[m], cleaner.names)}
<1>1. /\ cleaner' = [cleaner EXCEPT !.at = "listed", !.doomed = orphans]
      /\ stayed' = [stayed EXCEPT !.rows = DOMAIN memberRows]
      /\ UNCHANGED <<queueRows, memberRows, ruleRows, announces, global, accounts, adding, lastKey, editions>>
  BY DEF CleanupLists
<1>2. QueuesTyped' /\ RulesTyped'
  BY <1>1 DEF QconfInv, QueuesTyped, RulesTyped
<1>3. CleanerTyped /\ CleanerSees /\ DOMAIN memberRows \subseteq 1 .. lastKey /\ orphans \subseteq 1 .. lastKey
  BY DEF QconfInv, MembersTyped
<1>4. \A m \in orphans : Orphan(memberRows[m], cleaner.names)
  OBVIOUS
<1> HIDE DEF orphans
<1>5. /\ cleaner'.at = "listed" /\ cleaner'.names = cleaner.names /\ cleaner'.doomed = orphans
      /\ stayed'.accounts = stayed.accounts
  BY <1>1, <1>3 DEF CleanerTyped
<1>6. CleanerTyped'
  BY <1>1, <1>3 DEF CleanerTyped
<1>7. CleanerSees'
  BY <1>1, <1>3, <1>4, <1>5 DEF CleanerSees
<1>8. \A m \in DOMAIN memberRows : memberRows[m].queue \in DOMAIN queueRows
  BY DEF QconfInv, MembersTyped
<1> QED BY <1>1, <1>2, <1>6, <1>7, <1>8, MembersGo

LEMMA CleanupDeletesStep ==
  ASSUME QconfInv, CleanupDeletes
  PROVE  QconfInv'
<1>1. /\ memberRows' = Restrict(memberRows, DOMAIN memberRows \ cleaner.doomed)
      /\ cleaner' = [at |-> "idle", names |-> {}, doomed |-> {}] /\ stayed' = [accounts |-> {}, rows |-> {}]
      /\ UNCHANGED <<queueRows, ruleRows, announces, global, accounts, adding, lastKey, editions>>
  BY DEF CleanupDeletes, Idle, Nobody
<1>2. QueuesTyped' /\ RulesTyped'
  BY <1>1 DEF QconfInv, QueuesTyped, RulesTyped
<1>3. CleanerTyped' /\ CleanerSees'
  BY <1>1 DEF CleanerTyped, CleanerSees
<1>4. \A m \in DOMAIN memberRows' : m \in DOMAIN memberRows /\ memberRows'[m] = memberRows[m]
  BY <1>1 DEF Restrict
<1>5. \A m \in DOMAIN memberRows : memberRows[m].queue \in DOMAIN queueRows
  BY DEF QconfInv, MembersTyped
<1> QED BY <1>1, <1>2, <1>3, <1>4, <1>5, MembersGo

-----------------------------------------------------------------------------
(* The members. *)

LEMMA LookStep ==
  ASSUME QconfInv, NEW a \in Adder, NEW q \in QueueKey, NEW name \in Account, NEW api \in BOOLEAN, Look(a, q, name, api)
  PROVE  QconfInv'
<1>1. /\ adding[a] = << >> /\ SameInterface(q, name) = {}
      /\ adding' = [adding EXCEPT ![a] = <<q, name>>]
      /\ UNCHANGED <<queueRows, memberRows, ruleRows, announces, global, accounts, cleaner, lastKey, editions, stayed>>
  BY DEF Look, Missing
<1>2. QueuesTyped' /\ RulesTyped' /\ MembersTyped' /\ CleanerTyped' /\ CleanerSees'
  BY <1>1 DEF QconfInv, QueuesTyped, RulesTyped, MembersTyped, CleanerTyped, CleanerSees
<1>3. AddersTyped'
  BY <1>1 DEF QconfInv, AddersTyped
<1>4. NoMore'
  <2> SUFFICES ASSUME NEW p \in QueueKey, NEW n \in Account
               PROVE  Cardinality(Unseen(p, n)') + Cardinality(Asking(p, n)') <= Cardinality(Adder)
    BY DEF NoMore
  <2>0. Unseen(p, n)' = Unseen(p, n)
    BY <1>1 DEF Unseen, SameInterface, MembersOf
  <2>1. CASE p = q /\ n = name
    <3>1. Unseen(p, n) = {}
      BY <1>1, <2>1 DEF Unseen
    <3>2. Asking(p, n)' \in SUBSET Adder
      BY DEF Asking
    <3> DEFINE A == Asking(p, n)'
    <3>3. A \in SUBSET Adder
      BY <3>2
    <3> HIDE DEF A
    <3>4. IsFiniteSet(A) /\ Cardinality(A) <= Cardinality(Adder)
      BY <3>3, QconfBounds, FS_Subset
    <3>5. Cardinality(A) \in Nat /\ Cardinality({}) = 0
      BY <3>4, FS_CardinalityType, FS_EmptySet
    <3> QED BY <2>0, <3>1, <3>4, <3>5, QconfBounds DEF A
  <2>2. CASE ~(p = q /\ n = name)
    <3>1. <<p, n>> # <<q, name>>
      BY <2>2
    <3>2. Asking(p, n)' = Asking(p, n)
      BY <1>1, <3>1 DEF Asking, QconfInv, AddersTyped
    <3> QED BY <2>0, <3>2 DEF QconfInv, NoMore
  <2> QED BY <2>1, <2>2
<1> QED BY <1>2, <1>3, <1>4 DEF QconfInv

\* A row is inserted under a key that no row has had.
LEMMA MemberInserts ==
  ASSUME QconfInv, NEW row \in MemberRows, row.queue \in DOMAIN queueRows, Inserted(row),
         UNCHANGED <<queueRows, cleaner, stayed>>, NEW k, k = lastKey + 1
  PROVE  /\ MembersTyped' /\ CleanerTyped' /\ CleanerSees'
         /\ k \notin DOMAIN memberRows /\ DOMAIN memberRows' = DOMAIN memberRows \cup {k} /\ memberRows'[k] = row
         /\ \A m \in DOMAIN memberRows : memberRows'[m] = memberRows[m]
<1>1. lastKey' = k /\ lastKey < MaxMembers /\ memberRows' = With(memberRows, k, row)
  BY DEF Inserted
<1>2. lastKey \in 0 .. MaxMembers /\ DOMAIN memberRows \subseteq 1 .. lastKey
  BY DEF QconfInv, MembersTyped
<1>3. k \notin 1 .. lastKey /\ k \in 1 .. k /\ k \in 0 .. MaxMembers /\ 1 .. lastKey \subseteq 1 .. k
  BY <1>1, <1>2, QconfBounds
<1>4. /\ k \notin DOMAIN memberRows /\ DOMAIN memberRows' = DOMAIN memberRows \cup {k} /\ memberRows'[k] = row
      /\ \A m \in DOMAIN memberRows : memberRows'[m] = memberRows[m]
  BY <1>1, <1>2, <1>3 DEF With
<1>5. MembersTyped'
  BY <1>1, <1>2, <1>3, <1>4 DEF QconfInv, MembersTyped
<1>6. CleanerTyped'
  <2>1. CleanerTyped
    BY DEF QconfInv
  <2> QED BY <1>1, <1>3, <2>1 DEF CleanerTyped
<1>7. CleanerSees'
  <2>1. CleanerSees /\ cleaner.doomed \subseteq 1 .. lastKey
    BY DEF QconfInv, CleanerTyped
  <2> QED BY <1>3, <1>4, <2>1 DEF CleanerSees
<1> QED BY <1>4, <1>5, <1>6, <1>7

LEMMA InsertMemberStep ==
  ASSUME QconfInv, NEW a \in Adder, InsertMember(a)
  PROVE  QconfInv'
<1>1. adding[a] # << >> /\ adding' = [adding EXCEPT ![a] = << >>]
      /\ UNCHANGED <<queueRows, ruleRows, announces, global, accounts, cleaner, editions, stayed>>
  BY DEF InsertMember
<1>2. PICK q \in QueueKey, name \in Account : adding[a] = <<q, name>>
  BY <1>1 DEF QconfInv, AddersTyped
<1>3. QueuesTyped' /\ RulesTyped' /\ AddersTyped'
  BY <1>1 DEF QconfInv, QueuesTyped, RulesTyped, AddersTyped
<1>4. \A p, n : Asking(p, n)' = Asking(p, n) \ {a}
  BY <1>1 DEF Asking, QconfInv, AddersTyped
<1>5. a \in Asking(q, name)
  BY <1>2 DEF Asking
<1>6. CASE ~(q \in DOMAIN queueRows /\ lastKey < MaxMembers)
  <2>1. UNCHANGED <<memberRows, lastKey>>
    BY <1>2, <1>6 DEF InsertMember
  <2>2. MembersTyped' /\ CleanerTyped' /\ CleanerSees'
    BY <1>1, <2>1 DEF QconfInv, MembersTyped, CleanerTyped, CleanerSees
  <2>3. ASSUME NEW p \in QueueKey, NEW n \in Account
        PROVE  Unseen(p, n)' \subseteq Unseen(p, n) /\ Asking(p, n)' \subseteq Asking(p, n)
    BY <1>4, <2>1 DEF Unseen, SameInterface, MembersOf
  <2>4. NoMore'
    BY <2>3, NoMoreKept
  <2> QED BY <1>3, <2>2, <2>4 DEF QconfInv
<1>7. CASE q \in DOMAIN queueRows /\ lastKey < MaxMembers
  <2>1. PICK row, k : /\ row = [queue |-> q, interface |-> name, name |-> {<<name>>}, state |-> name, typed |-> FALSE]
                      /\ k = lastKey + 1
    OBVIOUS
  <2>2. Inserted(row)
    BY <1>2, <1>7, <2>1 DEF InsertMember
  <2>3. row \in MemberRows /\ row.queue = q /\ row.interface = name /\ ~row.typed
    <3>1. row.typed = FALSE
      BY <2>1
    <3> QED BY <2>1, <3>1 DEF MemberRows, Interface
  <2>4. /\ MembersTyped' /\ CleanerTyped' /\ CleanerSees'
        /\ k \notin DOMAIN memberRows /\ DOMAIN memberRows' = DOMAIN memberRows \cup {k} /\ memberRows'[k] = row
        /\ \A m \in DOMAIN memberRows : memberRows'[m] = memberRows[m]
    BY <1>1, <1>7, <2>1, <2>2, <2>3, MemberInserts
  <2>5. NoMore'
    <3> SUFFICES ASSUME NEW p \in QueueKey, NEW n \in Account
                 PROVE  Cardinality(Unseen(p, n)') + Cardinality(Asking(p, n)') <= Cardinality(Adder)
      BY DEF NoMore
    <3> DEFINE U == Unseen(p, n)
               A == Asking(p, n)
    <3>1. IsFiniteSet(U) /\ Cardinality(U) \in Nat /\ IsFiniteSet(A) /\ Cardinality(A) \in Nat
      BY CountsFinite
    <3>2. Cardinality(U) + Cardinality(A) <= Cardinality(Adder)
      BY DEF QconfInv, NoMore
    <3>3. Unseen(p, n)' = U \cup (IF p = q /\ n = name THEN {k} ELSE {}) /\ k \notin U
      <4>1. \A m \in DOMAIN memberRows' : (m = k /\ memberRows'[m] = row) \/ (m # k /\ m \in DOMAIN memberRows /\ memberRows'[m] = memberRows[m])
        BY <2>4
      <4> QED BY <2>3, <2>4, <4>1 DEF Unseen, SameInterface, MembersOf
    <3>4. Asking(p, n)' = A \ {a} /\ (p = q /\ n = name => a \in A)
      BY <1>4, <1>5
    <3> HIDE DEF U, A
    <3>5. CASE p = q /\ n = name
      <4>1. Unseen(p, n)' = U \cup {k} /\ Asking(p, n)' = A \ {a}
        BY <3>3, <3>4, <3>5
      <4>2. Cardinality(U \cup {k}) = Cardinality(U) + 1
        BY <3>1, <3>3, FS_AddElement
      <4>3. Cardinality(A \ {a}) = Cardinality(A) - 1
        BY <3>1, <3>4, <3>5, FS_RemoveElement
      <4> QED BY <3>1, <3>2, <4>1, <4>2, <4>3, QconfBounds
    <3>6. CASE ~(p = q /\ n = name)
      <4>1. Unseen(p, n)' = U /\ Asking(p, n)' = A \ {a}
        BY <3>3, <3>4, <3>6
      <4>2. Cardinality(A \ {a}) = IF a \in A THEN Cardinality(A) - 1 ELSE Cardinality(A)
        BY <3>1, FS_RemoveElement
      <4> QED BY <3>1, <3>2, <4>1, <4>2, QconfBounds
    <3> QED BY <3>5, <3>6
  <2> QED BY <1>3, <2>4, <2>5 DEF QconfInv
<1> QED BY <1>6, <1>7

LEMMA TypeRowStep ==
  ASSUME QconfInv, NEW row \in MemberForm, TypeRow(row)
  PROVE  QconfInv'
<1>1. /\ row.queue \in DOMAIN queueRows /\ Inserted(row)
      /\ UNCHANGED <<queueRows, ruleRows, announces, global, accounts, adding, cleaner, stayed>>
  BY DEF TypeRow
<1>2. row \in MemberRows /\ row.typed
  BY QueueAssumption
<1>3. PICK k : k = lastKey + 1
  OBVIOUS
<1>4. /\ MembersTyped' /\ CleanerTyped' /\ CleanerSees'
      /\ k \notin DOMAIN memberRows /\ DOMAIN memberRows' = DOMAIN memberRows \cup {k} /\ memberRows'[k] = row
      /\ \A m \in DOMAIN memberRows : memberRows'[m] = memberRows[m]
  BY <1>1, <1>2, <1>3, MemberInserts
<1>5. QueuesTyped' /\ AddersTyped'
  BY <1>1 DEF QconfInv, QueuesTyped, AddersTyped
<1>6. RulesTyped'
  BY <1>1, EditingCounts DEF QconfInv, RulesTyped, TypeRow
<1>7. NoMore'
  <2>1. ASSUME NEW p \in QueueKey, NEW n \in Account
        PROVE  Unseen(p, n)' \subseteq Unseen(p, n) /\ Asking(p, n)' \subseteq Asking(p, n)
    BY <1>1, <1>2, <1>4 DEF Unseen, SameInterface, MembersOf, Asking
  <2> QED BY <2>1, NoMoreKept
<1> QED BY <1>4, <1>5, <1>6, <1>7 DEF QconfInv

LEMMA ChangeRowStep ==
  ASSUME QconfInv, NEW row \in MemberForm, NEW k \in DOMAIN memberRows, ChangeRow(k, row)
  PROVE  QconfInv'
<1>1. /\ row.queue \in DOMAIN queueRows
      /\ memberRows' = [memberRows EXCEPT ![k] = row]
      /\ stayed' = [stayed EXCEPT !.rows = @ \ {k}]
      /\ UNCHANGED <<queueRows, ruleRows, announces, global, accounts, adding, cleaner, lastKey>>
  BY DEF ChangeRow
<1>2. row \in MemberRows /\ row.typed
  BY QueueAssumption
<1>3. /\ DOMAIN memberRows' = DOMAIN memberRows /\ memberRows'[k] = row
      /\ \A m \in DOMAIN memberRows : m # k => memberRows'[m] = memberRows[m]
  BY <1>1
<1>4. MembersTyped'
  BY <1>1, <1>2, <1>3 DEF QconfInv, MembersTyped
<1>5. CleanerTyped' /\ CleanerSees'
  <2>1. stayed'.rows = stayed.rows \ {k}
    BY <1>1 DEF QconfInv, CleanerTyped
  <2>2. \A m \in DOMAIN memberRows' : m \in stayed'.rows /\ m \in cleaner.doomed =>
                                         m \in DOMAIN memberRows /\ memberRows'[m] = memberRows[m]
    BY <1>3, <2>1
  <2> QED BY <1>1, <2>2, CleanerStays
<1>6. QueuesTyped' /\ AddersTyped'
  BY <1>1 DEF QconfInv, QueuesTyped, AddersTyped
<1>7. RulesTyped'
  BY <1>1, EditingCounts DEF QconfInv, RulesTyped, ChangeRow
<1>8. NoMore'
  <2>1. ASSUME NEW p \in QueueKey, NEW n \in Account
        PROVE  Unseen(p, n)' \subseteq Unseen(p, n) /\ Asking(p, n)' \subseteq Asking(p, n)
    BY <1>1, <1>2, <1>3 DEF Unseen, SameInterface, MembersOf, Asking
  <2> QED BY <2>1, NoMoreKept
<1> QED BY <1>4, <1>5, <1>6, <1>7, <1>8 DEF QconfInv

LEMMA QconfStep == QconfInv /\ [QueueNext]_queueVars => QconfInv'
<1> SUFFICES ASSUME QconfInv, [QueueNext]_queueVars PROVE QconfInv'
  OBVIOUS
<1>1. CASE UNCHANGED queueVars
  <2>1. UNCHANGED <<queueRows, memberRows, ruleRows, announces, global, accounts, adding, cleaner, lastKey, editions, stayed>>
    BY <1>1 DEF queueVars
  <2>2. QueuesTyped' /\ MembersTyped' /\ RulesTyped' /\ AddersTyped' /\ CleanerTyped' /\ CleanerSees'
    BY <2>1 DEF QconfInv, QueuesTyped, MembersTyped, RulesTyped, AddersTyped, CleanerTyped, CleanerSees
  <2>3. NoMore'
    BY <2>1 DEF QconfInv, NoMore, Unseen, SameInterface, MembersOf, Asking
  <2> QED BY <2>2, <2>3 DEF QconfInv
<1>2. CASE QueueNext
  BY <1>2, SaveQueueStep, DeleteQueueStep, DeleteRuleStep, SaveRuleStep, DeleteAnnouncementStep, SaveAnnouncementStep,
     SaveGlobalStep, InsertMemberStep, LookStep, TypeRowStep, ChangeRowStep, DeleteRowStep, AddAccountStep,
     DeleteAccountStep, CleanupReadsStep, CleanupListsStep, CleanupDeletesStep DEF QueueNext
<1> QED BY <1>1, <1>2

LEMMA QconfMeans ==
  QconfInv => OptionsRead /\ MembersRead /\ RulesRead /\ FewTwins /\ CleanupSpares /\ QueueTypeOK
<1> SUFFICES ASSUME QconfInv PROVE OptionsRead /\ MembersRead /\ RulesRead /\ FewTwins /\ CleanupSpares /\ QueueTypeOK
  OBVIOUS
<1>1. OptionsRead
  <2> SUFFICES ASSUME NEW q \in DOMAIN queueRows, NEW row, row = queueRows[q],
                      NEW key \in DOMAIN Meant(row) \ (IF row.timeout = "0" THEN {"timeout"} ELSE {})
               PROVE  OptionRead(QueueSections[q].options, key) = Meant(row)[key]
    BY DEF OptionsRead
  <2>1. row \in QueueRows
    BY DEF QconfInv, QueuesTyped
  <2>2. QueueSections[q].options = QueueOptions(row)
    BY DEF QueueSections
  <2> QED BY <2>1, <2>2, QueueRead
<1>2. MembersRead
  <2> SUFFICES ASSUME NEW q \in DOMAIN queueRows, NEW m \in MembersOf(q), NEW row, row = memberRows[m],
                      \A words \in row.name : Len(words) < 2
               PROVE  /\ MemberColumns(row) \in QueueSections[q].members
                      /\ MemberColumns(row)[1] = row.interface
                      /\ Column(MemberColumns(row), 4) = (IF row.state = NoValue THEN "" ELSE row.state)
                      /\ Column(MemberColumns(row), 5) = "no" /\ Column(MemberColumns(row), 6) = "0"
    BY DEF MembersRead
  <2>1. row \in MemberRows
    BY DEF QconfInv, MembersTyped, MembersOf
  <2>2. QueueSections[q].members = {MemberColumns(memberRows[j]) : j \in MembersOf(q)}
    BY DEF QueueSections
  <2> QED BY <2>1, <2>2, MemberRead
<1>3. RulesRead
  <2>1. ASSUME NEW q \in DOMAIN queueRows, NEW line \in QueueSections[q].options, line[1] = "defaultrule"
        PROVE  line[2] \in DOMAIN ruleRows
    <3>1. line \in QueueOptions(queueRows[q])
      BY <2>1 DEF QueueSections
    <3>2. line[2] = queueRows[q].rule /\ queueRows[q].rule \notin Falsy
      BY <2>1, <3>1, OptionLines
    <3> QED BY <3>2 DEF QconfInv, QueuesTyped, Falsy
  <2>2. ASSUME NEW r \in DOMAIN ruleRows, NEW altered \in ruleRows[r] PROVE ToldInLines(r, altered)
    BY RuleRead DEF QconfInv, RulesTyped
  <2> QED BY <2>1, <2>2 DEF RulesRead, ToldInLines
<1>4. FewTwins
  BY DEF QconfInv, NoMore, QueuesTyped, FewTwins, Unseen, Asking
<1>5. CleanupSpares
  BY DEF QconfInv, CleanerSees, CleanerTyped, CleanupSpares, Orphan
<1>6. QueueTypeOK
  <2>1. 1 .. lastKey \subseteq 1 .. MaxMembers
    BY QconfBounds DEF QconfInv, MembersTyped
  <2> QED BY <2>1 DEF QconfInv, QueuesTyped, MembersTyped, RulesTyped, CleanerTyped, QueueTypeOK
<1> QED BY <1>1, <1>2, <1>3, <1>4, <1>5, <1>6

-----------------------------------------------------------------------------
(* Provisioning. *)

FileContent == [user: SipUser, secret: Secret, server: Server]

\* The address of a device stands for itself and is no other device's.
DevicesApart ==
  /\ \A d \in DOMAIN devices : devices[d] \in DeviceRow /\ Mac(devices[d].mac) = devices[d].mac
  /\ \A d, e \in DOMAIN devices : d # e => devices[d].mac # devices[e].mac

\* What the device of a row is to hold can be made now.
Makeable(row) == Provisionable(row) /\ row.user \in DOMAIN secrets

\* What a job took along is still so if no row was changed since.
JobTrue(j) ==
  \/ jobs[j] = NoRequest
  \/ /\ jobs[j].step \in {"fetched", "made"}
     /\ jobs[j].row \in DeviceRow /\ jobs[j].since \in 0 .. updates
     /\ jobs[j].since = updates => \E d \in DOMAIN devices : devices[d] = jobs[j].row
     /\ jobs[j].step = "made" =>
          /\ Provisionable(jobs[j].row) /\ jobs[j].content \in FileContent
          /\ jobs[j].since = updates =>
               Makeable(jobs[j].row) /\ jobs[j].content = Wanted(jobs[j].row)

JobsTrue == \A j \in Job : JobTrue(j)

FreshTrue ==
  \A f \in fresh : f \in DOMAIN tftp /\ \E d \in DOMAIN devices :
    Makeable(devices[d]) /\ FileName(devices[d]) = f /\ tftp[f] = Wanted(devices[d])

ProvTyped ==
  /\ DOMAIN devices \subseteq Device
  /\ DOMAIN secrets \subseteq SipUser /\ \A u \in DOMAIN secrets : secrets[u] \in Secret
  /\ server \in Server \cup {NoServer, NoSettings}
  /\ \A f \in DOMAIN tftp : f \in FileNames /\ tftp[f] \in FileContent
  /\ DOMAIN jobs = Job
  /\ updates \in 0 .. MaxUpdates

ProvInv == ProvTyped /\ DevicesApart /\ JobsTrue /\ FreshTrue

LEMMA ProvInitially == ProvInit => ProvInv
<1> SUFFICES ASSUME ProvInit PROVE ProvInv
  OBVIOUS
<1>1. ProvTyped
  BY ProvAssumption DEF ProvInit, ProvTyped
<1>2. DevicesApart /\ JobsTrue /\ FreshTrue
  BY DEF ProvInit, DevicesApart, JobsTrue, JobTrue, FreshTrue
<1> QED BY <1>1, <1>2 DEF ProvInv

\* Devices of different addresses have files of different names.
LEMMA NamesApart ==
  ASSUME NEW r, NEW s, Mac(r.mac) = r.mac, Mac(s.mac) = s.mac, FileName(r) = FileName(s)
  PROVE  r.mac = s.mac
BY DEF FileName

LEMMA DevicesFiles ==
  ASSUME DevicesApart, NEW d \in DOMAIN devices, NEW e \in DOMAIN devices,
         FileName(devices[d]) = FileName(devices[e])
  PROVE  d = e
<1>1. PICK r, s : r = devices[d] /\ s = devices[e]
  OBVIOUS
<1>2. r.mac = s.mac
  BY <1>1, NamesApart DEF DevicesApart
<1> QED BY <1>1, <1>2 DEF DevicesApart

\* A change of rows makes every job late, and leaves fresh the files of which nothing
\* changed.
LEMMA RowChanges ==
  ASSUME ProvInv, RowChange, StaysFresh, DevicesApart',
         DOMAIN devices' \subseteq Device,
         DOMAIN secrets' \subseteq SipUser, \A u \in DOMAIN secrets' : secrets'[u] \in Secret,
         server' \in Server \cup {NoServer, NoSettings}
  PROVE  ProvInv'
<1>1. /\ tftp' = tftp /\ jobs' = jobs /\ updates' = updates + 1
      /\ updates \in Nat /\ updates' \in 0 .. MaxUpdates
  BY ProvAssumption DEF RowChange, ProvInv, ProvTyped
<1>2. ProvTyped'
  BY <1>1 DEF ProvInv, ProvTyped
<1>3. JobsTrue'
  <2> SUFFICES ASSUME NEW j \in Job, jobs[j] # NoRequest
               PROVE  /\ jobs[j].step \in {"fetched", "made"}
                      /\ jobs[j].row \in DeviceRow /\ jobs[j].since \in 0 .. updates'
                      /\ jobs[j].since # updates'
                      /\ jobs[j].step = "made" =>
                           Provisionable(jobs[j].row) /\ jobs[j].content \in FileContent
    BY <1>1, ZenonT(30) DEF JobsTrue, JobTrue
  <2>1. jobs[j].since \in 0 .. updates
    BY DEF ProvInv, JobsTrue, JobTrue
  <2>2. jobs[j].since \in 0 .. updates' /\ jobs[j].since # updates'
    BY <1>1, <2>1
  <2> QED BY <2>2 DEF ProvInv, JobsTrue, JobTrue
<1>4. FreshTrue'
  <2> SUFFICES ASSUME NEW f \in fresh'
               PROVE  f \in DOMAIN tftp /\ \E d \in DOMAIN devices' :
                        /\ Makeable(devices[d])' /\ FileName(devices'[d]) = f
                        /\ tftp[f] = Wanted(devices[d])'
    BY <1>1 DEF FreshTrue
  <2>1. f \in fresh
    BY DEF StaysFresh
  <2>2. PICK d \in DOMAIN devices \cap DOMAIN devices' :
              /\ devices[d] = devices'[d]
              /\ Provisionable(devices[d]) /\ FileName(devices[d]) = f
              /\ devices[d].user \in DOMAIN secrets'
              /\ secrets'[devices[d].user] = secrets[devices[d].user]
              /\ (devices[d].server = NoServer => server' = server)
    BY DEF StaysFresh
  <2>3. PICK e \in DOMAIN devices :
          Makeable(devices[e]) /\ FileName(devices[e]) = f /\ tftp[f] = Wanted(devices[e])
    BY <2>1 DEF ProvInv, FreshTrue
  <2>4. d = e
    BY <2>2, <2>3, DevicesFiles DEF ProvInv
  <2>5. Wanted(devices[d])' = Wanted(devices[d])
    BY <2>2 DEF Wanted, SipServer
  <2>6. f \in DOMAIN tftp
    BY <2>1 DEF ProvInv, FreshTrue
  <2> QED BY <2>2, <2>3, <2>4, <2>5, <2>6 DEF Makeable
<1> QED BY <1>2, <1>3, <1>4 DEF ProvInv

LEMMA SaveDeviceStep ==
  ASSUME ProvInv, NEW d \in Device, NEW row \in DeviceRow, SaveDevice(d, row)
  PROVE  ProvInv'
<1> DEFINE kept == [row EXCEPT !.mac = CleanedMac(row.mac)]
<1>1. kept \in DeviceRow /\ kept.mac = Mac(row.mac) /\ Mac(kept.mac) = kept.mac
  BY ProvAssumption DEF DeviceRow, CleanedMac
<1>2. /\ DOMAIN devices' = DOMAIN devices \cup {d}
      /\ \A e \in DOMAIN devices \cup {d} : devices'[e] = IF e = d THEN kept ELSE devices[e]
  BY DEF SaveDevice
<1> HIDE DEF kept
<1>3. \A e \in DOMAIN devices \ {d} : devices[e].mac # kept.mac
  BY <1>1 DEF SaveDevice, CleanedMac
<1>4. DevicesApart'
  BY <1>1, <1>2, <1>3 DEF ProvInv, DevicesApart
<1>5. DOMAIN devices' \subseteq Device
  BY <1>2 DEF ProvInv, ProvTyped
<1> QED BY <1>4, <1>5, RowChanges DEF SaveDevice, ProvInv, ProvTyped

LEMMA DeleteDeviceStep ==
  ASSUME ProvInv, NEW d \in Device, DeleteDevice(d)
  PROVE  ProvInv'
<1>1. /\ DOMAIN devices' = DOMAIN devices \ {d}
      /\ \A e \in DOMAIN devices' : devices'[e] = devices[e]
  BY DEF DeleteDevice, Restrict
<1>2. DevicesApart'
  BY <1>1 DEF ProvInv, DevicesApart
<1> QED BY <1>1, <1>2, RowChanges DEF DeleteDevice, ProvInv, ProvTyped

LEMMA ChangePasswordStep ==
  ASSUME ProvInv, NEW u \in SipUser, NEW s \in Secret, ChangePassword(u, s)
  PROVE  ProvInv'
<1>1. DOMAIN secrets' = DOMAIN secrets /\ \A v \in DOMAIN secrets' : secrets'[v] \in Secret
  BY DEF ChangePassword, ProvInv, ProvTyped
<1>2. DevicesApart'
  BY DEF ProvInv, DevicesApart, ChangePassword
<1> QED BY <1>1, <1>2, RowChanges DEF ChangePassword, ProvInv, ProvTyped

LEMMA DeleteSipUserStep ==
  ASSUME ProvInv, NEW u \in SipUser, DeleteSipUser(u)
  PROVE  ProvInv'
<1>1. /\ DOMAIN devices' \subseteq DOMAIN devices
      /\ \A e \in DOMAIN devices' : devices'[e] = devices[e]
  BY DEF DeleteSipUser, Restrict
<1>2. DevicesApart'
  BY <1>1 DEF ProvInv, DevicesApart
<1>3. DOMAIN secrets' \subseteq DOMAIN secrets /\ \A v \in DOMAIN secrets' : secrets'[v] = secrets[v]
  BY DEF DeleteSipUser, Restrict
<1> QED BY <1>1, <1>2, <1>3, RowChanges DEF DeleteSipUser, ProvInv, ProvTyped

LEMMA SetServerStep ==
  ASSUME ProvInv, NEW s \in Server \cup {NoServer, NoSettings}, SetServer(s)
  PROVE  ProvInv'
<1>1. DevicesApart'
  BY DEF ProvInv, DevicesApart, SetServer
<1> QED BY <1>1, RowChanges DEF SetServer, ProvInv, ProvTyped

LEMMA FetchStep ==
  ASSUME ProvInv, NEW j \in Job, NEW d \in Device, Fetch(j, d)
  PROVE  ProvInv'
<1> DEFINE got == [step |-> "fetched", row |-> devices[d], since |-> updates]
<1>1. DOMAIN jobs' = Job /\ \A k \in Job : jobs'[k] = IF k = j THEN got ELSE jobs[k]
  BY DEF Fetch, ProvInv, ProvTyped
<1>2. got.step = "fetched" /\ got.row = devices[d] /\ got.since = updates
  OBVIOUS
<1> HIDE DEF got
<1>3. updates \in 0 .. updates /\ d \in DOMAIN devices /\ devices[d] \in DeviceRow
  BY ProvAssumption DEF Fetch, ProvInv, ProvTyped, DevicesApart
<1>4. UNCHANGED <<devices, secrets, server, tftp, fresh, updates>>
  BY DEF Fetch
<1>5. JobsTrue'
  <2> SUFFICES ASSUME NEW k \in Job
               PROVE  JobTrue(k)'
    BY DEF JobsTrue
  <2>1. CASE k = j
    BY <1>1, <1>2, <1>3, <1>4, <2>1 DEF JobTrue
  <2>2. CASE k # j
    BY <1>1, <1>4, <2>2 DEF ProvInv, JobsTrue, JobTrue, Makeable, Wanted, SipServer
  <2> QED BY <2>1, <2>2
<1>6. ProvTyped' /\ DevicesApart' /\ FreshTrue'
  BY <1>1, <1>4 DEF ProvInv, ProvTyped, DevicesApart, FreshTrue, Makeable, Wanted, SipServer
<1> QED BY <1>5, <1>6 DEF ProvInv

LEMMA GenerateFileStep ==
  ASSUME ProvInv, NEW j \in Job, GenerateFile(j)
  PROVE  ProvInv'
<1>0. jobs[j].row \in DeviceRow
  BY DEF GenerateFile, ProvInv, JobsTrue, JobTrue, NoRequest
<1>1. PICK row \in DeviceRow : row = jobs[j].row
  BY <1>0
<1>2. /\ jobs[j].since \in 0 .. updates
      /\ jobs[j].since = updates => \E d \in DOMAIN devices : devices[d] = row
  BY <1>1 DEF GenerateFile, ProvInv, JobsTrue, JobTrue, NoRequest
<1>3. PICK since, content : since = jobs[j].since /\ content = ContentFor(row)
  OBVIOUS
<1> DEFINE got == [step |-> "made", row |-> row, since |-> since, content |-> content]
<1>4. /\ DOMAIN jobs' = Job
      /\ \A k \in Job : k # j => jobs'[k] = jobs[k]
      /\ jobs'[j] = IF Generates(row) THEN got ELSE NoRequest
  BY <1>1, <1>3 DEF GenerateFile, ProvInv, ProvTyped
<1>5. got.step = "made" /\ got.row = row /\ got.since = since /\ got.content = content
  OBVIOUS
<1> HIDE DEF got
<1>6. UNCHANGED <<devices, secrets, server, tftp, fresh, updates>>
  BY DEF GenerateFile
<1>7. content = Wanted(row)
  BY <1>3 DEF ContentFor, Wanted, ServerOf, SipServer
<1>8. Generates(row) => Provisionable(row) /\ Makeable(row) /\ content \in FileContent
  <2> SUFFICES ASSUME Generates(row)
               PROVE  Provisionable(row) /\ Makeable(row) /\ content \in FileContent
    OBVIOUS
  <2>1. row.user \in SipUser /\ secrets[row.user] \in Secret
    BY DEF Generates, ProvInv, ProvTyped
  <2>2. ServerOf(row) \in Server
    BY ProvAssumption DEF Generates, ServerOf, SipServer, ProvInv, ProvTyped, DeviceRow
  <2> QED BY <1>3, <2>1, <2>2 DEF Generates, Makeable, ContentFor, FileContent
<1>9. JobsTrue'
  <2> SUFFICES ASSUME NEW k \in Job
               PROVE  JobTrue(k)'
    BY DEF JobsTrue
  <2>1. CASE k = j
    <3>1. CASE ~Generates(row)
      BY <1>4, <2>1, <3>1 DEF JobTrue
    <3>2. CASE Generates(row)
      <4>1. jobs'[k] = got
        BY <1>4, <2>1, <3>2
      <4>2. Makeable(row)' /\ content = Wanted(row)'
        BY <1>6, <1>7, <1>8, <3>2 DEF Makeable, Wanted, SipServer
      <4>3. since \in 0 .. updates' /\ (since = updates' => \E d \in DOMAIN devices' : devices'[d] = row)
        BY <1>2, <1>3, <1>6
      <4> QED BY <1>5, <1>8, <3>2, <4>1, <4>2, <4>3 DEF JobTrue
    <3> QED BY <3>1, <3>2
  <2>2. CASE k # j
    BY <1>4, <1>6, <2>2 DEF ProvInv, JobsTrue, JobTrue, Makeable, Wanted, SipServer
  <2> QED BY <2>1, <2>2
<1>10. ProvTyped' /\ DevicesApart' /\ FreshTrue'
  BY <1>4, <1>6 DEF ProvInv, ProvTyped, DevicesApart, FreshTrue, Makeable, Wanted, SipServer
<1> QED BY <1>9, <1>10 DEF ProvInv

\* The file is stored fresh only if no row was changed since its device was read.
LEMMA StoreFileStep ==
  ASSUME ProvInv, NEW j \in Job, StoreFile(j)
  PROVE  ProvInv'
<1> DEFINE name == FileName(jobs[j].row)
<1>1. DOMAIN jobs' = Job /\ \A k \in Job : jobs'[k] = IF k = j THEN NoRequest ELSE jobs[k]
  BY DEF StoreFile, ProvInv, ProvTyped
<1>2. UNCHANGED <<devices, secrets, server, updates>>
  BY DEF StoreFile
<1>3. /\ jobs[j].row \in DeviceRow /\ Provisionable(jobs[j].row) /\ jobs[j].content \in FileContent
      /\ jobs[j].since = updates =>
           /\ \E d \in DOMAIN devices : devices[d] = jobs[j].row
           /\ Makeable(jobs[j].row) /\ jobs[j].content = Wanted(jobs[j].row)
  BY DEF StoreFile, ProvInv, JobsTrue, JobTrue, NoRequest
<1>4. name \in FileNames
  BY <1>3 DEF FileNames
<1>5. /\ DOMAIN tftp' = DOMAIN tftp \cup {name}
      /\ \A f \in DOMAIN tftp' : tftp'[f] = IF f = name THEN jobs[j].content ELSE tftp[f]
  BY DEF StoreFile, Written
<1>6. JobsTrue'
  <2> SUFFICES ASSUME NEW k \in Job, k # j
               PROVE  JobTrue(k)'
    BY <1>1 DEF JobsTrue, JobTrue
  <2> QED BY <1>1, <1>2 DEF ProvInv, JobsTrue, JobTrue, Makeable, Wanted, SipServer
<1>7. ProvTyped' /\ DevicesApart'
  BY <1>1, <1>2, <1>3, <1>4, <1>5 DEF ProvInv, ProvTyped, DevicesApart
<1>8. FreshTrue'
  <2> SUFFICES ASSUME NEW f \in fresh'
               PROVE  f \in DOMAIN tftp' /\ \E d \in DOMAIN devices :
                        Makeable(devices[d]) /\ FileName(devices[d]) = f /\ tftp'[f] = Wanted(devices[d])
    BY <1>2 DEF FreshTrue, Makeable, Wanted, SipServer
  <2>1. CASE f = name
    <3>1. jobs[j].since = updates
      BY <2>1 DEF StoreFile
    <3> QED BY <1>3, <1>5, <2>1, <3>1
  <2>2. CASE f # name
    <3>1. f \in fresh
      BY <2>2 DEF StoreFile
    <3> QED BY <1>5, <2>2, <3>1 DEF ProvInv, FreshTrue
  <2> QED BY <2>1, <2>2
<1> QED BY <1>6, <1>7, <1>8 DEF ProvInv

LEMMA ProvStep ==
  ASSUME ProvInv, [ProvNext]_provVars
  PROVE  ProvInv'
<1>1. CASE UNCHANGED provVars
  BY <1>1 DEF provVars, ProvInv, ProvTyped, DevicesApart, JobsTrue, JobTrue, FreshTrue, Makeable, Wanted, SipServer
<1> QED BY <1>1, SaveDeviceStep, DeleteDeviceStep, ChangePasswordStep, DeleteSipUserStep,
           SetServerStep, FetchStep, GenerateFileStep, StoreFileStep DEF ProvNext

LEMMA ProvMeans == ProvInv => OneFilePerDevice /\ FreshIsCurrent /\ ProvTypeOK
<1> SUFFICES ASSUME ProvInv PROVE OneFilePerDevice /\ FreshIsCurrent /\ ProvTypeOK
  OBVIOUS
<1>1. OneFilePerDevice
  BY DevicesFiles DEF ProvInv, OneFilePerDevice
<1>2. FreshIsCurrent
  BY DEF ProvInv, FreshTrue, FreshIsCurrent, Makeable
<1>3. ProvTypeOK
  <2>1. Range(devices) \subseteq DeviceRow
    BY DEF Range, ProvInv, DevicesApart
  <2>2. Range(secrets) \subseteq Secret
    BY DEF Range, ProvInv, ProvTyped
  <2>3. \A j \in Job : jobs[j].step \in {"idle", "fetched", "made"}
    BY DEF ProvInv, JobsTrue, JobTrue, NoRequest
  <2>4. fresh \subseteq DOMAIN tftp
    BY DEF ProvInv, FreshTrue
  <2>5. DOMAIN tftp \subseteq FileNames
    BY DEF ProvInv, ProvTyped
  <2> QED BY <2>1, <2>2, <2>3, <2>4, <2>5 DEF ProvInv, ProvTyped, ProvTypeOK, FileContent
<1> QED BY <1>1, <1>2, <1>3

-----------------------------------------------------------------------------
(* Music and sounds. *)

\* The lowest free suffix is free.
LEMMA LowestIsIn ==
  ASSUME NEW S, S \subseteq Nat, S # {}
  PROVE  Min(S) \in S
<1> DEFINE below == {ss \in Nat \X Nat : ss[1] < ss[2]}
<1>1. IsWellFoundedOn(below, Nat)
  BY NatLessThanWellFounded DEF OpToRel
<1>2. PICK x \in S : \A y \in S : ~ (<<y, x>> \in below)
  BY <1>1, WFMin
<1>3. \A y \in S : ~ (y < x)
  BY <1>2
<1>4. \A y \in S : x <= y
  BY <1>3
<1> QED BY <1>4 DEF Min

ClassRow == [mode : Mode, directory : Folder, sort : Sort]
PlaylistRow == [class : Class, file : MediaPath \cup {NoMedia}, url : BOOLEAN, of : Nat]
SoundRow == [file : MediaPath, of : Nat]

\* No more files than operations.
DiskHolds(shelf) ==
  IsFiniteSet(DOMAIN shelf) /\ Cardinality(DOMAIN shelf) <= mediaOps /\ DOMAIN shelf \subseteq MediaPath

MediaTyped ==
  /\ \A name \in DOMAIN classes : name \in Class /\ classes[name] \in ClassRow
  /\ \A e \in DOMAIN playlist : e \in PlaylistId /\ playlist[e] \in PlaylistRow
  /\ \A key \in DOMAIN sounds : key \in Language \X Base /\ sounds[key] \in SoundRow
  /\ \A path \in DOMAIN tones : tones[path] \in Nat /\ path.dir \in Language
  /\ folders \subseteq Folder /\ upload \in Nat /\ mediaOps \in 0 .. MaxMedia
  /\ DiskHolds(music) /\ DiskHolds(tones)

\* The file of an entry is the upload that it was made for.
EntriesKept ==
  \A e \in DOMAIN playlist :
    playlist[e].file # NoMedia =>
      playlist[e].file \in DOMAIN music /\ music[playlist[e].file] = playlist[e].of

MediaInv ==
  MediaTyped /\ EntriesKept /\ EntriesAreOne /\ EntriesHaveClass /\ SoundsAreTheirs

LEMMA MediaBounds == MaxMedia \in Nat
BY MediaAssumption

LEMMA MediaInitially == MediaInit => MediaInv
<1> SUFFICES ASSUME MediaInit PROVE MediaInv
  OBVIOUS
<1>1. mediaOps \in 0 .. MaxMedia /\ mediaOps = 0 /\ upload \in Nat
  <2>1. mediaOps = 0 /\ upload = 0
    BY DEF MediaInit
  <2> QED BY <2>1, MediaBounds
<1>2. DOMAIN music = {} /\ DOMAIN tones = {} /\ DOMAIN classes = {} /\ DOMAIN playlist = {}
      /\ DOMAIN sounds = {} /\ folders = {}
  BY DEF MediaInit
<1>3. DiskHolds(music) /\ DiskHolds(tones)
  BY <1>1, <1>2, FS_EmptySet DEF DiskHolds
<1> QED BY <1>1, <1>2, <1>3
     DEF MediaInv, MediaTyped, EntriesKept, EntriesAreOne, EntriesHaveClass, SoundsAreTheirs

\* As long as there are fewer files than numbers, the storage finds a name.
LEMMA NameAvailable ==
  ASSUME NEW shelf, IsFiniteSet(DOMAIN shelf), Cardinality(DOMAIN shelf) <= MaxMedia,
         NEW dir \in Folder \cup Language, NEW base \in Base, NEW ext \in FileExt,
         NEW path, path = Available(shelf, dir, base, ext)
  PROVE  path \in MediaPath /\ path \notin DOMAIN shelf /\ path.dir = dir /\ path.base = base
<1> DEFINE Named(n) == [dir |-> dir, base |-> base, ext |-> ext, n |-> n]
           free == {n \in Suffix : Named(n) \notin DOMAIN shelf}
           f == [n \in Suffix |-> Named(n)]
<1>1. Suffix = 0 .. MaxMedia /\ 0 \in Int /\ MaxMedia \in Int /\ ~(0 > MaxMedia)
  BY MediaBounds DEF Suffix
<1>2. IsFiniteSet(Suffix) /\ Cardinality(Suffix) = MaxMedia + 1
  <2>1. MaxMedia - 0 + 1 = MaxMedia + 1
    BY MediaBounds
  <2> QED BY <1>1, <2>1, FS_Interval
<1>3. \A m, n \in Suffix : m # n => Named(m) # Named(n)
  OBVIOUS
<1>4. free # {}
  <2> SUFFICES ASSUME free = {} PROVE FALSE
    OBVIOUS
  <2>1. \A n \in Suffix : Named(n) \in DOMAIN shelf
    OBVIOUS
  <2>2. f \in Injection(Suffix, DOMAIN shelf)
    BY <1>3, <2>1 DEF Injection, IsInjective
  <2>3. Cardinality(Suffix) <= Cardinality(DOMAIN shelf)
    <3> HIDE DEF f
    <3> QED BY <2>2, FS_Injection
  <2>4. Cardinality(DOMAIN shelf) \in Nat
    BY FS_CardinalityType
  <2> QED BY <1>2, <2>3, <2>4, MediaBounds
<1>5. free \subseteq Nat
  BY <1>1, MediaBounds
<1>6. Min(free) \in free
  <2> HIDE DEF free
  <2> QED BY <1>4, <1>5, LowestIsIn
<1>7. path = Named(Min(free))
  BY DEF Available
<1> HIDE DEF free
<1>8. PICK n : n = Min(free)
  OBVIOUS
<1>9. n \in Suffix /\ Named(n) \notin DOMAIN shelf /\ path = Named(n)
  BY <1>6, <1>7, <1>8 DEF free
<1> QED BY <1>9 DEF MediaPath

\* A file is added under a name that was free, and no file goes.
LEMMA DiskGrows ==
  ASSUME NEW shelf, NEW more, NEW path \in MediaPath, NEW what, NEW n \in Nat,
         IsFiniteSet(DOMAIN shelf), Cardinality(DOMAIN shelf) <= n, DOMAIN shelf \subseteq MediaPath,
         more = With(shelf, path, what)
  PROVE  /\ IsFiniteSet(DOMAIN more) /\ Cardinality(DOMAIN more) <= n + 1
         /\ DOMAIN more \subseteq MediaPath
         /\ path \in DOMAIN more /\ more[path] = what
         /\ \A p \in DOMAIN shelf : p # path => p \in DOMAIN more /\ more[p] = shelf[p]
<1>1. DOMAIN more = DOMAIN shelf \cup {path}
  BY DEF With
<1>2. /\ IsFiniteSet(DOMAIN shelf \cup {path})
      /\ Cardinality(DOMAIN shelf \cup {path}) =
           IF path \in DOMAIN shelf THEN Cardinality(DOMAIN shelf) ELSE Cardinality(DOMAIN shelf) + 1
  BY FS_AddElement
<1>3. Cardinality(DOMAIN shelf) \in Nat
  BY FS_CardinalityType
<1>4. Cardinality(DOMAIN more) <= n + 1
  BY <1>1, <1>2, <1>3
<1> QED BY <1>1, <1>2, <1>4 DEF With

LEMMA MediaDo ==
  ASSUME MediaInv, MayDo
  PROVE  /\ mediaOps' \in 0 .. MaxMedia /\ mediaOps \in Nat /\ mediaOps' = mediaOps + 1
         /\ mediaOps <= MaxMedia
         /\ UNCHANGED music => DiskHolds(music)'
         /\ UNCHANGED tones => DiskHolds(tones)'
<1>1. mediaOps \in 0 .. MaxMedia /\ mediaOps < MaxMedia /\ mediaOps' = mediaOps + 1
  BY DEF MediaInv, MediaTyped, MayDo
<1>2. mediaOps' \in 0 .. MaxMedia /\ mediaOps \in Nat /\ mediaOps <= MaxMedia
  BY <1>1, MediaBounds
<1>3. ASSUME NEW n, n <= mediaOps, n \in Nat PROVE n <= mediaOps'
  BY <1>1, <1>2, <1>3
<1>4. ASSUME UNCHANGED music PROVE DiskHolds(music)'
  <2>1. Cardinality(DOMAIN music) \in Nat
    BY FS_CardinalityType DEF MediaInv, MediaTyped, DiskHolds
  <2> QED BY <1>3, <1>4, <2>1 DEF MediaInv, MediaTyped, DiskHolds
<1>5. ASSUME UNCHANGED tones PROVE DiskHolds(tones)'
  <2>1. Cardinality(DOMAIN tones) \in Nat
    BY FS_CardinalityType DEF MediaInv, MediaTyped, DiskHolds
  <2> QED BY <1>3, <1>5, <2>1 DEF MediaInv, MediaTyped, DiskHolds
<1> QED BY <1>1, <1>2, <1>4, <1>5

LEMMA SaveClassStep ==
  ASSUME MediaInv, NEW name \in Class, NEW mode \in Mode, NEW directory \in Folder, NEW sort \in Sort,
         SaveClass(name, mode, directory, sort)
  PROVE  MediaInv'
<1>1. MayDo /\ UNCHANGED <<playlist, music, sounds, tones, upload>> /\ folders' \subseteq Folder
  BY DEF SaveClass, soundVars, MediaInv, MediaTyped
<1>2. /\ DOMAIN classes' = DOMAIN classes \cup {name}
      /\ \A n \in DOMAIN classes' : classes'[n] \in ClassRow
  BY DEF SaveClass, With, ClassRow, MediaInv, MediaTyped
<1>3. MediaTyped'
  BY <1>1, <1>2, MediaDo DEF MediaInv, MediaTyped
<1>4. EntriesKept' /\ EntriesAreOne' /\ EntriesHaveClass' /\ SoundsAreTheirs'
  BY <1>1, <1>2
  DEF MediaInv, EntriesKept, EntriesAreOne, EntriesHaveClass, SoundsAreTheirs
<1> QED BY <1>3, <1>4 DEF MediaInv

LEMMA DeleteClassStep ==
  ASSUME MediaInv, NEW name \in Class, DeleteClass(name)
  PROVE  MediaInv'
<1>1. MayDo /\ UNCHANGED <<playlist, music, folders, sounds, tones, upload>>
  BY DEF DeleteClass, soundVars
<1>2. DOMAIN classes' = DOMAIN classes \ {name} /\ \A n \in DOMAIN classes' : classes'[n] = classes[n]
  BY DEF DeleteClass, Without, Restrict
<1>3. MediaTyped'
  BY <1>1, <1>2, MediaDo DEF MediaInv, MediaTyped
<1>4. EntriesHaveClass'
  BY <1>1, <1>2 DEF MediaInv, EntriesHaveClass, DeleteClass, EntriesOf
<1>5. EntriesKept' /\ EntriesAreOne' /\ SoundsAreTheirs'
  BY <1>1 DEF MediaInv, EntriesKept, EntriesAreOne, SoundsAreTheirs
<1> QED BY <1>3, <1>4, <1>5 DEF MediaInv

LEMMA UploadEntryStep ==
  ASSUME MediaInv, NEW e \in PlaylistId, NEW name \in DOMAIN classes, NEW base \in Base,
         NEW ext \in FileExt, NEW url \in BOOLEAN, UploadEntry(e, name, base, ext, url)
  PROVE  MediaInv'
<1>1. MayDo /\ UNCHANGED <<classes, sounds, tones>>
  BY DEF UploadEntry, soundVars
<1>2. PICK dir, path : dir = classes[name].directory /\ path = Available(music, dir, base, ext)
  OBVIOUS
<1>3. dir \in Folder /\ dir # "" /\ name \in Class
  BY <1>2 DEF UploadEntry, MediaInv, MediaTyped, ClassRow
<1>4. path \in MediaPath /\ path \notin DOMAIN music /\ path.dir = dir
  <2>1. IsFiniteSet(DOMAIN music) /\ Cardinality(DOMAIN music) <= MaxMedia
    <3>1. IsFiniteSet(DOMAIN music) /\ Cardinality(DOMAIN music) <= mediaOps
      BY DEF MediaInv, MediaTyped, DiskHolds
    <3>2. Cardinality(DOMAIN music) \in Nat
      BY <3>1, FS_CardinalityType
    <3> QED BY <1>1, <3>1, <3>2, MediaDo, MediaBounds
  <2>2. PICK shelf : shelf = music
    OBVIOUS
  <2>3. IsFiniteSet(DOMAIN shelf) /\ Cardinality(DOMAIN shelf) <= MaxMedia
    BY <2>1, <2>2
  <2>4. dir \in Folder \cup Language /\ path = Available(shelf, dir, base, ext)
    BY <1>2, <1>3, <2>2
  <2>5. path \in MediaPath /\ path \notin DOMAIN shelf /\ path.dir = dir
    BY <2>3, <2>4, NameAvailable
  <2> QED BY <2>2, <2>5
<1>5. PICK what : what = upload + 1
  OBVIOUS
<1>6. music' = With(music, path, what) /\ folders' = folders \cup {dir} /\ upload' = what
      /\ playlist' = With(playlist, e, [class |-> name, file |-> path, url |-> FALSE, of |-> what])
  BY <1>2, <1>5 DEF UploadEntry, FileWins
<1>7. what \in Nat /\ folders' \subseteq Folder
  <2>1. upload \in Nat /\ folders \subseteq Folder
    BY DEF MediaInv, MediaTyped
  <2>2. PICK u : u = upload
    OBVIOUS
  <2>3. u \in Nat /\ what = u + 1
    BY <1>5, <2>1, <2>2
  <2>4. what \in Nat
    BY <2>3, SMT
  <2> QED BY <1>3, <1>6, <2>1, <2>4
<1>8. /\ DiskHolds(music)'
      /\ path \in DOMAIN music' /\ music'[path] = what
      /\ \A p \in DOMAIN music : p \in DOMAIN music' /\ music'[p] = music[p]
  <2>1. PICK shelf, more, n : shelf = music /\ more = music' /\ n = mediaOps
    OBVIOUS
  <2>2. IsFiniteSet(DOMAIN shelf) /\ Cardinality(DOMAIN shelf) <= n /\ DOMAIN shelf \subseteq MediaPath
    BY <2>1 DEF MediaInv, MediaTyped, DiskHolds
  <2>3. n \in Nat /\ mediaOps' = n + 1
    BY <1>1, <2>1, MediaDo
  <2>4. more = With(shelf, path, what)
    BY <1>6, <2>1
  <2>5. /\ IsFiniteSet(DOMAIN more) /\ Cardinality(DOMAIN more) <= n + 1
        /\ DOMAIN more \subseteq MediaPath
        /\ path \in DOMAIN more /\ more[path] = what
        /\ \A p \in DOMAIN shelf : p # path => p \in DOMAIN more /\ more[p] = shelf[p]
    BY <1>4, <2>2, <2>3, <2>4, DiskGrows
  <2>6. \A p \in DOMAIN shelf : p # path
    BY <1>4, <2>1
  <2>7. DiskHolds(music)'
    BY <2>1, <2>3, <2>5 DEF DiskHolds
  <2> QED BY <2>1, <2>5, <2>6, <2>7
<1>9. path # NoMedia /\ path \in MediaPath
  <2>1. NoMedia.dir = ""
    BY DEF NoMedia
  <2> QED BY <1>3, <1>4, <2>1
<1>10. /\ DOMAIN playlist' = DOMAIN playlist \cup {e}
       /\ \A d \in DOMAIN playlist : d # e => playlist'[d] = playlist[d]
       /\ playlist'[e].class = name /\ playlist'[e].file = path
       /\ playlist'[e].url = FALSE /\ playlist'[e].of = what
       /\ playlist'[e] \in PlaylistRow
  BY <1>3, <1>4, <1>6, <1>7 DEF With, PlaylistRow
<1>11. MediaTyped'
  <2>1. \A d \in DOMAIN playlist' : d \in PlaylistId /\ playlist'[d] \in PlaylistRow
    BY <1>10 DEF MediaInv, MediaTyped
  <2>2. upload' \in Nat
    BY <1>6, <1>7
  <2> QED BY <1>1, <1>7, <1>8, <2>1, <2>2, MediaDo DEF MediaInv, MediaTyped
<1>12. EntriesKept'
  BY <1>8, <1>10 DEF MediaInv, EntriesKept
<1>13. EntriesAreOne' /\ EntriesHaveClass' /\ SoundsAreTheirs'
  BY <1>1, <1>9, <1>10 DEF MediaInv, EntriesAreOne, EntriesHaveClass, SoundsAreTheirs
<1> QED BY <1>11, <1>12, <1>13 DEF MediaInv

LEMMA PlaylistStep ==
  ASSUME MediaInv, NEW e \in PlaylistId,
         DropEntry(e) \/ \E name \in Class : LinkEntry(e, name)
  PROVE  MediaInv'
<1>1. MayDo /\ UNCHANGED <<classes, music, folders, sounds, tones, upload>>
  BY DEF DropEntry, LinkEntry, soundVars
<1> DEFINE Linked(d) == /\ d \in PlaylistId /\ playlist'[d] \in PlaylistRow
                       /\ playlist'[d].file = NoMedia /\ playlist'[d].url = TRUE
                       /\ playlist'[d].class \in DOMAIN classes
<1>2. ASSUME NEW d \in DOMAIN playlist'
      PROVE  (d \in DOMAIN playlist /\ playlist'[d] = playlist[d]) \/ Linked(d)
  <2>1. CASE DropEntry(e)
    BY <2>1 DEF DropEntry, Without, Restrict
  <2>2. ASSUME NEW name \in Class, LinkEntry(e, name)
        PROVE  (d \in DOMAIN playlist /\ playlist'[d] = playlist[d]) \/ Linked(d)
    <3>1. /\ DOMAIN playlist' = DOMAIN playlist \cup {e}
          /\ playlist'[d] = IF d = e THEN [class |-> name, file |-> NoMedia, url |-> TRUE, of |-> 0]
                             ELSE playlist[d]
      BY <2>2 DEF LinkEntry, With
    <3>2. [class |-> name, file |-> NoMedia, url |-> TRUE, of |-> 0] \in PlaylistRow
      BY DEF PlaylistRow
    <3>3. name \in DOMAIN classes
      BY <2>2 DEF LinkEntry
    <3> QED BY <3>1, <3>2, <3>3
  <2> QED BY <2>1, <2>2
<1>3. MediaTyped'
  <2>1. \A d \in DOMAIN playlist' : d \in PlaylistId /\ playlist'[d] \in PlaylistRow
    BY <1>2 DEF MediaInv, MediaTyped, Linked
  <2> QED BY <1>1, <2>1, MediaDo DEF MediaInv, MediaTyped
<1>4. EntriesKept' /\ EntriesAreOne' /\ EntriesHaveClass' /\ SoundsAreTheirs'
  BY <1>1, <1>2, ZenonT(30)
  DEF MediaInv, EntriesKept, EntriesAreOne, EntriesHaveClass, SoundsAreTheirs
<1> QED BY <1>3, <1>4 DEF MediaInv

LEMMA ImportClassesStep ==
  ASSUME MediaInv, NEW conf, ImportClasses(conf),
         conf = MusicSections
         \/ \E name \in Class, mode \in {"files", "quietmp3"}, directory \in Folder :
              conf = Brought(name, mode, directory)
  PROVE  MediaInv'
<1>1. MayDo /\ UNCHANGED <<playlist, music, sounds, tones, upload>>
  BY DEF ImportClasses, soundVars
<1> DEFINE taken == {name \in NewSections(conf) : conf[name].mode \in Mode}
<1>2. \A name \in taken : name \in Class /\ name \notin DOMAIN classes
                        /\ conf[name].mode \in Mode /\ conf[name].directory \in Folder
                        /\ conf[name].sort \in Sort
  <2>1. CASE conf = MusicSections
    <3>1. taken = {}
      BY <2>1 DEF NewSections, MusicSections
    <3> QED BY <3>1
  <2>2. ASSUME NEW name \in Class, NEW mode, NEW directory \in Folder,
               conf = Brought(name, mode, directory)
        PROVE  \A n \in taken : n \in Class /\ n \notin DOMAIN classes
                        /\ conf[n].mode \in Mode /\ conf[n].directory \in Folder
                        /\ conf[n].sort \in Sort
    <3>1. DOMAIN conf = {name} /\ conf[name].directory = directory /\ conf[name].sort = "alpha"
      BY <2>2 DEF Brought
    <3> QED BY <3>1 DEF NewSections, Sort
  <2> HIDE DEF taken
  <2> QED BY <2>1, <2>2
<1>3. /\ classes' = Adding([name \in taken |-> ReadClass(conf[name])], classes)
      /\ folders' = folders \cup ({conf[name].directory : name \in taken} \ {""})
  BY DEF ImportClasses
<1> HIDE DEF taken
<1>4. folders' \subseteq Folder
  BY <1>2, <1>3 DEF MediaInv, MediaTyped
<1>5. /\ DOMAIN classes' = taken \cup DOMAIN classes
      /\ \A name \in DOMAIN classes' :
           classes'[name] = IF name \in taken THEN ReadClass(conf[name]) ELSE classes[name]
  BY <1>3 DEF Adding
<1>6. \A name \in DOMAIN classes' : name \in Class /\ classes'[name] \in ClassRow
  <2>1. \A name \in taken : ReadClass(conf[name]) \in ClassRow
    BY <1>2 DEF ReadClass, ClassRow
  <2> QED BY <1>2, <1>5, <2>1 DEF MediaInv, MediaTyped
<1>7. MediaTyped'
  BY <1>1, <1>4, <1>6, MediaDo DEF MediaInv, MediaTyped
<1>8. EntriesKept' /\ EntriesAreOne' /\ EntriesHaveClass' /\ SoundsAreTheirs'
  BY <1>1, <1>5
  DEF MediaInv, EntriesKept, EntriesAreOne, EntriesHaveClass, SoundsAreTheirs
<1> QED BY <1>7, <1>8 DEF MediaInv

\* What the steps that put a file among the sounds have in common.
LEMMA TonesGrow ==
  ASSUME MediaInv, MayDo, UNCHANGED musicVars, NEW path \in MediaPath, path.dir \in Language,
         path \notin DOMAIN tones, tones' = With(tones, path, upload + 1), upload' = upload + 1
  PROVE  /\ DiskHolds(tones)' /\ DiskHolds(music)' /\ upload' \in Nat /\ mediaOps' \in 0 .. MaxMedia
         /\ \A p \in DOMAIN tones' : tones'[p] \in Nat /\ p.dir \in Language
         /\ path \in DOMAIN tones' /\ tones'[path] = upload'
         /\ \A p \in DOMAIN tones : p \in DOMAIN tones' /\ tones'[p] = tones[p]
<1>1. PICK shelf, more, n, what : shelf = tones /\ more = tones' /\ n = mediaOps /\ what = upload'
  OBVIOUS
<1>2. IsFiniteSet(DOMAIN shelf) /\ Cardinality(DOMAIN shelf) <= n /\ DOMAIN shelf \subseteq MediaPath
  BY <1>1 DEF MediaInv, MediaTyped, DiskHolds
<1>3. n \in Nat /\ mediaOps' = n + 1 /\ mediaOps' \in 0 .. MaxMedia
  BY <1>1, MediaDo
<1>4. more = With(shelf, path, what)
  BY <1>1
<1>5. /\ IsFiniteSet(DOMAIN more) /\ Cardinality(DOMAIN more) <= n + 1
      /\ DOMAIN more \subseteq MediaPath
      /\ path \in DOMAIN more /\ more[path] = what
      /\ \A p \in DOMAIN shelf : p # path => p \in DOMAIN more /\ more[p] = shelf[p]
  BY <1>2, <1>3, <1>4, DiskGrows
<1>6. upload' \in Nat
  <2>1. PICK u : u = upload
    OBVIOUS
  <2>2. u \in Nat /\ what = u + 1
    BY <1>1, <2>1 DEF MediaInv, MediaTyped
  <2>3. what \in Nat
    BY <2>2, SMT
  <2> QED BY <1>1, <2>3
<1>7. DiskHolds(tones)'
  BY <1>1, <1>3, <1>5 DEF DiskHolds
<1>8. DiskHolds(music)'
  BY MediaDo DEF musicVars
<1>9. \A p \in DOMAIN tones' : tones'[p] \in Nat /\ p.dir \in Language
  <2>1. \A p \in DOMAIN tones' : p = path \/ p \in DOMAIN tones
    BY DEF With
  <2> QED BY <1>1, <1>5, <1>6, <2>1 DEF MediaInv, MediaTyped
<1> QED BY <1>1, <1>3, <1>5, <1>6, <1>7, <1>8, <1>9

LEMMA UploadSoundStep ==
  ASSUME MediaInv, NEW language \in Language, NEW name \in Base, NEW ext \in FileExt,
         UploadSound(language, name, ext)
  PROVE  MediaInv'
<1>1. PICK path : path = Available(tones, language, name, ext)
  OBVIOUS
<1>2. MayDo /\ UNCHANGED musicVars /\ upload' = upload + 1 /\ tones' = With(tones, path, upload + 1)
      /\ sounds' = With(sounds, <<language, name>>, [file |-> path, of |-> upload + 1])
  BY <1>1 DEF UploadSound
<1>3. path \in MediaPath /\ path \notin DOMAIN tones /\ path.dir = language
  <2>1. IsFiniteSet(DOMAIN tones) /\ Cardinality(DOMAIN tones) <= MaxMedia
    <3>1. IsFiniteSet(DOMAIN tones) /\ Cardinality(DOMAIN tones) <= mediaOps
      BY DEF MediaInv, MediaTyped, DiskHolds
    <3>2. Cardinality(DOMAIN tones) \in Nat
      BY <3>1, FS_CardinalityType
    <3> QED BY <1>2, <3>1, <3>2, MediaDo, MediaBounds
  <2>2. PICK shelf : shelf = tones
    OBVIOUS
  <2>3. IsFiniteSet(DOMAIN shelf) /\ Cardinality(DOMAIN shelf) <= MaxMedia
    BY <2>1, <2>2
  <2>4. language \in Folder \cup Language /\ path = Available(shelf, language, name, ext)
    BY <1>1, <2>2
  <2>5. path \in MediaPath /\ path \notin DOMAIN shelf /\ path.dir = language
    BY <2>3, <2>4, NameAvailable
  <2> QED BY <2>2, <2>5
<1>4. /\ DiskHolds(tones)' /\ DiskHolds(music)' /\ upload' \in Nat /\ mediaOps' \in 0 .. MaxMedia
      /\ \A p \in DOMAIN tones' : tones'[p] \in Nat /\ p.dir \in Language
      /\ path \in DOMAIN tones' /\ tones'[path] = upload'
      /\ \A p \in DOMAIN tones : p \in DOMAIN tones' /\ tones'[p] = tones[p]
  BY <1>2, <1>3, TonesGrow
<1> DEFINE row == [file |-> path, of |-> upload']
<1>5. /\ DOMAIN sounds' = DOMAIN sounds \cup {<<language, name>>}
      /\ \A key \in DOMAIN sounds' :
           sounds'[key] = IF key = <<language, name>> THEN row ELSE sounds[key]
  BY <1>2 DEF With
<1>6. row \in SoundRow /\ row.file = path /\ row.of = upload'
  BY <1>3, <1>4 DEF SoundRow
<1> HIDE DEF row
<1>7. \A key \in DOMAIN sounds' : key \in Language \X Base /\ sounds'[key] \in SoundRow
  BY <1>5, <1>6 DEF MediaInv, MediaTyped
<1>8. MediaTyped'
  BY <1>2, <1>4, <1>7 DEF MediaInv, MediaTyped, musicVars
<1>9. SoundsAreTheirs'
  BY <1>4, <1>5, <1>6 DEF MediaInv, SoundsAreTheirs
<1>10. EntriesKept' /\ EntriesAreOne' /\ EntriesHaveClass'
  BY <1>2 DEF MediaInv, EntriesKept, EntriesAreOne, EntriesHaveClass, musicVars
<1> QED BY <1>8, <1>9, <1>10 DEF MediaInv

LEMMA PlaceToneStep ==
  ASSUME MediaInv, NEW dir \in Language, NEW base \in Base, NEW ext \in FileExt,
         PlaceTone(dir, base, ext)
  PROVE  MediaInv'
<1>1. PICK path : path = [dir |-> dir, base |-> base, ext |-> ext, n |-> 0]
  OBVIOUS
<1>2. MayDo /\ UNCHANGED musicVars /\ upload' = upload + 1 /\ tones' = With(tones, path, upload + 1)
      /\ path \notin DOMAIN tones /\ UNCHANGED sounds
  BY <1>1 DEF PlaceTone
<1>3. path \in MediaPath /\ path.dir = dir
  <2>1. 0 \in Suffix
    BY MediaBounds DEF Suffix
  <2> QED BY <1>1, <2>1 DEF MediaPath
<1>4. /\ DiskHolds(tones)' /\ DiskHolds(music)' /\ upload' \in Nat /\ mediaOps' \in 0 .. MaxMedia
      /\ \A p \in DOMAIN tones' : tones'[p] \in Nat /\ p.dir \in Language
      /\ \A p \in DOMAIN tones : p \in DOMAIN tones' /\ tones'[p] = tones[p]
  BY <1>2, <1>3, TonesGrow
<1>5. MediaTyped'
  BY <1>2, <1>4 DEF MediaInv, MediaTyped, musicVars
<1>6. SoundsAreTheirs'
  BY <1>2, <1>4 DEF MediaInv, SoundsAreTheirs
<1>7. EntriesKept' /\ EntriesAreOne' /\ EntriesHaveClass'
  BY <1>2 DEF MediaInv, EntriesKept, EntriesAreOne, EntriesHaveClass, musicVars
<1> QED BY <1>5, <1>6, <1>7 DEF MediaInv

\* The steps that change only the rows of sounds.
LEMMA SoundRowsStep ==
  ASSUME MediaInv, MayDo, UNCHANGED <<tones, upload, musicVars>>,
         \A key \in DOMAIN sounds' :
           /\ key \in Language \X Base /\ sounds'[key] \in SoundRow
           /\ sounds'[key].file \in DOMAIN tones /\ tones[sounds'[key].file] = sounds'[key].of
  PROVE  MediaInv'
<1>1. MediaTyped'
  BY MediaDo DEF MediaInv, MediaTyped, musicVars
<1>2. SoundsAreTheirs'
  BY DEF SoundsAreTheirs
<1>3. EntriesKept' /\ EntriesAreOne' /\ EntriesHaveClass'
  BY DEF MediaInv, EntriesKept, EntriesAreOne, EntriesHaveClass, musicVars
<1> QED BY <1>1, <1>2, <1>3 DEF MediaInv

LEMMA RenameSoundStep ==
  ASSUME MediaInv, NEW old \in Language \X Base, NEW new \in Language \X Base, RenameSound(old, new)
  PROVE  MediaInv'
<1>1. MayDo /\ UNCHANGED <<tones, upload, musicVars>> /\ old \in DOMAIN sounds
      /\ sounds' = With(Without(sounds, old), new, sounds[old])
  BY DEF RenameSound
<1>2. \A key \in DOMAIN sounds' :
        \/ key = new /\ sounds'[key] = sounds[old]
        \/ key \in DOMAIN sounds /\ sounds'[key] = sounds[key]
  <2>1. DOMAIN Without(sounds, old) = DOMAIN sounds \ {old}
        /\ \A key \in DOMAIN Without(sounds, old) : Without(sounds, old)[key] = sounds[key]
    BY DEF Without, Restrict
  <2> QED BY <1>1, <2>1 DEF With
<1>3. \A key \in DOMAIN sounds' :
           /\ key \in Language \X Base /\ sounds'[key] \in SoundRow
           /\ sounds'[key].file \in DOMAIN tones /\ tones[sounds'[key].file] = sounds'[key].of
  BY <1>1, <1>2 DEF MediaInv, MediaTyped, SoundsAreTheirs
<1> QED BY <1>1, <1>3, SoundRowsStep

LEMMA DeleteSoundStep ==
  ASSUME MediaInv, NEW old, DeleteSound(old)
  PROVE  MediaInv'
<1>1. MayDo /\ UNCHANGED <<tones, upload, musicVars>>
      /\ sounds' = Without(sounds, old)
  BY DEF DeleteSound
<1>2. \A key \in DOMAIN sounds' : key \in DOMAIN sounds /\ sounds'[key] = sounds[key]
  BY <1>1 DEF Without, Restrict
<1>3. \A key \in DOMAIN sounds' :
           /\ key \in Language \X Base /\ sounds'[key] \in SoundRow
           /\ sounds'[key].file \in DOMAIN tones /\ tones[sounds'[key].file] = sounds'[key].of
  BY <1>1, <1>2 DEF MediaInv, MediaTyped, SoundsAreTheirs
<1> QED BY <1>1, <1>3, SoundRowsStep

LEMMA ImportSoundsStep ==
  ASSUME MediaInv, ImportSounds
  PROVE  MediaInv'
<1> DEFINE keys == {ImportKey(path) : path \in PlainTones} \ DOMAIN sounds
<1>1. MayDo /\ UNCHANGED <<tones, upload, musicVars>>
  BY DEF ImportSounds
<1>2. PICK take \in [keys -> PlainTones] :
        /\ \A key \in keys : ImportKey(take[key]) = key
        /\ sounds' = Adding([key \in keys |-> [file |-> take[key], of |-> tones[take[key]]]], sounds)
  BY DEF ImportSounds
<1>3. \A key \in keys : key \in Language \X Base
  <2> SUFFICES ASSUME NEW path \in PlainTones PROVE ImportKey(path) \in Language \X Base
    OBVIOUS
  <2>1. path \in DOMAIN tones /\ path \in MediaPath /\ path.dir \in Language
    BY DEF PlainTones, MediaInv, MediaTyped, DiskHolds
  <2> QED BY <2>1 DEF ImportKey, MediaPath
<1>4. \A path \in PlainTones : path \in DOMAIN tones /\ path \in MediaPath /\ tones[path] \in Nat
  BY DEF PlainTones, MediaInv, MediaTyped, DiskHolds
<1> HIDE DEF keys
<1>5. \A key \in DOMAIN sounds' :
           sounds'[key] = IF key \in keys THEN [file |-> take[key], of |-> tones[take[key]]]
                          ELSE sounds[key]
  BY <1>2 DEF Adding
<1>6. \A key \in DOMAIN sounds' : key \in keys \/ key \in DOMAIN sounds
  BY <1>2 DEF Adding
<1>7. ASSUME NEW key \in DOMAIN sounds'
      PROVE  /\ key \in Language \X Base /\ sounds'[key] \in SoundRow
             /\ sounds'[key].file \in DOMAIN tones /\ tones[sounds'[key].file] = sounds'[key].of
  <2>1. CASE key \in keys
    <3>1. PICK path : path = take[key]
      OBVIOUS
    <3>2. path \in PlainTones
      BY <1>2, <2>1, <3>1
    <3>3. sounds'[key] = [file |-> path, of |-> tones[path]]
      BY <1>5, <2>1, <3>1
    <3> QED BY <1>3, <1>4, <2>1, <3>2, <3>3 DEF SoundRow
  <2>2. CASE key \notin keys
    BY <1>5, <1>6, <2>2 DEF MediaInv, MediaTyped, SoundsAreTheirs
  <2> QED BY <2>1, <2>2
<1> QED BY <1>1, <1>7, SoundRowsStep

LEMMA MediaStep == MediaInv /\ [MediaNext]_mediaVars => MediaInv'
<1> SUFFICES ASSUME MediaInv, [MediaNext]_mediaVars PROVE MediaInv'
  OBVIOUS
<1>1. CASE UNCHANGED mediaVars
  BY <1>1 DEF mediaVars, MediaInv, MediaTyped, DiskHolds, EntriesKept, EntriesAreOne,
     EntriesHaveClass, SoundsAreTheirs
<1>2. CASE MediaNext
  BY <1>2, SaveClassStep, DeleteClassStep, UploadEntryStep, PlaylistStep, ImportClassesStep,
     UploadSoundStep, PlaceToneStep, RenameSoundStep, DeleteSoundStep, ImportSoundsStep
     DEF MediaNext
<1> QED BY <1>1, <1>2

\* What the invariant says of the properties that are checked.
LEMMA MediaMeans == MediaInv => MediaConsistent /\ MediaTypeOK
<1> SUFFICES ASSUME MediaInv PROVE MediaConsistent /\ MediaTypeOK
  OBVIOUS
<1>1. MusicReadAsWritten
  <2>1. NewSections(MusicSections) = {}
    BY DEF NewSections, MusicSections
  <2>2. ASSUME NEW name \in DOMAIN classes, classes[name].mode = "files"
        PROVE  /\ ReadClass(MusicSections[name]).sort = classes[name].sort
               /\ DirectoryOf(ReadClass(MusicSections[name])) = DirectoryOf(classes[name])
    BY <2>2 DEF ReadClass, MusicSections, DirectoryOf
  <2> QED BY <2>1, <2>2 DEF MusicReadAsWritten
<1>2. MediaTypeOK
  <2>1. Range(sounds) \subseteq SoundRow
    BY DEF Range, MediaInv, MediaTyped
  <2> QED BY <2>1 DEF MediaTypeOK, MediaInv, MediaTyped, ClassRow, PlaylistRow, SoundRow, DiskHolds
<1>3. EntriesPlayTheirs
  <2> SUFFICES ASSUME NEW e \in DOMAIN playlist, playlist[e].file # NoMedia
               PROVE  /\ playlist[e].of \in {music[path] : path \in Heard(e)}
                      /\ \A path \in Heard(e) :
                           music[path] = playlist[e].of \/ path.ext # playlist[e].file.ext
    BY DEF EntriesPlayTheirs
  <2>1. PICK f : f = playlist[e].file
    OBVIOUS
  <2>2. f \in DOMAIN music /\ music[f] = playlist[e].of
    BY <2>1 DEF MediaInv, EntriesKept
  <2>3. f \in Heard(e)
    BY <2>1, <2>2 DEF Heard, PlayedBy
  <2>4. ASSUME NEW path \in Heard(e), path.ext = f.ext
        PROVE  path = f
    <3>1. path \in MediaPath /\ f \in MediaPath
      BY <2>2 DEF Heard, MediaInv, MediaTyped, DiskHolds
    <3>2. path.dir = f.dir /\ path.base = f.base /\ path.n = f.n
      BY <2>1 DEF Heard, PlayedBy, Stem
    <3> QED BY <2>4, <3>1, <3>2 DEF MediaPath
  <2> QED BY <2>1, <2>2, <2>3, <2>4
<1> QED BY <1>1, <1>2, <1>3 DEF MediaInv, MediaConsistent

-----------------------------------------------------------------------------
(* The rows of a table (Maps). *)

\* What one INSERT or UPDATE leaves of a table.
LEMMA WithRow ==
  ASSUME NEW f, NEW key, NEW value
  PROVE  /\ DOMAIN With(f, key, value) = DOMAIN f \cup {key}
         /\ With(f, key, value)[key] = value
         /\ \A k \in DOMAIN f \ {key} : With(f, key, value)[k] = f[k]
BY DEF With

\* What a DELETE leaves.
LEMMA WithoutRow ==
  ASSUME NEW f, NEW key
  PROVE  /\ DOMAIN Without(f, key) = DOMAIN f \ {key}
         /\ \A k \in DOMAIN f \ {key} : Without(f, key)[k] = f[k]
BY DEF Without, Restrict

-----------------------------------------------------------------------------
(* The webhooks between the database and Redis. *)

\* A request that has written holds what Redis has; whoever has read and is not late
\* will write what it is about to commit.
SyncedInv ==
  excuse = {} =>
    /\ \A r, s \in Editor : pc[r] = "written" /\ pc[s] = "written" => r = s
    /\ (\A s \in Editor : pc[s] \in {"idle", "written"}) =>
         \A r \in Editor : pc[r] = "written" => redis = Serialized(View(r))
    /\ Quiet => redis = Serialized(db)

\* Who has read, and is not late, has read what he is about to commit.
ReadersInv ==
  \A r \in Editor : pc[r] = "read" /\ ~stale[r] => snapshot[r] = Serialized(View(r))

\* The shape of the variables.
SyncShape ==
  /\ db = [webhooks |-> db.webhooks, users |-> db.users, wss |-> db.wss, names |-> db.names]
  /\ DOMAIN change = Editor /\ DOMAIN snapshot = Editor
  /\ pc \in [Editor -> {"idle", "saved", "read", "written"}]
  /\ stage \in [Editor -> 1 .. 2] /\ stale \in [Editor -> BOOLEAN]

LEMMA AppliedShape ==
  ASSUME NEW d, NEW c, NEW s,
         d = [webhooks |-> d.webhooks, users |-> d.users, wss |-> d.wss, names |-> d.names]
  PROVE  LET e == Applied(d, c, s) IN
         /\ e = [webhooks |-> e.webhooks, users |-> e.users, wss |-> e.wss, names |-> e.names]
         /\ e.wss = d.wss /\ e.names = d.names
         /\ c.op \in {"user", "leave"} => e.webhooks = d.webhooks
         /\ c.op \notin {"webhook", "unhook", "user", "leave"} => e = d
BY DEF Applied

SyncInv == SyncShape /\ ReadersInv /\ SyncedInv

LEMMA SyncShapeStep ==
  ASSUME SyncShape, [SyncNext]_syncVars
  PROVE  SyncShape'
<1>1. ASSUME NEW r \in Editor, NEW c \in Ops, SaveRow(r, c) PROVE SyncShape'
  BY <1>1 DEF SyncShape, SaveRow
<1>2. ASSUME NEW r \in Editor, NEW c \in Ops, SaveUsername(r, c) PROVE SyncShape'
  <2>1. db' = Applied(db, c, 1)
    BY <1>2 DEF SaveUsername
  <2>2. db' = [webhooks |-> db'.webhooks, users |-> db'.users, wss |-> db'.wss, names |-> db'.names]
    BY <2>1, AppliedShape DEF SyncShape
  <2>3. stale' \in [Editor -> BOOLEAN]
    BY <1>2 DEF SaveUsername, Overtakes, SyncShape
  <2> QED BY <1>2, <2>2, <2>3 DEF SyncShape, SaveUsername
<1>3. ASSUME NEW r \in Editor, Serialize(r) PROVE SyncShape'
  BY <1>3 DEF SyncShape, Serialize
<1>4. ASSUME NEW r \in Editor, WriteConfig(r) \/ WriteConfigFails(r) PROVE SyncShape'
  BY <1>4 DEF SyncShape, WriteConfig, WriteConfigFails
<1>5. ASSUME NEW r \in Editor, SaveFilters(r) PROVE SyncShape'
  BY <1>5 DEF SyncShape, SaveFilters
<1>6. ASSUME NEW r \in Editor, CommitChange(r) PROVE SyncShape'
  <2>1. db' = Applied(db, change[r], stage[r])
    BY <1>6 DEF CommitChange, View
  <2>2. db' = [webhooks |-> db'.webhooks, users |-> db'.users, wss |-> db'.wss, names |-> db'.names]
    BY <2>1, AppliedShape DEF SyncShape
  <2>3. stale' \in [Editor -> BOOLEAN]
    BY <1>6 DEF CommitChange, Overtakes, SyncShape
  <2> QED BY <1>6, <2>2, <2>3 DEF SyncShape, CommitChange, FinishChange
<1>7. ASSUME NEW r \in Editor, RollBack(r) PROVE SyncShape'
  BY <1>7 DEF SyncShape, RollBack, FinishChange
<1>8. ASSUME NEW k \in Key, Rename(k) PROVE SyncShape'
  BY <1>8 DEF SyncShape, Rename, Unwatched
<1>9. ASSUME NEW k \in Key, DropRow(k) PROVE SyncShape'
  BY <1>9 DEF SyncShape, DropRow, Unwatched
<1>10. ASSUME NEW x \in SipTransport, SetProtocol(x) PROVE SyncShape'
  BY <1>10 DEF SyncShape, SetProtocol, Unwatched
<1>11. CASE UNCHANGED syncVars
  BY <1>11 DEF SyncShape, syncVars
<1> QED
  BY <1>1, <1>2, <1>3, <1>4, <1>5, <1>6, <1>7, <1>8, <1>9, <1>10, <1>11 DEF SyncNext

\* What does not commit and does not touch a request's change leaves its view.
LEMMA ViewKept ==
  ASSUME NEW r \in Editor, db' = db, change'[r] = change[r], stage'[r] = stage[r]
  PROVE  View(r)' = View(r)
BY DEF View

LEMMA ReadersStep ==
  ASSUME SyncShape, ReadersInv, SyncNext
  PROVE  ReadersInv'
<1> SUFFICES ASSUME NEW s \in Editor, pc'[s] = "read", ~stale'[s]
             PROVE  snapshot'[s] = Serialized(View(s)')
  BY DEF ReadersInv
<1>0. ASSUME pc[s] = "read", ~stale[s], snapshot'[s] = snapshot[s], db' = db,
             change'[s] = change[s], stage'[s] = stage[s]
      PROVE  snapshot'[s] = Serialized(View(s)')
  BY <1>0, ViewKept DEF ReadersInv
<1>1. ASSUME NEW r \in Editor, NEW c \in Ops, SaveRow(r, c)
      PROVE  snapshot'[s] = Serialized(View(s)')
  <2>1. r # s
    BY <1>1 DEF SaveRow, SyncShape
  <2> QED BY <1>0, <1>1, <2>1 DEF SaveRow, SyncShape
<1>2. ASSUME NEW r \in Editor, NEW c \in Ops, SaveUsername(r, c)
      PROVE  snapshot'[s] = Serialized(View(s)')
  <2>1. r # s
    BY <1>2 DEF SaveUsername, SyncShape
  <2>2. pc[s] = "read"
    BY <1>2, <2>1 DEF SaveUsername, SyncShape
  <2>3. stale'[s]
    BY <1>2, <2>1, <2>2 DEF SaveUsername, Overtakes
  <2> QED BY <2>3
<1>3. ASSUME NEW r \in Editor, Serialize(r)
      PROVE  snapshot'[s] = Serialized(View(s)')
  <2>1. CASE r = s
    <3>1. snapshot'[s] = Serialized(View(s))
      BY <1>3, <2>1 DEF Serialize, Seen, SyncShape
    <3> QED BY <3>1, <1>3, ViewKept DEF Serialize
  <2>2. CASE r # s
    BY <1>0, <1>3, <2>2 DEF Serialize, SyncShape
  <2> QED BY <2>1, <2>2
<1>4. ASSUME NEW r \in Editor, WriteConfig(r) \/ WriteConfigFails(r)
      PROVE  snapshot'[s] = Serialized(View(s)')
  <2>1. r # s
    BY <1>4 DEF WriteConfig, WriteConfigFails, SyncShape
  <2> QED BY <1>0, <1>4, <2>1 DEF WriteConfig, WriteConfigFails, SyncShape
<1>5. ASSUME NEW r \in Editor, SaveFilters(r)
      PROVE  snapshot'[s] = Serialized(View(s)')
  <2>1. r # s
    BY <1>5 DEF SaveFilters, SyncShape
  <2> QED BY <1>0, <1>5, <2>1 DEF SaveFilters, SyncShape
<1>6. ASSUME NEW r \in Editor, CommitChange(r)
      PROVE  snapshot'[s] = Serialized(View(s)')
  <2>1. r # s
    BY <1>6 DEF CommitChange, FinishChange, SyncShape
  <2>2. pc[s] = "read"
    BY <1>6, <2>1 DEF CommitChange, FinishChange, SyncShape
  <2>3. stale'[s]
    BY <1>6, <2>1, <2>2 DEF CommitChange, Overtakes
  <2> QED BY <2>3
<1>7. ASSUME NEW r \in Editor, RollBack(r)
      PROVE  snapshot'[s] = Serialized(View(s)')
  <2>1. r # s
    BY <1>7 DEF RollBack, FinishChange, SyncShape
  <2> QED BY <1>0, <1>7, <2>1 DEF RollBack, FinishChange, SyncShape
<1>8. ASSUME NEW d, Unwatched(d)
      PROVE  snapshot'[s] = Serialized(View(s)')
  BY <1>8 DEF Unwatched, Quiet
<1> QED
  BY <1>1, <1>2, <1>3, <1>4, <1>5, <1>6, <1>7, <1>8 DEF SyncNext, Rename, DropRow, SetProtocol

LEMMA SyncedStep ==
  ASSUME SyncShape, ReadersInv, SyncedInv, SyncNext
  PROVE  SyncedInv'
<1> SUFFICES ASSUME excuse' = {} PROVE SyncedInv'
  BY DEF SyncedInv
<1>1. ASSUME NEW r \in Editor, NEW c \in Ops, SaveRow(r, c) \/ SaveUsername(r, c)
      PROVE  SyncedInv'
  <2>1. excuse = {} /\ pc' = [pc EXCEPT ![r] = "saved"]
    BY <1>1 DEF SaveRow, SaveUsername
  <2>2. pc'[r] = "saved"
    BY <2>1 DEF SyncShape
  <2>3. \A s \in Editor : pc'[s] = "written" => pc[s] = "written"
    BY <2>1 DEF SyncShape
  <2> QED BY <2>1, <2>2, <2>3 DEF SyncedInv, Quiet
<1>2. ASSUME NEW r \in Editor, Serialize(r) \/ SaveFilters(r)
      PROVE  SyncedInv'
  <2>1. excuse = {} /\ \E to \in {"saved", "read"} : pc' = [pc EXCEPT ![r] = to]
    BY <1>2 DEF Serialize, SaveFilters
  <2>2. pc'[r] \in {"saved", "read"}
    BY <2>1 DEF SyncShape
  <2>3. \A s \in Editor : pc'[s] = "written" => pc[s] = "written"
    BY <2>1 DEF SyncShape
  <2> QED BY <2>1, <2>2, <2>3 DEF SyncedInv, Quiet
<1>3. ASSUME NEW r \in Editor, WriteConfig(r)
      PROVE  SyncedInv'
  <2>1. ~Crossed(r)
    BY <1>3 DEF WriteConfig
  <2>2. ~stale[r] /\ \A s \in Others(r) : pc[s] \notin {"read", "written"}
    BY <2>1 DEF Crossed
  <2>3. redis' = Serialized(View(r))
    BY <1>3, <2>2 DEF WriteConfig, ReadersInv
  <2>4. pc'[r] = "written" /\ \A s \in Editor \ {r} : pc'[s] # "written"
    BY <1>3, <2>2 DEF WriteConfig, Others, SyncShape
  <2>5. View(r)' = View(r)
    BY <1>3, ViewKept DEF WriteConfig
  <2> QED BY <2>3, <2>4, <2>5 DEF SyncedInv, Quiet
<1>4. ASSUME NEW r \in Editor, WriteConfigFails(r) \/ RollBack(r)
      PROVE  FALSE
  BY <1>4 DEF WriteConfigFails, RollBack
<1>5. ASSUME NEW r \in Editor, CommitChange(r)
      PROVE  SyncedInv'
  <2>1. excuse = {} /\ pc' = [pc EXCEPT ![r] = "idle"] /\ pc[r] = "written"
    BY <1>5 DEF CommitChange, FinishChange
  <2>2. \A s \in Editor : pc'[s] # "written"
    BY <2>1 DEF SyncedInv, SyncShape
  <2>3. ASSUME Quiet' PROVE redis' = Serialized(db)'
    <3>1. \A s \in Editor : pc[s] \in {"idle", "written"}
      BY <2>1, <2>3 DEF Quiet, SyncShape
    <3>2. redis = Serialized(View(r))
      BY <2>1, <3>1 DEF SyncedInv
    <3> QED BY <3>2, <1>5 DEF CommitChange
  <2> QED BY <2>2, <2>3 DEF SyncedInv
<1>6. ASSUME NEW d, Unwatched(d)
      PROVE  FALSE
  BY <1>6 DEF Unwatched
<1> QED
  BY <1>1, <1>2, <1>3, <1>4, <1>5, <1>6 DEF SyncNext, Rename, DropRow, SetProtocol

\* What a request is about to commit is as it was accepted; the database is typed.
PendingInv ==
  \A r \in Editor :
    /\ change[r].op \in {"webhook", "unhook", "user", "leave", "none", "done"}
    /\ change[r].op = "webhook" =>
         change[r].row \in Webhook /\ change[r].form \in Forms /\ FormAccepts(change[r].form)
    /\ change[r].op = "user" =>
         /\ change[r].row \in User /\ change[r].transport \in SipTransport
         /\ change[r].table \in DOMAIN db.names
    /\ change[r].op # "done" => change[r] \in Ops \cup {NoChange}
    /\ pc[r] = "idle" => change[r] = NoChange

RowsTyped ==
  /\ \A w \in DOMAIN db.webhooks : w \in Webhook /\ db.webhooks[w] \in Forms
  /\ \A u \in DOMAIN db.users : u \in User /\ db.users[u].table \in DOMAIN db.names
  /\ db.wss \subseteq SipTransport
  /\ DOMAIN db.names \subseteq Key /\ db.names \in [DOMAIN db.names -> {0, 1}]

CountsTyped ==
  changes \in 0 .. MaxChanges /\ excuse \subseteq {"crossed", "failed", "rolled back", "unwatched"}

\* What a change that can be made makes of the rows.
LEMMA AppliedRows ==
  ASSUME SyncShape, RowsTyped, FiltersStayUseful,
         NEW c, NEW s \in 1 .. 2, db' = Applied(db, c, s),
         c.op = "webhook" =>
           /\ c.row \in Webhook /\ c.form \in Forms /\ FormAccepts(c.form) /\ s = 2,
         c.op = "user" => c.row \in User /\ c.table \in DOMAIN db.names
  PROVE  RowsTyped' /\ FiltersStayUseful' /\ db'.names = db.names
<1> DEFINE row == [events |-> c.form.events, keys |-> c.form.keys]
           user == [table |-> c.table, transport |-> c.transport]
<1>0. db = [webhooks |-> db.webhooks, users |-> db.users, wss |-> db.wss, names |-> db.names]
  BY DEF SyncShape
<1>1. CASE c.op = "webhook"
  <2>1. row \in Forms
    BY <1>1 DEF Forms
  <2>2. /\ db'.webhooks = With(db.webhooks, c.row, row) /\ db'.users = db.users
        /\ db'.wss = db.wss /\ db'.names = db.names
    BY <1>0, <1>1 DEF Applied
  <2>3. /\ DOMAIN db'.webhooks = DOMAIN db.webhooks \cup {c.row}
        /\ db'.webhooks[c.row] = row
        /\ \A w \in DOMAIN db.webhooks \ {c.row} : db'.webhooks[w] = db.webhooks[w]
    BY <2>2 DEF With
  <2>4. RowsTyped'
    BY <1>1, <2>1, <2>2, <2>3 DEF RowsTyped
  <2>5. /\ row.events \cap {"missed", "answered"} # {} => row.keys \cap Queue # {}
        /\ row.events \cap Outgoing # {} => row.keys \cap RoutingTable # {}
    BY <1>1 DEF FormAccepts
  <2>6. FiltersStayUseful'
    BY <2>2, <2>3, <2>5 DEF FiltersStayUseful
  <2> QED BY <2>2, <2>4, <2>6
<1>2. CASE c.op = "unhook"
  <2>1. /\ db'.webhooks = Without(db.webhooks, c.row) /\ db'.users = db.users
        /\ db'.wss = db.wss /\ db'.names = db.names
    BY <1>0, <1>2 DEF Applied
  <2>2. /\ DOMAIN db'.webhooks = DOMAIN db.webhooks \ {c.row}
        /\ \A w \in DOMAIN db'.webhooks : db'.webhooks[w] = db.webhooks[w]
    BY <2>1 DEF Without, Restrict
  <2> QED BY <2>1, <2>2 DEF RowsTyped, FiltersStayUseful
<1>3. CASE c.op = "user"
  <2>1. /\ db'.webhooks = db.webhooks /\ db'.users = With(db.users, c.row, user)
        /\ db'.wss = db.wss /\ db'.names = db.names
    BY <1>0, <1>3 DEF Applied
  <2>2. /\ DOMAIN db'.users = DOMAIN db.users \cup {c.row}
        /\ db'.users[c.row] = user
        /\ \A u \in DOMAIN db.users \ {c.row} : db'.users[u] = db.users[u]
    BY <2>1 DEF With
  <2> QED BY <1>3, <2>1, <2>2 DEF RowsTyped, FiltersStayUseful
<1>4. CASE c.op = "leave"
  <2>1. /\ db'.webhooks = db.webhooks /\ db'.users = Without(db.users, c.row)
        /\ db'.wss = db.wss /\ db'.names = db.names
    BY <1>0, <1>4 DEF Applied
  <2>2. /\ DOMAIN db'.users = DOMAIN db.users \ {c.row}
        /\ \A u \in DOMAIN db'.users : db'.users[u] = db.users[u]
    BY <2>1 DEF Without, Restrict
  <2> QED BY <2>1, <2>2 DEF RowsTyped, FiltersStayUseful
<1>5. CASE c.op \notin {"webhook", "unhook", "user", "leave"}
  <2>1. db' = db
    BY <1>5 DEF Applied
  <2> QED BY <2>1 DEF RowsTyped, FiltersStayUseful
<1> QED BY <1>1, <1>2, <1>3, <1>4, <1>5

LEMMA OpsTyped ==
  ASSUME NEW c \in Ops, Possible(c)
  PROVE  /\ c.op \in {"webhook", "unhook", "user", "leave"}
         /\ c.op = "webhook" => c.row \in Webhook /\ c.form \in Forms /\ FormAccepts(c.form)
         /\ c.op = "user" =>
              c.row \in User /\ c.transport \in SipTransport /\ c.table \in DOMAIN db.names
BY SyncAssumption DEF Ops, Possible

\* The rows stay, what is pending is asked of the same names.
LEMMA RowsUntouched ==
  ASSUME db' = db, RowsTyped, FiltersStayUseful
  PROVE  RowsTyped' /\ FiltersStayUseful'
BY DEF RowsTyped, FiltersStayUseful

LEMMA RowsStep ==
  ASSUME SyncShape, RowsTyped, PendingInv, FiltersStayUseful, SyncNext
  PROVE  RowsTyped' /\ PendingInv' /\ FiltersStayUseful'
<1>0. NoChange.op = "none" /\ NoChange \in Ops \cup {NoChange}
  BY DEF NoChange
<1>1. ASSUME NEW r \in Editor, NEW c \in Ops, SaveRow(r, c)
      PROVE  RowsTyped' /\ PendingInv' /\ FiltersStayUseful'
  <2>1. PendingInv'
    BY <1>1, OpsTyped DEF SaveRow, PendingInv, SyncShape
  <2> QED BY <1>1, <2>1, RowsUntouched DEF SaveRow
<1>2. ASSUME NEW r \in Editor, NEW c \in Ops, SaveUsername(r, c)
      PROVE  RowsTyped' /\ PendingInv' /\ FiltersStayUseful'
  <2>1. c.op \in {"user", "leave"} /\ Possible(c) /\ db' = Applied(db, c, 1)
    BY <1>2 DEF SaveUsername
  <2>2. c.op = "user" => c.row \in User /\ c.table \in DOMAIN db.names
    BY <2>1, OpsTyped
  <2>3. RowsTyped' /\ FiltersStayUseful' /\ db'.names = db.names
    BY <2>1, <2>2, AppliedRows
  <2>4. change' = [change EXCEPT ![r] = [op |-> "done", row |-> c.row]]
    BY <1>2 DEF SaveUsername
  <2>5. PendingInv'
    BY <1>2, <2>3, <2>4 DEF SaveUsername, PendingInv, SyncShape
  <2> QED BY <2>3, <2>5
<1>3. ASSUME NEW r \in Editor,
             Serialize(r) \/ WriteConfig(r) \/ WriteConfigFails(r) \/ SaveFilters(r)
      PROVE  RowsTyped' /\ PendingInv' /\ FiltersStayUseful'
  <2>1. db' = db /\ change' = change /\ pc[r] # "idle" /\ \A s \in Editor \ {r} : pc'[s] = pc[s]
    BY <1>3 DEF Serialize, WriteConfig, WriteConfigFails, SaveFilters, SyncShape
  <2>2. pc'[r] # "idle"
    BY <1>3 DEF Serialize, WriteConfig, WriteConfigFails, SaveFilters, SyncShape
  <2> QED BY <2>1, <2>2, RowsUntouched DEF PendingInv
<1>4. ASSUME NEW r \in Editor, CommitChange(r)
      PROVE  RowsTyped' /\ PendingInv' /\ FiltersStayUseful'
  <2>1. db' = Applied(db, change[r], stage[r]) /\ stage[r] \in 1 .. 2
    BY <1>4 DEF CommitChange, View, SyncShape
  <2>2. RowsTyped' /\ FiltersStayUseful' /\ db'.names = db.names
    <3>1. change[r].op = "webhook" =>
            /\ change[r].row \in Webhook /\ change[r].form \in Forms
            /\ FormAccepts(change[r].form) /\ stage[r] = 2
      BY <1>4 DEF PendingInv, CommitChange
    <3>2. change[r].op = "user" => change[r].row \in User /\ change[r].table \in DOMAIN db.names
      BY DEF PendingInv
    <3>3. PICK c, s : c = change[r] /\ s = stage[r]
      OBVIOUS
    <3> QED BY <2>1, <3>1, <3>2, <3>3, AppliedRows
  <2>3. PendingInv'
    BY <1>0, <1>4, <2>2 DEF CommitChange, FinishChange, PendingInv, SyncShape
  <2> QED BY <2>2, <2>3
<1>5. ASSUME NEW r \in Editor, RollBack(r)
      PROVE  RowsTyped' /\ PendingInv' /\ FiltersStayUseful'
  <2>1. PendingInv'
    BY <1>0, <1>5 DEF RollBack, FinishChange, PendingInv, SyncShape
  <2> QED BY <1>5, <2>1, RowsUntouched DEF RollBack
<1>6. ASSUME NEW k \in Key, Rename(k)
      PROVE  RowsTyped' /\ PendingInv' /\ FiltersStayUseful'
  <2>1. k \in DOMAIN db.names /\ db' = [db EXCEPT !.names[k] = 1 - @] /\ change' = change
        /\ pc' = pc
    BY <1>6 DEF Rename, Unwatched
  <2>2. /\ db'.webhooks = db.webhooks /\ db'.users = db.users /\ db'.wss = db.wss
        /\ db'.names = [db.names EXCEPT ![k] = 1 - @]
    BY <2>1 DEF SyncShape
  <2>3. DOMAIN db'.names = DOMAIN db.names /\ db'.names \in [DOMAIN db.names -> {0, 1}]
    BY <2>1, <2>2 DEF RowsTyped
  <2>4. RowsTyped'
    BY <2>2, <2>3 DEF RowsTyped
  <2>5. PendingInv'
    BY <2>1, <2>3 DEF PendingInv
  <2> QED BY <2>2, <2>3, <2>4, <2>5 DEF FiltersStayUseful
<1>7. ASSUME NEW k \in Key, DropRow(k)
      PROVE  RowsTyped' /\ PendingInv' /\ FiltersStayUseful'
  <2> DEFINE left == Unfiltered(k)
  <2>1. MayDrop(k) /\ Quiet /\ change' = change /\ pc' = pc
    BY <1>7 DEF DropRow, Unwatched
  <2>2. /\ db'.webhooks = left /\ db'.users = db.users /\ db'.wss = db.wss
        /\ db'.names = Without(db.names, k)
    BY <1>7 DEF DropRow, Unwatched, SyncShape
  <2>3. /\ DOMAIN db'.names = DOMAIN db.names \ {k}
        /\ db'.names \in [DOMAIN db'.names -> {0, 1}]
    BY <2>2 DEF Without, Restrict, RowsTyped
  <2>4. \A w \in DOMAIN left :
          /\ left[w] \in Forms /\ left[w].events = db.webhooks[w].events
          /\ left[w].keys = db.webhooks[w].keys \ {k}
    BY DEF Unfiltered, RowsTyped, Forms
  <2>5. RowsTyped'
    BY <2>1, <2>2, <2>3, <2>4 DEF Unfiltered, RowsTyped, MayDrop
  <2>6. FiltersStayUseful'
    <3> SUFFICES ASSUME Queue \subseteq DOMAIN db'.names, NEW w \in DOMAIN db'.webhooks
                 PROVE  LET f == db'.webhooks[w] IN
                        /\ f.events \cap {"missed", "answered"} # {} => f.keys \cap Queue # {}
                        /\ f.events \cap Outgoing # {} => f.keys \cap RoutingTable # {}
      BY DEF FiltersStayUseful
    <3>1. Queue \subseteq DOMAIN db.names /\ k \notin Queue
      BY <2>3
    <3>2. db'.webhooks[w].keys = db.webhooks[w].keys /\ db'.webhooks[w].events = db.webhooks[w].events
      <4>1. w \in DOMAIN db.webhooks /\ w \in DOMAIN left
        BY <2>2 DEF Unfiltered
      <4>2. k \notin db.webhooks[w].keys
        BY <2>1, <3>1, <4>1 DEF MayDrop
      <4>3. db.webhooks[w].keys \ {k} = db.webhooks[w].keys
        BY <4>2
      <4> HIDE DEF left
      <4> QED BY <2>2, <2>4, <4>1, <4>3
    <3>3. w \in DOMAIN db.webhooks
      BY <2>2 DEF Unfiltered
    <3> QED BY <3>1, <3>2, <3>3 DEF FiltersStayUseful
  <2>7. PendingInv'
    BY <2>1, <1>0 DEF PendingInv, Quiet
  <2> QED BY <2>5, <2>6, <2>7
<1>8. ASSUME NEW x \in SipTransport, SetProtocol(x)
      PROVE  RowsTyped' /\ PendingInv' /\ FiltersStayUseful'
  <2>1. /\ db'.webhooks = db.webhooks /\ db'.users = db.users /\ db'.names = db.names
        /\ db'.wss \subseteq db.wss \cup {x} /\ change' = change /\ pc' = pc
    BY <1>8 DEF SetProtocol, Unwatched, SyncShape
  <2> QED BY <2>1 DEF RowsTyped, PendingInv, FiltersStayUseful
<1> QED
  BY <1>1, <1>2, <1>3, <1>4, <1>5, <1>6, <1>7, <1>8 DEF SyncNext

LEMMA CountsStep ==
  ASSUME CountsTyped, SyncNext
  PROVE  CountsTyped'
<1>1. CountedChange => changes' \in 0 .. MaxChanges
  <2>1. MaxChanges \in Nat /\ (CountsTyped => changes \in 0 .. MaxChanges)
    BY SyncAssumption DEF CountsTyped
  <2> QED BY <2>1 DEF CountedChange
<1>2. ASSUME NEW r \in Editor, NEW c \in Ops, SaveRow(r, c) \/ SaveUsername(r, c)
      PROVE  CountsTyped'
  BY <1>1, <1>2 DEF SaveRow, SaveUsername, CountsTyped
<1>3. ASSUME NEW r \in Editor,
             Serialize(r) \/ WriteConfig(r) \/ WriteConfigFails(r) \/ SaveFilters(r)
               \/ CommitChange(r) \/ RollBack(r)
      PROVE  CountsTyped'
  BY <1>3 DEF Serialize, WriteConfig, WriteConfigFails, SaveFilters, CommitChange, RollBack,
    CountsTyped
<1>4. ASSUME NEW d, Unwatched(d)
      PROVE  CountsTyped'
  BY <1>1, <1>4 DEF Unwatched, CountsTyped
<1> QED
  BY <1>2, <1>3, <1>4 DEF SyncNext, Rename, DropRow, SetProtocol

\* All of it.
SyncedAlways ==
  SyncShape /\ ReadersInv /\ SyncedInv /\ RowsTyped /\ PendingInv /\ FiltersStayUseful /\ CountsTyped

LEMMA SyncInitially == SyncInit => SyncedAlways
<1> SUFFICES ASSUME SyncInit PROVE SyncedAlways
  OBVIOUS
<1>1. SyncShape
  BY DEF SyncInit, SyncShape, Empty
<1>2. ReadersInv /\ SyncedInv
  BY DEF SyncInit, ReadersInv, SyncedInv
<1>3. RowsTyped /\ FiltersStayUseful
  BY DEF SyncInit, RowsTyped, FiltersStayUseful, Empty
<1>4. PendingInv
  BY DEF SyncInit, PendingInv, NoChange
<1>5. CountsTyped
  BY SyncAssumption DEF SyncInit, CountsTyped
<1> QED BY <1>1, <1>2, <1>3, <1>4, <1>5 DEF SyncedAlways

LEMMA SyncedNext == SyncedAlways /\ [SyncNext]_syncVars => SyncedAlways'
<1> SUFFICES ASSUME SyncedAlways, [SyncNext]_syncVars PROVE SyncedAlways'
  OBVIOUS
<1>1. CASE SyncNext
  BY <1>1, SyncShapeStep, ReadersStep, SyncedStep, RowsStep, CountsStep DEF SyncedAlways
<1>2. CASE UNCHANGED syncVars
  <2>1. SyncShape'
    BY SyncShapeStep DEF SyncedAlways
  <2>2. ReadersInv' /\ SyncedInv'
    BY <1>2 DEF syncVars, SyncedAlways, ReadersInv, SyncedInv, Quiet, View
  <2>3. RowsTyped' /\ PendingInv' /\ FiltersStayUseful' /\ CountsTyped'
    BY <1>2 DEF syncVars, SyncedAlways, RowsTyped, PendingInv, FiltersStayUseful, CountsTyped
  <2> QED BY <2>1, <2>2, <2>3 DEF SyncedAlways
<1> QED BY <1>1, <1>2

LEMMA SyncedMeans == SyncedAlways => ConfigIsCurrent /\ FiltersStayUseful /\ SyncTypeOK
<1> SUFFICES ASSUME SyncedAlways PROVE ConfigIsCurrent /\ FiltersStayUseful /\ SyncTypeOK
  OBVIOUS
<1>1. ConfigIsCurrent
  BY DEF SyncedAlways, SyncedInv, ConfigIsCurrent
<1>2. Range(db.names) \subseteq {0, 1}
  BY DEF SyncedAlways, RowsTyped, Range
<1>3. \A r \in Editor : change[r].op = "done" \/ change[r] \in Ops \cup {NoChange}
  BY DEF SyncedAlways, PendingInv
<1>4. SyncTypeOK
  BY <1>2, <1>3 DEF SyncedAlways, SyncShape, RowsTyped, CountsTyped, SyncTypeOK
<1> QED BY <1>1, <1>4 DEF SyncedAlways
===========================================================================
