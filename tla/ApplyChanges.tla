---------------------------- MODULE ApplyChanges ----------------------------
(***************************************************************************)
(* Apply Changes (pbx/admin.py, apps/api/views/config.py): the files for   *)
(* Asterisk are generated from the database, stored as new versions in one *)
(* transaction, written to disk before it commits, and loaded.  The web    *)
(* page, the API and the management command do the same; the API alone     *)
(* takes a lock in Redis, which expires.  Staff may meanwhile edit the     *)
(* database and the stored files.                                          *)
(* A file's content is the number of the edit it shows, or one of the      *)
(* staff's own.  PostgreSQL reads what is committed; an insert that another*)
(* transaction has made waits for it.                                      *)
(***************************************************************************)
EXTENDS Integers, FiniteSets, FiniteSetsExt

CONSTANTS
  Apply,        \* the applies, one request each
  Path,         \* the paths of the files
  PathOrder,    \* the place of each among all of them, sorted
  GenOrder,     \* the place of each generated one among those
  BaseName,     \* the last part of a path
  Offered,      \* <<name, path>> that staff gives to a file
  StaffContent, \* what staff writes into one
  MaxEdits,     \* bound: changes of the configuration
  MaxMishaps    \* bound: failures, and files saved by staff

Generated == DOMAIN GenOrder
None == -1
Cut == -2     \* what a write leaves that does not end: open has emptied the file
Content == 0 .. MaxEdits \cup StaffContent
NoApply == "none"
NameOfFile == {BaseName[f] : f \in Path} \cup {o[1] : o \in Offered}

ASSUME ApplyAssumption ==
  /\ NoApply \notin Apply
  /\ IsFiniteSet(Path)
  /\ PathOrder \in [Path -> 1 .. Cardinality(Path)]
  /\ \A f, g \in Path : PathOrder[f] = PathOrder[g] => f = g
  /\ Generated \subseteq Path /\ GenOrder \in [Generated -> Nat]
  /\ BaseName \in [Path -> STRING]
  /\ Offered \subseteq STRING \X Path
  /\ MaxEdits \in Nat /\ MaxMishaps \in Nat
  /\ StaffContent \subseteq Nat \ (0 .. MaxEdits)

VARIABLES
  edits,      \* how often the configuration was changed
  files,      \* configuration_files, by primary key
  lastId,     \* the sequence of that key
  disk,       \* the files in ASTERISK_ROOT_DIR
  loaded,     \* what Asterisk has read
  lock,       \* apply_changes:lock, the apply whose token it holds
  job,        \* of each apply, where it is and what it has in memory
  applied,    \* history: what the last committed apply was to write
  mixed,      \* history: what came between: an apply, a save, a torn write
  mishaps     \* failures and files saved so far

applyVars == <<edits, files, lastId, disk, loaded, lock, job, applied, mixed, mishaps>>

Ended == {"done", "refused", "failed", "clashed"}
Stage == {"idle", "read", "version", "write", "reload"} \cup Ended

Row == [name : NameOfFile, path : Path, version : Nat \ {0}, content : Content,
        by : Apply \cup {NoApply}]

ApplyJob == [at : Stage, holds : BOOLEAN, late : BOOLEAN, stored : BOOLEAN,
             todo : SUBSET Path, plan : [Path -> Content \cup {None}], version : Nat,
             chosen : SUBSET Nat, write : SUBSET Row]

\* One invariant for the types of the variables.
ApplyTypeOK ==
  /\ edits \in 0 .. MaxEdits
  /\ lastId \in Nat /\ DOMAIN files \subseteq 1 .. lastId
  /\ files \in [DOMAIN files -> Row]
  /\ disk \in [Path -> Content \cup {None, Cut}]
  /\ loaded \in [Path -> Content \cup {None, Cut}]
  /\ applied \in [Path -> Content \cup {None}]
  /\ lock \in Apply \cup {NoApply}
  /\ job \in [Apply -> ApplyJob]
  /\ mixed \subseteq {"apply", "save", "torn"}
  /\ mishaps \in 0 .. MaxMishaps

NoContent == [f \in Path |-> None]

\* The job of an apply that is not in its section.
Outside(stage, late, stored) ==
  [at |-> stage, holds |-> FALSE, late |-> late, stored |-> stored, todo |-> {},
   plan |-> NoContent, version |-> 0, chosen |-> {}, write |-> {}]

\* Mutant of Clashes: name and version are not unique together.
ClashesNever(ids, r) == ids \cap {}

\* Rows with the name and version of r, which are unique together.
Clashes(ids, r) == {i \in ids : files[i].name = r.name /\ files[i].version = r.version}

FirstRow(f) ==
  [name |-> BaseName[f], path |-> f, version |-> 1, content |-> 0, by |-> NoApply]

\* A new installation, or one whose files were applied once.
ApplyInit ==
  /\ edits = 0
  /\ \E ids \in {{}, {PathOrder[f] : f \in Path}} :
       /\ files = [i \in ids |-> FirstRow(CHOOSE f \in Path : PathOrder[f] = i)]
       /\ \A i \in ids : Clashes(ids, files[i]) = {i}
       /\ lastId = IF ids = {} THEN 0 ELSE Cardinality(Path)
       /\ disk = [f \in Path |-> IF ids = {} THEN None ELSE 0]
  /\ loaded = disk /\ applied = disk
  /\ lock = NoApply
  /\ job = [p \in Apply |-> Outside("idle", FALSE, FALSE)]
  /\ mixed = {}
  /\ mishaps = 0

-----------------------------------------------------------------------------
(* The rows. *)

Committed == {i \in DOMAIN files : files[i].by = NoApply}
Sees(p) == {i \in DOMAIN files : files[i].by \in {NoApply, p}}

\* The rows of ids that have the highest version among them.
Newest(ids) == {i \in ids : \A j \in ids : files[j].version <= files[i].version}

OfPath(ids, f) == {i \in ids : files[i].path = f}
OfName(ids, n) == {i \in ids : files[i].name = n}

\* Mutant of NextVersion: the latest version is not counted up.
SameVersion(newest) == IF newest = {} THEN 1 ELSE files[Min(newest)].version

\* Mutant of NextVersion: versions are counted from zero.
VersionFromZero(newest) == IF newest = {} THEN 0 ELSE files[Min(newest)].version + 1

\* The version after those of the newest rows.
NextVersion(newest) == IF newest = {} THEN 1 ELSE files[Min(newest)].version + 1

NextId == lastId + 1

RowsWith(i, r) == [j \in DOMAIN files \cup {i} |-> IF j = i THEN r ELSE files[j]]
RowsWithout(ids) == [j \in DOMAIN files \ ids |-> files[j]]
RowsOf(ids) == {files[i] : i \in ids \cap DOMAIN files}

-----------------------------------------------------------------------------
(* The lock of the API. *)

InSection(p) == job[p].at \in {"read", "version", "write", "reload"}

Mishap == mishaps < MaxMishaps /\ mishaps' = mishaps + 1

\* Mutant of Released: the lock is deleted whoever holds it.
ReleasedAnyway(p) == IF job[p].holds THEN NoApply ELSE lock

\* What the release script leaves of the lock: it compares the token.
Released(p) == IF job[p].holds /\ lock = p THEN NoApply ELSE lock

\* The history after a change of the kind that comes while an apply is in its section.
CameBetween(kind) == mixed \cup {k \in {kind} : \E q \in Apply : InSection(q)}

\* The apply starts.
Enter(p, holds) ==
  /\ job' = [job EXCEPT ![p].at = "read", ![p].holds = holds, ![p].todo = Generated]
  /\ mixed' = CameBetween("apply")

\* The API takes the lock, is refused, or goes on without it if Redis is down; the
\* web page and the management command take none.
BeginApply(p) ==
  /\ job[p].at = "idle"
  /\ \/ lock = NoApply /\ lock' = p /\ Enter(p, TRUE) /\ UNCHANGED mishaps
     \/ /\ lock # NoApply
        /\ job' = [job EXCEPT ![p].at = "refused"]
        /\ UNCHANGED <<lock, mixed, mishaps>>
     \/ Enter(p, FALSE) /\ UNCHANGED <<lock, mishaps>>
  /\ UNCHANGED <<edits, files, lastId, disk, loaded, applied>>

\* Five minutes have passed.
Expire ==
  /\ lock # NoApply
  /\ Mishap
  /\ lock' = NoApply
  /\ job' = [job EXCEPT ![lock].late = TRUE]
  /\ UNCHANGED <<edits, files, lastId, disk, loaded, applied, mixed>>

-----------------------------------------------------------------------------
(* The steps of an apply. *)

\* One of the generators reads the database.
Generate(p) ==
  /\ job[p].at = "read"
  /\ \E f \in job[p].todo :
       /\ \A g \in job[p].todo : GenOrder[f] <= GenOrder[g]
       /\ job' = [job EXCEPT ![p].todo = @ \ {f}, ![p].plan[f] = edits]
  /\ UNCHANGED <<edits, files, lastId, disk, loaded, lock, applied, mixed, mishaps>>

\* The newest rows of each name: what get_latest_configuration_files returns.
LatestFiles == UNION {Newest(OfName(Committed, files[i].name)) : i \in Committed}

\* The other files are taken from the newest rows; two for one path overwrite each
\* other in no fixed order.  Then the transaction begins.
ReadFiles(p) ==
  /\ job[p].at = "read" /\ job[p].todo = {}
  /\ \E plan \in [Path -> Content \cup {None}] :
       /\ \A f \in Path :
            IF f \in Generated THEN plan[f] = job[p].plan[f]
            ELSE LET them == {files[i].content : i \in OfPath(LatestFiles, f)}
                 IN  plan[f] \in IF them = {} THEN {None} ELSE them
       /\ job' = [job EXCEPT ![p].at = "version", ![p].plan = plan,
                             ![p].todo = {f \in Path : plan[f] # None}]
  /\ UNCHANGED <<edits, files, lastId, disk, loaded, lock, applied, mixed, mishaps>>

Leave(p, stage) ==
  /\ job' = [job EXCEPT ![p] = Outside(stage, job[p].late, job[p].stored)]
  /\ lock' = Released(p)

\* Mutant of RolledBack: there is no transaction, and each row stays when stored.
RolledBackNot(p) ==
  files' = [i \in DOMAIN files |-> [files[i] EXCEPT !.by = IF @ = p THEN NoApply ELSE @]]

\* The transaction is rolled back.
RolledBack(p) == files' = RowsWithout({i \in DOMAIN files : files[i].by = p})

\* Mutant of Sorted: the files are not sorted.
SortedNot(todo, f) == f \in todo

\* _build_cfgfiles sorts the files by path: f comes first.
Sorted(todo, f) == f \in todo /\ \A g \in todo : PathOrder[f] <= PathOrder[g]

\* The latest version of a path, for the transaction of p.
Prev(p, f) == Newest(OfPath(Sees(p), f))

NewRow(p, f) ==
  [name |-> BaseName[f], path |-> f, version |-> job[p].version,
   content |-> job[p].plan[f], by |-> p]

Taken(p, f, i) ==
  job' = [job EXCEPT ![p].todo = @ \ {f}, ![p].version = 0, ![p].chosen = @ \cup {i}]

\* create_configuration_file looks for the latest version of its file: it is returned
\* if it has the content (any, of several with the same version), or a new one is due.
Compare(p) ==
  /\ job[p].at = "version" /\ job[p].version = 0
  /\ \E f \in job[p].todo :
       /\ Sorted(job[p].todo, f)
       /\ \/ \E i \in Prev(p, f) :
               files[i].content = job[p].plan[f] /\ Taken(p, f, i)
          \/ /\ \/ Prev(p, f) = {}
                \/ \E i \in Prev(p, f) : files[i].content # job[p].plan[f]
             /\ job' = [job EXCEPT ![p].version = NextVersion(Prev(p, f))]
  /\ UNCHANGED <<edits, files, lastId, disk, loaded, lock, applied, mixed, mishaps>>

\* The file whose new version p is to insert.
Inserts(p) ==
  {f \in job[p].todo : job[p].at = "version" /\ job[p].version > 0 /\ Sorted(job[p].todo, f)}

\* The other transactions for whose rows the insert of p has to wait.
Waits(p) ==
  {files[i].by : i \in UNION {Clashes(DOMAIN files \ Sees(p), NewRow(p, f)) : f \in Inserts(p)}}

\* The new version is inserted, unless its name and version exist by now.
InsertRow(p) ==
  /\ Waits(p) = {}
  /\ \E f \in Inserts(p) :
       IF Clashes(Sees(p), NewRow(p, f)) = {}
       THEN /\ files' = RowsWith(NextId, NewRow(p, f)) /\ lastId' = NextId
            /\ Taken(p, f, NextId) /\ UNCHANGED lock
       ELSE RolledBack(p) /\ Leave(p, "clashed") /\ UNCHANGED lastId
  /\ UNCHANGED <<edits, disk, loaded, applied, mixed, mishaps>>

\* The SystemConfiguration is stored, the directory backed up, and its rows are read:
\* those that are still there.
Backup(p) ==
  /\ job[p].at = "version" /\ job[p].todo = {}
  /\ job' = [job EXCEPT ![p].at = "write", ![p].write = RowsOf(job[p].chosen)]
  /\ UNCHANGED <<edits, files, lastId, disk, loaded, lock, applied, mixed, mishaps>>

\* apply_to_fs writes the next file, of the row that was read.
WriteFile(p) ==
  /\ job[p].at = "write"
  /\ \E row \in job[p].write :
       /\ disk' = [disk EXCEPT ![row.path] = row.content]
       /\ job' = [job EXCEPT ![p].write = @ \ {row}]
  /\ UNCHANGED <<edits, files, lastId, loaded, lock, applied, mixed, mishaps>>

\* The history after p ends while it writes: some of its files may be written.
Torn(p) ==
  mixed \cup {k \in {"torn"} : job[p].at = "write" /\ job[p].write # RowsOf(job[p].chosen)}

\* p ends between two files, or in the middle of one.
BreaksOff(p) ==
  \/ UNCHANGED disk /\ mixed' = Torn(p)
  \/ \E row \in job[p].write :
       disk' = [disk EXCEPT ![row.path] = Cut] /\ mixed' = mixed \cup {"torn"}

\* The files cannot be backed up or written, or a path is refused: the rows are
\* rolled back, what was written stays.
WriteFails(p) ==
  /\ job[p].at = "write"
  /\ Mishap
  /\ RolledBack(p) /\ Leave(p, "failed")
  /\ BreaksOff(p)
  /\ UNCHANGED <<edits, lastId, loaded, applied>>

\* Mutant of Commit: the apply ends before its last file is written.
CommitEarly(p) ==
  /\ job[p].at = "write"
  /\ job[p].chosen \subseteq DOMAIN files
  /\ files' = [i \in DOMAIN files |-> [files[i] EXCEPT !.by = IF @ = p THEN NoApply ELSE @]]
  /\ job' = [job EXCEPT ![p].at = "reload", ![p].stored = TRUE]
  /\ applied' = [f \in Path |-> IF job[p].plan[f] = None THEN applied[f]
                                ELSE job[p].plan[f]]
  /\ UNCHANGED <<edits, lastId, disk, loaded, lock, mixed, mishaps>>

\* The transaction commits.
Commit(p) ==
  /\ job[p].at = "write" /\ job[p].write = {}
  /\ job[p].chosen \subseteq DOMAIN files
  /\ files' = [i \in DOMAIN files |-> [files[i] EXCEPT !.by = IF @ = p THEN NoApply ELSE @]]
  /\ job' = [job EXCEPT ![p].at = "reload", ![p].stored = TRUE]
  /\ applied' = [f \in Path |-> IF job[p].plan[f] = None THEN applied[f]
                                ELSE job[p].plan[f]]
  /\ UNCHANGED <<edits, lastId, disk, loaded, lock, mixed, mishaps>>

\* A row of the SystemConfiguration was deleted meanwhile: the foreign key, which is
\* looked at when the transaction commits, fails it after its files are written.
CommitFails(p) ==
  /\ job[p].at = "write" /\ job[p].write = {}
  /\ ~ job[p].chosen \subseteq DOMAIN files
  /\ RolledBack(p) /\ Leave(p, "failed")
  /\ mixed' = Torn(p)
  /\ UNCHANGED <<edits, lastId, disk, loaded, applied, mishaps>>

\* Asterisk reads the files.
Reload(p) ==
  /\ job[p].at = "reload"
  /\ loaded' = disk
  /\ Leave(p, "done")
  /\ UNCHANGED <<edits, files, lastId, disk, applied, mixed, mishaps>>

\* It cannot be reached, and the user is told.
ReloadFails(p) ==
  /\ job[p].at = "reload"
  /\ Mishap
  /\ Leave(p, "failed")
  /\ UNCHANGED <<edits, files, lastId, disk, loaded, applied, mixed>>

\* The process that serves the request is killed: PostgreSQL rolls back, and the
\* lock stays until it expires.
Killed(p) ==
  /\ InSection(p)
  /\ Mishap
  /\ RolledBack(p)
  /\ job' = [job EXCEPT ![p] = Outside("failed", job[p].late, job[p].stored)]
  /\ BreaksOff(p)
  /\ UNCHANGED <<edits, lastId, loaded, lock, applied>>

-----------------------------------------------------------------------------
(* The staff. *)

\* The configuration is changed in the admin or through the API.
Edit ==
  /\ edits < MaxEdits
  /\ edits' = edits + 1
  /\ UNCHANGED <<files, lastId, disk, loaded, lock, job, applied, mixed, mishaps>>

\* A change of the stored files by staff.
ByStaff ==
  /\ Mishap
  /\ mixed' = CameBetween("save")
  /\ UNCHANGED <<edits, disk, loaded, lock, job, applied>>

\* A row is stored unless its name and version are taken; it waits for another
\* transaction's row.
Store(i, r) ==
  /\ Clashes(DOMAIN files \ {i}, r) = {}
  /\ files' = RowsWith(i, r)
  /\ lastId' = IF i = NextId THEN i ELSE lastId

StaffRow(name, f, content, version) ==
  [name |-> name, path |-> f, version |-> version, content |-> content, by |-> NoApply]

\* ConfigurationFileAdmin.save_model: obj is the row that was opened, None for a
\* new file.  Another content is a new version of the name; if it is that of the
\* name's latest version, or the name is new, the opened row itself is stored,
\* whatever its version.
SaveFile(obj, name, f, content) ==
  LET last == Newest(OfName(Committed, name))
  IN  /\ ByStaff
      /\ IF \E i \in last : files[i].content # content
         THEN Store(NextId, StaffRow(name, f, content, NextVersion(last)))
         ELSE IF obj = None THEN Store(NextId, StaffRow(name, f, content, 1))
         ELSE Store(obj, StaffRow(name, f, content, files[obj].version))

\* The command import_configuration_file counts by name and path.
ImportFile(name, f, content) ==
  /\ ByStaff
  /\ Store(NextId, StaffRow(name, f, content,
                            NextVersion(Newest(OfPath(OfName(Committed, name), f)))))

\* A row is deleted in the admin.
DeleteFile(i) ==
  /\ ByStaff
  /\ files' = RowsWithout({i})
  /\ UNCHANGED lastId

ApplyStep(p) ==
  \/ Generate(p) \/ ReadFiles(p) \/ Compare(p) \/ InsertRow(p) \/ Backup(p) \/ WriteFile(p)
  \/ Commit(p) \/ CommitFails(p) \/ Reload(p)

ApplyFails(p) == WriteFails(p) \/ ReloadFails(p) \/ Killed(p)

Staff ==
  \/ Edit
  \/ \E obj \in Committed \cup {None}, o \in Offered, c \in Content :
       c \in {files[i].content : i \in Committed} \cup StaffContent
         /\ SaveFile(obj, o[1], o[2], c)
  \/ \E o \in Offered, c \in StaffContent : ImportFile(o[1], o[2], c)
  \/ \E i \in Committed : DeleteFile(i)

ApplyNext ==
  \/ \E p \in Apply : BeginApply(p) \/ ApplyStep(p) \/ ApplyFails(p)
  \/ Expire
  \/ Staff

ApplySpec == ApplyInit /\ [][ApplyNext]_applyVars

-----------------------------------------------------------------------------
(* Properties. *)

\* While an apply of the API is within its five minutes, the lock is its own: none
\* that ends late takes it away (_apply_lock).
LockKept == \A p \in Apply : job[p].holds /\ ~job[p].late => lock = p

\* Without overlaps and torn writes the disk holds, between applies, what the
\* last one to commit was to write, and so does Asterisk if each reload worked
\* (apply_changes, apply_to_fs, post).
DiskIsApplied ==
  mixed = {} /\ (\A p \in Apply : ~InSection(p)) =>
    /\ disk = applied
    /\ (\A p \in Apply : job[p].stored => job[p].at = "done") => loaded = applied

\* The last part of a path tells the path.
NamesTellPaths == \A f, g \in Path : BaseName[f] = BaseName[g] => f = g

\* An apply fails with a version that exists already only if another apply or a save
\* came between, or a file is stored under a name that is not its path's own
\* (create_configuration_file counts by path, the table by name).
ClashOnlyIf ==
  \A p \in Apply :
    job[p].at = "version" /\ job'[p].at = "clashed" =>
      \/ {"apply", "save"} \cap mixed # {}
      \/ \E i \in Committed : files[i].name # BaseName[files[i].path]
      \/ ~ NamesTellPaths

\* Two applies that are writing have not both a new version of one file, unless staff
\* has saved files meanwhile: the second waits for the first and fails (the unique name
\* and version).
OneWriterPerVersion ==
  "save" \notin mixed =>
    \A p, q \in Apply :
      p # q /\ job[p].at = "write" /\ job[q].at = "write" =>
        \A i \in job[p].chosen, j \in job[q].chosen :
          files[i].by = p /\ files[j].by = q => files[i].path # files[j].path

\* No applies wait for each other's inserts in a circle: all take the files in the
\* same order (_build_cfgfiles).
NoneWaitInCircle ==
  NamesTellPaths =>
    \A circle \in (SUBSET Apply) \ {{}} : \E p \in circle : Waits(p) \cap circle = {}

\* The versions are a ledger to which an apply adds all of its own or none.
Entry(i) == [pk |-> i, name |-> files[i].name, version |-> files[i].version,
             path |-> files[i].path, content |-> files[i].content]

LedgerEntries == {Entry(i) : i \in Committed}
Publishers == {p \in Apply : job[p].stored}

Books == INSTANCE Ledger WITH
  Applier <- Apply, ledger <- LedgerEntries, published <- Publishers

VersionsAreALedger == Books!LedgerSpec
=============================================================================
