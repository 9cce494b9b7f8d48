------------------------------ MODULE Recordings ------------------------------
(***************************************************************************)
(* What becomes of the recording of a call: Asterisk writes a wav file,    *)
(* bin/wav2mp3_monitor.sh makes an mp3 of it, bin/syncmp3.sh copies that   *)
(* and removes what is old, and the reports and the API look for what is   *)
(* left (core/models.py, apps/reports/models.py, views.py and services/).  *)
(* Cron starts wav2mp3_monitor every quarter of an hour, whether or not    *)
(* the last run has ended; a step of a run is a command of the script.     *)
(***************************************************************************)
EXTENDS Naturals, FiniteSets, Sequences

CONSTANTS
  Recorded,    \* calls that are recorded
  CronRun,     \* runs of wav2mp3_monitor that may overlap
  WavDays,     \* LOCAL_WAV_DAYS
  Mp3Days,     \* LOCAL_MP3_DAYS
  BackupDays,  \* BACKUP_MP3_DAYS, not 0
  FinalDay     \* bound: days

ASSUME RecordingsAssumption ==
  /\ WavDays \in Nat /\ Mp3Days \in Nat /\ BackupDays \in Nat /\ FinalDay \in Nat
  /\ WavDays <= BackupDays
  /\ "none" \notin Recorded

Mp3(is, d) == [is |-> is, written |-> d]
NoMp3 == Mp3("none", 0)
NoRecording == "none"

VARIABLES
  today,      \* the day
  layout,     \* how a file is named: by its row, or flat, by the call's unique id
  hasRow,     \* whether the call has a row of core_monitor_filenames
  wav,        \* of each call: none, open, closed
  mp3,        \* the mp3 beside it: how much of it there is, and when it was written
  backup,     \* the copy of the mp3
  run,        \* of each run of wav2mp3_monitor: what it does
  toConvert,  \* the files that its find has listed
  current,    \* the file at hand
  sync,       \* what syncmp3 does
  toCopy,     \* the files that its rsync has yet to look at
  done,       \* history: the wav was removed after it was converted
  slipped     \* history: a run has taken a file that lsof did not show to be another's

recVars ==
  <<today, layout, hasRow, wav, mp3, backup, run, toConvert, current,
    sync, toCopy, done, slipped>>

\* One invariant for the types of the variables.
RecTypeOK ==
  /\ today \in 0 .. FinalDay
  /\ layout \in [Recorded -> {"row", "flat"}] /\ hasRow \in [Recorded -> BOOLEAN]
  /\ wav \in [Recorded -> {"none", "open", "closed"}]
  /\ {mp3, backup} \subseteq [Recorded -> [is : {"none", "part", "whole"}, written : 0 .. FinalDay]]
  /\ run \in [CronRun -> {"idle", "loop", "checked", "lame", "made"}]
  /\ toConvert \in [CronRun -> SUBSET Recorded]
  /\ current \in [CronRun -> Recorded \cup {NoRecording}]
  /\ sync \in {"idle", "copy", "clean", "clean backup"} /\ toCopy \subseteq Recorded
  /\ done \in [Recorded -> BOOLEAN] /\ slipped \in [Recorded -> BOOLEAN]

RecInit ==
  /\ today = 0
  /\ layout \in [Recorded -> {"row", "flat"}]
  /\ hasRow \in [Recorded -> BOOLEAN]
  /\ \A c \in Recorded : layout[c] = "row" => hasRow[c]
  /\ wav = [c \in Recorded |-> "open"]
  /\ mp3 = [c \in Recorded |-> NoMp3] /\ backup = mp3
  /\ run = [k \in CronRun |-> "idle"]
  /\ toConvert = [k \in CronRun |-> {}] /\ current = [k \in CronRun |-> NoRecording]
  /\ sync = "idle" /\ toCopy = {}
  /\ done = [c \in Recorded |-> FALSE] /\ slipped = done

recFiles == <<wav, mp3, backup>>
runs == <<run, toConvert, current>>
syncs == <<sync, toCopy>>
fixed == <<layout, hasRow>>

-----------------------------------------------------------------------------
(* The call, the days *)

\* The call ends, and its file is closed.  (A file is also left alone until it is ten
\* seconds old.)
Close(c) ==
  /\ wav[c] = "open"
  /\ wav' = [wav EXCEPT ![c] = "closed"]
  /\ UNCHANGED <<today, fixed, mp3, backup, runs, syncs, done, slipped>>

\* The days of the files are many hours, and syncmp3 ends within one: an mp3 that was made
\* after its rsync had listed the files is not old when it removes what is.
NextDay ==
  /\ today < FinalDay /\ \A c \in Recorded : wav[c] # "open"
  /\ sync = "idle"
  /\ today' = today + 1
  /\ UNCHANGED <<fixed, recFiles, runs, syncs, done, slipped>>

-----------------------------------------------------------------------------
(* wav2mp3_monitor.sh *)

Step(k, to) == run' = [run EXCEPT ![k] = to]

\* find runs ahead of the loop.
RunBegins(k) ==
  /\ run[k] = "idle"
  /\ toConvert' = [toConvert EXCEPT ![k] = {c \in Recorded : wav[c] # "none"}]
  /\ Step(k, "loop")
  /\ UNCHANGED <<today, fixed, recFiles, current, syncs, done, slipped>>

\* Mutant of InUse: a file is converted while Asterisk writes it.
InUseByLame(c) == \E k \in CronRun : run[k] = "lame" /\ current[k] = c

\* Mutant of InUse: nobody asks whether another lame has the file.
InUseByAsterisk(c) == wav[c] = "open"

\* lsof: Asterisk or another lame has the file open.  A file that is gone is neither in
\* use nor, as its time is taken for 0, too recent.
InUse(c) == wav[c] = "open" \/ \E k \in CronRun : run[k] = "lame" /\ current[k] = c

\* What lsof does not show: another run has the file in hand, but its lame does not have
\* it open, not yet or no longer; or it has converted it.
UnseenByLsof(k, c) ==
  \/ \E l \in CronRun \ {k} : run[l] \in {"checked", "made"} /\ current[l] = c
  \/ done[c]

\* The next file of the list.
CheckFile(k, c) ==
  /\ run[k] = "loop" /\ c \in toConvert[k]
  /\ toConvert' = [toConvert EXCEPT ![k] = @ \ {c}]
  /\ IF InUse(c) THEN UNCHANGED <<run, current, slipped>>
     ELSE /\ Step(k, "checked") /\ current' = [current EXCEPT ![k] = c]
          /\ slipped' = IF UnseenByLsof(k, c) THEN [slipped EXCEPT ![c] = TRUE] ELSE slipped
  /\ UNCHANGED <<today, fixed, recFiles, syncs, done>>

LetGo(k) == current' = [current EXCEPT ![k] = NoRecording]

\* lame opens the wav and begins the mp3; without a wav it fails, and the mp3 is removed.
LameBegins(k) ==
  LET c == current[k] IN
  /\ run[k] = "checked"
  /\ IF wav[c] # "none"
     THEN /\ mp3' = [mp3 EXCEPT ![c] = Mp3("part", today)]
          /\ Step(k, "lame") /\ UNCHANGED current
     ELSE /\ mp3' = [mp3 EXCEPT ![c] = NoMp3]
          /\ Step(k, "loop") /\ LetGo(k)
  /\ UNCHANGED <<today, fixed, wav, backup, toConvert, syncs, done, slipped>>

\* The mp3 is written, the whole of a call that is over; if syncmp3 has removed it meanwhile, it is not there.
LameEnds(k) ==
  LET c == current[k] IN
  /\ run[k] = "lame"
  /\ IF mp3[c] = NoMp3
     THEN Step(k, "loop") /\ LetGo(k) /\ UNCHANGED mp3  \* empty output
     ELSE /\ mp3' = [mp3 EXCEPT ![c] = Mp3(IF wav[c] = "open" THEN "part" ELSE "whole", today)]
          /\ Step(k, "made") /\ UNCHANGED current
  /\ UNCHANGED <<today, fixed, wav, backup, toConvert, syncs, done, slipped>>

\* Mutant of FailureRemoves: the wav goes with the mp3.
FailureRemovesBoth(c) == mp3' = [mp3 EXCEPT ![c] = NoMp3] /\ wav' = [wav EXCEPT ![c] = "none"]

\* What a failure removes.
FailureRemoves(c) == mp3' = [mp3 EXCEPT ![c] = NoMp3] /\ UNCHANGED wav

\* lame fails.
LameFails(k) ==
  /\ run[k] = "lame"
  /\ FailureRemoves(current[k])
  /\ Step(k, "loop") /\ LetGo(k)
  /\ UNCHANGED <<today, fixed, backup, toConvert, syncs, done, slipped>>

\* The wav is removed.
RemoveWav(k) ==
  LET c == current[k] IN
  /\ run[k] = "made"
  /\ wav' = [wav EXCEPT ![c] = "none"]
  /\ done' = [done EXCEPT ![c] = TRUE]
  /\ Step(k, "loop") /\ LetGo(k)
  /\ UNCHANGED <<today, fixed, mp3, backup, toConvert, syncs, slipped>>

\* The list is at its end, or the run is killed.
RunEnds(k) ==
  /\ run[k] # "idle"
  /\ Step(k, "idle") /\ LetGo(k)
  /\ toConvert' = [toConvert EXCEPT ![k] = {}]
  /\ UNCHANGED <<today, fixed, recFiles, syncs, done, slipped>>

-----------------------------------------------------------------------------
(* syncmp3.sh *)

SyncBegins ==
  /\ sync = "idle"
  /\ sync' = "copy" /\ toCopy' = {c \in Recorded : mp3[c] # NoMp3}
  /\ UNCHANGED <<today, fixed, recFiles, runs, done, slipped>>

\* rsync copies what has changed, as it is at that moment.
Copy(c) ==
  /\ sync = "copy" /\ c \in toCopy
  /\ toCopy' = toCopy \ {c}
  /\ backup' = IF mp3[c] = NoMp3 THEN backup ELSE [backup EXCEPT ![c] = mp3[c]]
  /\ UNCHANGED <<today, fixed, wav, mp3, runs, sync, done, slipped>>

\* Mutant of AfterFailure: the old files are removed all the same.
AfterFailureClean == "clean"

\* When rsync fails, the script dies.
AfterFailure == "idle"

CopyFails ==
  /\ sync = "copy"
  /\ sync' = AfterFailure /\ toCopy' = {}
  /\ UNCHANGED <<today, fixed, recFiles, runs, done, slipped>>

CopyEnds ==
  /\ sync = "copy" /\ toCopy = {}
  /\ sync' = "clean"
  /\ UNCHANGED <<today, fixed, recFiles, runs, toCopy, done, slipped>>

\* find -mtime.
Kept(some, days) ==
  [c \in Recorded |-> IF today - some[c].written > days THEN NoMp3 ELSE some[c]]

\* The old files here: the mp3 by when it was made, the wav by when it was recorded.
Clean ==
  /\ sync = "clean"
  /\ mp3' = Kept(mp3, Mp3Days)
  /\ wav' = [c \in Recorded |-> IF today > WavDays THEN "none" ELSE wav[c]]
  /\ sync' = "clean backup"
  /\ UNCHANGED <<today, fixed, backup, runs, toCopy, done, slipped>>

\* And there.
CleanBackup ==
  /\ sync = "clean backup"
  /\ backup' = Kept(backup, BackupDays)
  /\ sync' = "idle"
  /\ UNCHANGED <<today, fixed, wav, mp3, runs, toCopy, done, slipped>>

-----------------------------------------------------------------------------
(* Who looks for it *)

\* The file under the call's unique id: the mp3 before the wav, only here.
FlatFile(c) ==
  IF layout[c] # "flat" THEN "nothing"
  ELSE IF mp3[c] # NoMp3 THEN "mp3" ELSE IF wav[c] # "none" THEN "wav" ELSE "nothing"

\* Mutant of NamedFile: the copy before the files here.
NamedFileBackup(c) ==
  IF layout[c] # "row" THEN "nothing"
  ELSE IF backup[c] # NoMp3 THEN "backup"
  ELSE IF mp3[c] # NoMp3 THEN "mp3" ELSE IF wav[c] # "none" THEN "wav" ELSE "nothing"

\* The file under the name in the row: here, then its copy.
NamedFile(c) ==
  IF layout[c] # "row" THEN "nothing"
  ELSE IF mp3[c] # NoMp3 THEN "mp3" ELSE IF wav[c] # "none" THEN "wav"
  ELSE IF backup[c] # NoMp3 THEN "backup" ELSE "nothing"

\* Mutant of CandidateFile: a row's file is looked for under its name only.
CandidateFileNamed(c) == NamedFile(c)

\* MonitorFilenames._candidate_paths: under the name, then under the unique id.
CandidateFile(c) == IF NamedFile(c) # "nothing" THEN NamedFile(c) ELSE FlatFile(c)

\* CDR.get_audio_url: the row's file if there is a row, or the flat one.
AudioUrl(c) == (IF hasRow[c] THEN CandidateFile(c) ELSE FlatFile(c)) # "nothing"

\* recording_urls: flat files first, rows for the rest.
RecordingUrl(c) == FlatFile(c) # "nothing" \/ (hasRow[c] /\ CandidateFile(c) # "nothing")

\* find_recording_path_by_uniqueid.
RecordingPath(c) ==
  IF FlatFile(c) # "nothing" THEN FlatFile(c)
  ELSE IF hasRow[c] THEN CandidateFile(c) ELSE "nothing"

\* What _serve_audio_file_response gives: all there is of the file, or an error when it
\* was removed since it was found.
Given(c, found) ==
  CASE found = "mp3" -> mp3[c].is
    [] found = "wav" -> IF wav[c] = "none" THEN "none" ELSE "whole"
    [] found = "backup" -> backup[c].is
    [] OTHER -> "none"

\* The bytes of a Range header in a file of some size; the last may be left out.
NoLast == 99
ServedRange(first, last, size) ==
  LET end == IF last = NoLast \/ last > size - 1 THEN size - 1 ELSE last
  IN  IF first >= size \/ first > end THEN << >> ELSE <<first, end>>

RecNext ==
  \/ \E c \in Recorded : Close(c) \/ Copy(c)
  \/ NextDay
  \/ \E k \in CronRun :
       RunBegins(k) \/ LameBegins(k) \/ LameEnds(k) \/ LameFails(k) \/ RemoveWav(k) \/ RunEnds(k)
  \/ \E k \in CronRun, c \in Recorded : CheckFile(k, c)
  \/ SyncBegins \/ CopyFails \/ CopyEnds \/ Clean \/ CleanBackup

-----------------------------------------------------------------------------
(* Properties *)

Lost(c) == wav[c] = "none" /\ mp3[c].is # "whole" /\ backup[c].is # "whole"

\* A recording is there, whole, until it is old, however runs overlap, are killed and
\* fail: one that was converted for the days of the backup, one that could not be for the
\* days of a wav, counted from the day of the calls, 0.  Overlapping runs lose it only
\* through the gap of lsof (UnseenByLsof): the later one takes the file in hand although the
\* other is about to convert it, has just converted it, or has removed the wav.
RecordingsStay ==
  \A c \in Recorded :
    Lost(c) /\ ~slipped[c] =>
      today > BackupDays \/ (~done[c] /\ today > WavDays)

\* The three ways to look for a recording find one or none for the same calls: the link
\* in a report, the links in the mail and the download of the API.
ResolversAgree ==
  \A c \in Recorded :
    AudioUrl(c) = RecordingUrl(c) /\ RecordingUrl(c) = (RecordingPath(c) # "nothing")

\* Who downloads a recording that has been converted gets all of it, never the half of it
\* that was copied too early.
WholeIsServed ==
  \A c \in Recorded : Given(c, RecordingPath(c)) = "part" => ~done[c] \/ slipped[c]

\* The bytes that are served are some, and in the file.
RangesInside ==
  \A first, size \in 0 .. 3 : \A last \in (0 .. 4) \cup {NoLast} :
    LET r == ServedRange(first, last, size) IN
    /\ r # << >> => r[1] = first /\ first <= r[2] /\ r[2] < size
    /\ r = << >> <=> first >= size \/ last < first

\* Recordings are kept, found and served.
RecordingsServed == RecordingsStay /\ ResolversAgree /\ WholeIsServed /\ RangesInside
=============================================================================
