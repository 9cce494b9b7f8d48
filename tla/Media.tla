-------------------------------- MODULE Media --------------------------------
(***************************************************************************)
(* Music on hold and sounds (core/models.py, core/storages.py): the rows   *)
(* staff saves, the files their uploads leave in the directories of        *)
(* Asterisk, musiconhold.conf as core/conf.py writes it, and the imports   *)
(* of what was there before (core/management/commands/import_musiconhold.py*)
(* and import_soundfiles.py).  A path is a directory, a base name, an      *)
(* extension and the number that the storage adds to a name that is taken. *)
(***************************************************************************)
EXTENDS Naturals, Sequences, FiniteSets, Functions, FiniteSetsExt, Maps

CONSTANTS
  Class,      \* names of classes
  Folder,     \* directories; "" when none is given
  Base,       \* base names of files
  Language,   \* languages of sounds; "" when none is given
  MaxPlaylist,  \* bound: playlist entries ever made
  MaxMedia    \* bound: operations

ASSUME MediaAssumption ==
  /\ "" \in Folder /\ "" \in Language
  /\ MaxPlaylist \in Nat /\ MaxMedia \in Nat

FileExt == {"wav", "gsm"}
Mode == {"files", "playlist", "custom"}
Sort == {"random", "alpha"}
Suffix == 0 .. MaxMedia
MediaPath == [dir : Folder \cup Language, base : Base, ext : FileExt, n : Suffix]
NoMedia == [dir |-> "", base |-> "", ext |-> "", n |-> 0]
PlaylistId == 1 .. MaxPlaylist

VARIABLES
  classes,    \* music_on_hold: name |-> mode, directory, sort
  playlist,    \* moh_playlist_entry: id |-> class, file, url
  music,      \* /var/lib/asterisk/moh: path |-> the upload that is in it
  folders,    \* the directories there
  sounds,     \* sound_files: <<language, name>> |-> file
               \* (in rows, "of" is history: the upload they were made for)
  tones,      \* /var/lib/asterisk/sounds: path |-> the upload that is in it
  upload,     \* history: the uploads and files so far
  mediaOps    \* operations so far

mediaVars == <<classes, playlist, music, folders, sounds, tones, upload, mediaOps>>

\* One invariant for the types of the variables.
MediaTypeOK ==
  /\ DOMAIN classes \subseteq Class
  /\ \A n \in DOMAIN classes : classes[n] \in [mode : Mode, directory : Folder, sort : Sort]
  /\ DOMAIN playlist \subseteq PlaylistId
  /\ \A e \in DOMAIN playlist :
       playlist[e] \in [class : Class, file : MediaPath \cup {NoMedia}, url : BOOLEAN, of : Nat]
  /\ DOMAIN music \subseteq MediaPath /\ DOMAIN tones \subseteq MediaPath
  /\ folders \subseteq Folder
  /\ DOMAIN sounds \subseteq Language \X Base
  /\ Range(sounds) \subseteq [file : MediaPath, of : Nat]
  /\ mediaOps \in 0 .. MaxMedia

MediaInit ==
  /\ classes = << >> /\ playlist = << >> /\ music = << >> /\ folders = {}
  /\ sounds = << >> /\ tones = << >>
  /\ upload = 0 /\ mediaOps = 0

MayDo == mediaOps < MaxMedia /\ mediaOps' = mediaOps + 1

\* Mutant of Available: an upload takes the place of a file of its name.
AvailableOver(disk, dir, base, ext) == [dir |-> dir, base |-> base, ext |-> ext, n |-> 0]

\* The storage gives an upload a name that is not taken.  (The letters that it adds are
\* random; here they are a number.)
Available(disk, dir, base, ext) ==
  LET Named(n) == [dir |-> dir, base |-> base, ext |-> ext, n |-> n]
  IN Named(Min({n \in Suffix : Named(n) \notin DOMAIN disk}))

-----------------------------------------------------------------------------
(* Music on hold *)

soundVars == <<sounds, tones>>

\* MusicOnHold.save makes the directory, unless it may not.
SaveClass(name, mode, directory, sort) ==
  /\ MayDo
  /\ classes' = With(classes, name, [mode |-> mode, directory |-> directory, sort |-> sort])
  /\ \/ folders' = folders \cup ({directory} \ {""})
     \/ UNCHANGED folders  \* PermissionError
  /\ UNCHANGED <<playlist, music, soundVars, upload>>

\* Mutant of EntriesOf: entries let their class go.
EntriesOfNone(name) == {}

EntriesOf(name) == {e \in DOMAIN playlist : playlist[e].class = name}

\* Entries PROTECT their class.
DeleteClass(name) ==
  /\ MayDo
  /\ name \in DOMAIN classes /\ EntriesOf(name) = {}
  /\ classes' = Without(classes, name)
  /\ UNCHANGED <<playlist, music, folders, soundVars, upload>>

\* Mutant of FileWins: the url stays beside the file.
FileWinsNot(url) == url

\* MusicOnHoldPlaylistEntry.save: the file puts the url away.
FileWins(url) == FALSE

\* An entry is uploaded; without a directory its path is absolute, which the storage
\* refuses.  The storage makes the directory.
UploadEntry(e, name, base, ext, url) ==
  LET dir == classes[name].directory
      path == Available(music, dir, base, ext)
  IN
  /\ MayDo
  /\ name \in DOMAIN classes /\ e \in PlaylistId
  /\ dir # ""
  /\ music' = With(music, path, upload + 1) /\ folders' = folders \cup {dir}
  /\ playlist' = With(playlist, e, [class |-> name, file |-> path, url |-> FileWins(url),
                                   of |-> upload + 1])
  /\ upload' = upload + 1
  /\ UNCHANGED <<classes, soundVars>>

\* Or it has a url; the file that it had stays on the disk.
LinkEntry(e, name) ==
  /\ MayDo
  /\ name \in DOMAIN classes /\ e \in PlaylistId
  /\ playlist' = With(playlist, e, [class |-> name, file |-> NoMedia, url |-> TRUE, of |-> 0])
  /\ UNCHANGED <<classes, music, folders, soundVars, upload>>

DropEntry(e) ==
  /\ MayDo
  /\ e \in DOMAIN playlist
  /\ playlist' = Without(playlist, e)
  /\ UNCHANGED <<classes, music, folders, soundVars, upload>>

\* A path without its extension.
Stem(path) == [dir |-> path.dir, base |-> path.base, n |-> path.n]

\* Mutant of PlayedBy: an entry is looked for in the directory that the class has now.
PlayedByDirectory(e) ==
  [Stem(playlist[e].file) EXCEPT !.dir = classes[playlist[e].class].directory]

\* _make_moh_playlist_config: what the line of an entry names, a file without its extension.
PlayedBy(e) == Stem(playlist[e].file)

\* The files that the line of an entry may mean: Asterisk adds the extension, that of the
\* format it prefers.
Heard(e) == {path \in DOMAIN music : Stem(path) = PlayedBy(e)}

\* _make_moh_files_config: the directory below moh/.
DirectoryOf(class) == IF class.directory = "" THEN "moh" ELSE class.directory

\* make_musiconhold_conf: a section for each class, which plays a directory or entries.
MusicSections ==
  [name \in DOMAIN classes |->
     [mode |-> classes[name].mode,
      directory |-> IF classes[name].mode = "files" THEN DirectoryOf(classes[name]) ELSE "",
      sort |-> IF classes[name].mode = "files" THEN classes[name].sort ELSE "random",
      plays |-> IF classes[name].mode = "playlist"
                THEN {PlayedBy(e) : e \in {f \in EntriesOf(name) : playlist[f].file # NoMedia}}
                ELSE {}]]

\* process_section: a section as a row; moh/ is taken off the directory.
ReadClass(section) ==
  [mode |-> section.mode, directory |-> section.directory, sort |-> section.sort]

\* Mutant of NewSections: an import writes over the rows.
NewSectionsAll(conf) == DOMAIN conf

\* What an import takes of a file: the sections without a row.
NewSections(conf) == DOMAIN conf \ DOMAIN classes

\* A section that Asterisk brings.
Brought(name, mode, directory) ==
  [n \in {name} |-> [mode |-> mode, directory |-> directory, sort |-> "alpha", plays |-> {}]]

\* import_musiconhold: create saves a row, which makes its directory.
ImportClasses(conf) ==
  LET taken == {name \in NewSections(conf) : conf[name].mode \in Mode} IN
  /\ MayDo
  /\ classes' = Adding([name \in taken |-> ReadClass(conf[name])], classes)
  /\ folders' = folders \cup ({conf[name].directory : name \in taken} \ {""})
  /\ UNCHANGED <<playlist, music, soundVars, upload>>

-----------------------------------------------------------------------------
(* Sounds *)

musicVars == <<classes, playlist, music, folders>>

\* A sound is uploaded for a new row, or for one that is there; the file is named after
\* the row.  Without a language its path is absolute, which the storage refuses.
UploadSound(language, name, ext) ==
  LET path == Available(tones, language, name, ext) IN
  /\ MayDo
  /\ language # ""
  /\ tones' = With(tones, path, upload + 1)
  /\ sounds' = With(sounds, <<language, name>>, [file |-> path, of |-> upload + 1])
  /\ upload' = upload + 1
  /\ UNCHANGED musicVars

\* unique_together.
Free(key) == key \notin DOMAIN sounds

\* A row is saved under another name or language: its file stays where it is.
RenameSound(old, new) ==
  /\ MayDo
  /\ old \in DOMAIN sounds /\ old # new /\ Free(new)
  /\ sounds' = With(Without(sounds, old), new, sounds[old])
  /\ UNCHANGED <<tones, upload, musicVars>>

\* A row is deleted: its file stays.
DeleteSound(key) ==
  /\ MayDo
  /\ key \in DOMAIN sounds
  /\ sounds' = Without(sounds, key)
  /\ UNCHANGED <<tones, upload, musicVars>>

\* A file is put into a directory of sounds from outside.
PlaceTone(dir, base, ext) ==
  LET path == [dir |-> dir, base |-> base, ext |-> ext, n |-> 0] IN
  /\ MayDo
  /\ path \notin DOMAIN tones
  /\ tones' = With(tones, path, upload + 1) /\ upload' = upload + 1
  /\ UNCHANGED <<sounds, musicVars>>

\* What an import calls a file: its directory and its base name.
ImportKey(path) == <<path.dir, path.base>>

\* The files of the names at hand; the rows of files that the storage has renamed are
\* left out.
PlainTones == {path \in DOMAIN tones : path.n = 0}

\* import_soundfiles: a row for each file whose language and name have none; the first
\* extension of a name is taken.
ImportSounds ==
  LET keys == {ImportKey(path) : path \in PlainTones} \ DOMAIN sounds IN
  /\ MayDo
  /\ keys # {}
  /\ \E take \in [keys -> PlainTones] :
       /\ \A key \in keys : ImportKey(take[key]) = key
       /\ sounds' = Adding([key \in keys |-> [file |-> take[key], of |-> tones[take[key]]]],
                           sounds)
  /\ UNCHANGED <<tones, upload, musicVars>>

MediaNext ==
  \/ \E name \in Class, mode \in Mode, directory \in Folder, sort \in Sort :
       SaveClass(name, mode, directory, sort)
  \/ \E name \in Class : DeleteClass(name)
  \/ \E e \in PlaylistId, name \in DOMAIN classes, base \in Base, ext \in FileExt, url \in BOOLEAN :
       UploadEntry(e, name, base, ext, url)
  \/ \E e \in PlaylistId, name \in Class : LinkEntry(e, name)
  \/ \E e \in PlaylistId : DropEntry(e)
  \/ ImportClasses(MusicSections)
  \/ \E name \in Class, mode \in {"files", "quietmp3"}, directory \in Folder :
       ImportClasses(Brought(name, mode, directory))
  \/ \E language \in Language, name \in Base, ext \in FileExt :
       UploadSound(language, name, ext) \/ PlaceTone(language, name, ext)
  \/ \E old, new \in Language \X Base : RenameSound(old, new)
  \/ \E key \in Language \X Base : DeleteSound(key)
  \/ ImportSounds

-----------------------------------------------------------------------------
(* Properties *)

\* An entry of a playlist finds the upload that it was made for, whatever was uploaded
\* under its name since, and wherever the class keeps its files now; another upload can be
\* played in its place only when it has the same name in another format, which the line in
\* musiconhold.conf does not tell apart.
EntriesPlayTheirs ==
  \A e \in DOMAIN playlist :
    playlist[e].file # NoMedia =>
      /\ playlist[e].of \in {music[path] : path \in Heard(e)}
      /\ \A path \in Heard(e) :
           music[path] = playlist[e].of \/ path.ext # playlist[e].file.ext

\* An entry is a file or a url, never both and never neither, so that every entry is a
\* line of musiconhold.conf.
EntriesAreOne == \A e \in DOMAIN playlist : (playlist[e].file = NoMedia) <=> playlist[e].url

\* Every entry has a class: no class is deleted with its playlist.
EntriesHaveClass == \A e \in DOMAIN playlist : playlist[e].class \in DOMAIN classes

\* What was written can be read: importing the musiconhold.conf of these rows changes
\* none of them, and rows made from it write the same file again.
MusicReadAsWritten ==
  /\ NewSections(MusicSections) = {}
  /\ \A name \in DOMAIN classes :
       LET read == ReadClass(MusicSections[name]) IN
       classes[name].mode = "files" =>
         read.sort = classes[name].sort /\ DirectoryOf(read) = DirectoryOf(classes[name])

\* The file of a sound is the upload that its row was made for, or the file that an
\* import found under its name.
SoundsAreTheirs ==
  \A key \in DOMAIN sounds :
    sounds[key].file \in DOMAIN tones /\ tones[sounds[key].file] = sounds[key].of

\* The music and the sounds of Asterisk are those of the rows.
MediaConsistent ==
  EntriesPlayTheirs /\ EntriesAreOne /\ EntriesHaveClass /\ MusicReadAsWritten /\ SoundsAreTheirs
=============================================================================
