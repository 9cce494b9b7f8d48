--------------------------- MODULE ApplicationProofs ---------------------------
(***************************************************************************)
(* What is proved of the application as the runs check it: a step of it    *)
(* is, in the variables of each of its parts, one of that part, so that    *)
(* the invariants of ConfigProofs, AelProofs and AnswerProofs hold of      *)
(* it all at once, and with them what the runs check of each part.         *)
(***************************************************************************)
EXTENDS MCApplication, ConfigProofs, AelProofs, AnswerProofs

-----------------------------------------------------------------------------
(* The application. *)

\* A step of the application is one of each part, or leaves it as it is.
LEMMA StepOfEach ==
  ASSUME [ApplicationNext]_allVars
  PROVE  /\ [ApplyNext]_applyVars /\ [SipNext]_sipVars /\ [GuardsNext]_guardVars
         /\ [SyncNext]_syncVars /\ [AgiNext]_agiVars /\ [ReportsNext]_reportVars
         /\ [ProvNext]_provVars /\ [QueueNext]_queueVars /\ [ListsNext]_listVars
         /\ [AmiNext]_amiVars /\ [ScriptNext]_scriptVars /\ [MediaNext]_mediaVars
         /\ [RecNext]_recVars /\ [BlocksNext]_lines /\ [TextNext]_chars
         /\ [PatternNext]_pattern
<1>1. CASE UNCHANGED allVars
  BY <1>1 DEF allVars
<1>2. CASE ApplicationNext
  <2>1. [ApplyNext]_applyVars /\ [SipNext]_sipVars /\ [GuardsNext]_guardVars
    BY <1>2 DEF ApplicationNext, Stay
  <2>2. [SyncNext]_syncVars /\ [AgiNext]_agiVars /\ [ReportsNext]_reportVars
    BY <1>2 DEF ApplicationNext, Stay
  <2>3. [ProvNext]_provVars /\ [QueueNext]_queueVars /\ [ListsNext]_listVars
    BY <1>2 DEF ApplicationNext, Stay
  <2>4. [AmiNext]_amiVars /\ [ScriptNext]_scriptVars /\ [MediaNext]_mediaVars
        /\ [RecNext]_recVars
    BY <1>2 DEF ApplicationNext, Stay
  <2>5. [BlocksNext]_lines /\ [TextNext]_chars /\ [PatternNext]_pattern
    BY <1>2 DEF ApplicationNext, Stay
  <2> QED BY <2>1, <2>2, <2>3, <2>4, <2>5
<1> QED BY <1>1, <1>2

\* What the parts keep, each in its own variables.
FilesInv == SipInv /\ GuardsInv /\ QconfInv /\ ProvInv /\ MediaInv /\ SyncedAlways
TypedInv == BlocksInv /\ TextInv /\ PatternInv
AnswersInv == AmiInv /\ AgiInv /\ ScriptInv /\ ListsInv /\ RecInv /\ ReportsInv
PartKnown == part \in TextParts \cup RowParts
ApplicationInv == PartKnown /\ ApplyInv /\ FilesInv /\ TypedInv /\ AnswersInv

LEMMA ApplicationApplies == ApplicationSpec => ApplySpec
<1>1. ApplicationInit => ApplyInit
  BY DEF ApplicationInit
<1>2. [ApplicationNext]_allVars => [ApplyNext]_applyVars
  BY StepOfEach
<1> QED BY <1>1, <1>2, PTL DEF ApplicationSpec, ApplySpec

LEMMA FilesInitially == ApplicationInit => FilesInv
<1>1. ApplicationInit => SipInit /\ GuardsInit /\ QueueInit /\ ProvInit /\ MediaInit /\ SyncInit
  BY DEF ApplicationInit
<1> QED BY <1>1, SipInitially, GuardsInitially, QconfInitially, ProvInitially, MediaInitially,
           SyncInitially DEF FilesInv

LEMMA FilesKept == FilesInv /\ [ApplicationNext]_allVars => FilesInv'
BY StepOfEach, SipStep, GuardsStep, QconfStep, ProvStep, MediaStep, SyncedNext DEF FilesInv

LEMMA TypedInitially == ApplicationInit => TypedInv
<1>1. ApplicationInit => BlocksInit /\ TextInit /\ PatternInit
  BY DEF ApplicationInit
<1> QED BY <1>1, BlocksInitially, TextInitially, PatternInitially DEF TypedInv

LEMMA TypedKept == TypedInv /\ [ApplicationNext]_allVars => TypedInv'
BY StepOfEach, BlocksStep, TextStep, PatternStep DEF TypedInv

LEMMA AnswersInitially == ApplicationInit => AnswersInv
<1>1. ApplicationInit => AmiInit /\ AgiInit /\ ScriptInit /\ ListsInit /\ RecInit /\ ReportsInit
  BY DEF ApplicationInit
<1> QED BY <1>1, AmiInitially, AgiInitially, ScriptInitially, ListsInitially, RecInitially,
           ReportsInitially DEF AnswersInv

LEMMA AnswersKept == AnswersInv /\ [ApplicationNext]_allVars => AnswersInv'
BY StepOfEach, AmiStep, AgiStep, ScriptStep, ListsStep, RecStep, ReportsStep DEF AnswersInv

\* Whichever part runs, the inductive invariants of all of them hold: a part that does not
\* run stays as it began.
THEOREM ApplicationInvariant == ApplicationSpec => []ApplicationInv
<1>1. ApplicationSpec => []ApplyInv
  BY ApplicationApplies, ApplyInvariant, PTL
<1>2. ApplicationSpec => []FilesInv
  BY FilesInitially, FilesKept, PTL DEF ApplicationSpec
<1>3. ApplicationSpec => []AnswersInv
  BY AnswersInitially, AnswersKept, PTL DEF ApplicationSpec
<1>4. ApplicationSpec => []PartKnown
  <2>1. ApplicationInit => PartKnown
    BY DEF ApplicationInit, PartKnown
  <2>2. PartKnown /\ [ApplicationNext]_allVars => PartKnown'
    BY DEF ApplicationNext, allVars, PartKnown
  <2> QED BY <2>1, <2>2, PTL DEF ApplicationSpec
<1>5. ApplicationSpec => []TypedInv
  BY TypedInitially, TypedKept, PTL DEF ApplicationSpec
<1> QED BY <1>1, <1>2, <1>3, <1>4, <1>5, PTL DEF ApplicationInv

\* The variables of the part that runs have their types, for any instance.
THEOREM ApplicationTypes == ApplicationSpec => []ApplicationTypeOK
<1>1. ApplicationInv => ApplicationTypeOK
  <2> SUFFICES ASSUME ApplicationInv PROVE ApplicationTypeOK
    OBVIOUS
  <2>1. ApplyInv /\ FilesInv /\ AnswersInv
    BY DEF ApplicationInv
  <2>2. ApplyTypeOK
    BY <2>1 DEF ApplyInv
  <2>3. SipTypeOK /\ GuardsTypeOK /\ QueueTypeOK /\ ProvTypeOK /\ MediaTypeOK /\ SyncTypeOK
    BY <2>1, SipMeans, GuardsMeans, QconfMeans, ProvMeans, MediaMeans, SyncedMeans DEF FilesInv
  <2>4. AmiTypeOK /\ AgiTypeOK /\ ScriptTypeOK /\ ListsTypeOK /\ RecTypeOK /\ ReportsTypeOK
    BY <2>1, AmiMeans, AgiTypes, ScriptMeans, ListsMeans, RecMeans, ReportsMeans DEF AnswersInv
  <2> QED BY <2>1, <2>2, <2>3, <2>4 DEF ApplicationTypeOK, PartKnown, TextParts, RowParts,
         ApplicationInv
<1> QED BY <1>1, ApplicationInvariant, PTL

\* pjsip.conf and what dials through it fit together, whatever transports, users, trunks
\* and changes there are: what a section names is defined, no two sections of one type
\* have one name, and whom the dialplan dials or a queue has as a member has an endpoint,
\* but for the cases that the properties name (make_pjsip_conf, make_local_users_context,
\* SIPPeerForm.clean, on_sipuser_post_delete).
THEOREM PjsipConsistentAlways == ApplicationSpec => []PjsipConsistent
<1>1. ApplicationInv => PjsipConsistent
  BY SipMeans DEF ApplicationInv, FilesInv, PjsipConsistent
<1> QED BY <1>1, ApplicationInvariant, PTL

\* extensions.ael loads after any number of requests at once: no context is generated
\* twice, no extension is left out and every macro that one calls exists, unless a change
\* came between a check and the statement it was for (make_extensions_ael,
\* DialplanContext.clean, DialplanMacro.delete and their like).
THEOREM AelConsistentAlways == ApplicationSpec => []AelConsistent
<1>1. ApplicationInv => AelConsistent
  BY GuardsMeans DEF ApplicationInv, FilesInv, AelConsistent
<1> QED BY <1>1, ApplicationInvariant, PTL

\* The validator takes the lines of an extension for the blocks that AEL takes them for,
\* however long and nested: none is left open, what is passed over shares its line with a
\* brace that closes a block or stands behind a header that is in order, and what is
\* well-formed is accepted (AsteriskDialplanValidator.parse_block_structure, parse_block).
THEOREM BlocksReadAlways == ApplicationSpec => []BlocksRead
<1>1. ApplicationInv => BlocksRead
  BY BlocksMeans DEF ApplicationInv, TypedInv
<1> QED BY <1>1, ApplicationInvariant, PTL

\* A pattern that is accepted can match, and of two that differ in one place the one with
\* the digit there is written first, for patterns of any length
\* (validate_asterisk_extension_prefix, _asterisk_pattern_specificity).
THEOREM PatternsReadAlways == ApplicationSpec => []PatternsRead
<1>1. ApplicationInv => PatternsRead
  BY PatternMeans DEF ApplicationInv, TypedInv
<1> QED BY <1>1, ApplicationInvariant, PTL

\* A text is accepted as AEL reads it, however long: the scans of one step for its brackets,
\* parameters, condition and braces see the same strings and brackets, nothing is lost or
\* cut by a split, and a step is taken for what it is, whichever way it is written -
\* and so are blocks and patterns (check_balanced_brackets_and_quotes, parse_parameters,
\* _find_matching_paren, validate_condition_expression, _count_structural_braces,
\* _find_assignment_operator, validate_dialplan_step).
THEOREM AelReadAsWrittenAlways == ApplicationSpec => []AelReadAsWritten
<1>1. ApplicationInv => AelReadAsWritten
  BY BlocksMeans, TextMeans, PatternMeans DEF ApplicationInv, TypedInv, AelReadAsWritten
<1> QED BY <1>1, ApplicationInvariant, PTL

\* A rename or a deletion takes no call of a text along, and no webhook's filter, unless a
\* change came between the check and the write (DialplanMacro.find_dialplan_references,
\* Queue.find_dialplan_references).
THEOREM GuardsHoldAlways == ApplicationSpec => GuardsHold
<1>1. ApplicationInv /\ [ApplicationNext]_allVars => [BreaksNone]_guardVars /\ [FiltersLost]_guardVars
  BY StepOfEach, GuardsBreakNone, GuardsKeepFilters DEF ApplicationInv, FilesInv
<1>2. ApplicationSpec => BreaksNoCall
  BY <1>1, ApplicationInvariant, PTL DEF ApplicationSpec, BreaksNoCall, BreaksNone
<1>3. ApplicationSpec => FiltersKept
  BY <1>1, ApplicationInvariant, PTL DEF ApplicationSpec, FiltersKept, FiltersLost
<1> QED BY <1>2, <1>3 DEF GuardsHold

\* app_queue reads of queues, members and rules what is in their rows; requests to add one
\* member leave as many rows of it as there were requests at once, at most; and the
\* cleanup spares whoever has an account - for any rows, rules and requests
\* (make_queues_conf, make_queuerules_conf, QueueMemberViewSet, Command.handle of
\* the cleanup).
THEOREM QueuesConsistentAlways == ApplicationSpec => []QueuesConsistent
<1>1. ApplicationInv => QueuesConsistent
  BY QconfMeans DEF ApplicationInv, FilesInv, QueuesConsistent
<1> QED BY <1>1, ApplicationInvariant, PTL

\* However many telephones, users and requests there are, no two telephones have one file,
\* and a file written after the last change holds what the rows hold
\* (PhoneDeviceForm.clean_mac_address, provision_device, generate_config_for_device).
THEOREM FilesAreTheDevicesAlways == ApplicationSpec => []FilesAreTheDevices
<1>1. ApplicationInv => FilesAreTheDevices
  BY ProvMeans DEF ApplicationInv, FilesInv, FilesAreTheDevices
<1> QED BY <1>1, ApplicationInvariant, PTL

\* The listener's configuration is the database's whenever nothing is being saved, but
\* for the excuses the property names, and a stored webhook can be triggered, for any
\* number of webhooks and changes (sync_webhooks_config, _resync, WebhookAdminForm.clean,
\* Queue.delete).
THEOREM WebhooksInSyncAlways == ApplicationSpec => []WebhooksInSync
<1>1. ApplicationInv => WebhooksInSync
  BY SyncedMeans DEF ApplicationInv, FilesInv, WebhooksInSync
<1> QED BY <1>1, ApplicationInvariant, PTL

\* Asterisk plays the music and the sounds of the rows, if need be in another format of
\* the same name, and a recording is kept for its days, found and served, for any uploads,
\* imports and runs of the scripts of cron - unless two runs overlap and one takes up a
\* file of the other's that lsof does not show
\* (make_musiconhold_conf, MOHFileSystemStorage, wav2mp3_monitor.sh, syncmp3.sh,
\* MonitorFilenames.get_audio_file_path).
THEOREM FilesAreFoundAlways == ApplicationSpec => []FilesAreFound
<1>1. ApplicationInv => FilesAreFound
  BY MediaMeans, RecMeans DEF ApplicationInv, FilesInv, AnswersInv, FilesAreFound
<1> QED BY <1>1, ApplicationInvariant, PTL

\* What the client is told was done was done; of what it is told has failed nothing rings
\* or talks, unless the connection broke or Asterisk took the action later than the margin;
\* a list is whole; a conference is refused only before its last leg is asked for - for any
\* number of legs, any times, and an Asterisk as slow as it likes
\* (AsteriskManagementInterface.send_originate, ConferenceView.post, hangup_channel).
THEOREM RequestsAnsweredAlways == ApplicationSpec => []RequestsAnswered
<1>1. ApplicationInv => RequestsAnswered
  BY AmiMeans DEF ApplicationInv, AnswersInv, RequestsAnswered
<1> QED BY <1>1, ApplicationInvariant, PTL

\* Recordings that ask once share no file and are found by their call, and a row is never
\* handed to another call, whatever calls record at once and whatever the API has asked
\* for (Database.get_monitor_filename, FastAGIHandler.mixmonitor).
THEOREM RecordingsKeptAlways == ApplicationSpec => RecordingsKept
<1>1. ApplicationInv => FileShared /\ RecordingFound
  BY AgiMeans DEF ApplicationInv, AnswersInv
<1>2. ApplicationInv /\ [ApplicationNext]_allVars => [RowsKept]_agiVars
  BY StepOfEach, AgiStep DEF ApplicationInv, AnswersInv
<1>3. ApplicationSpec => RowsKeepTheirCall
  BY <1>2, ApplicationInvariant, PTL DEF ApplicationSpec, RowsKeepTheirCall, RowsKept
<1>4. ApplicationSpec => [](FileShared /\ RecordingFound)
  BY <1>1, ApplicationInvariant, PTL
<1> QED BY <1>3, <1>4, PTL DEF RecordingsKept

\* The FastAGI scripts tell the dialplan what they did: nothing is dialled after somebody
\* was reached, the trunks of a group are dialled in turn and no more often than asked, and
\* a callback that was promised is stored, for any calls, trunks and failures
\* (FastAGIHandler.dial_with_retry, FastAGIHandler.dial_trunk_group,
\* Database.add_callback_record).
THEOREM ScriptsTellTrueAlways == ApplicationSpec => []ScriptsTellTrue
<1>1. ApplicationInv => ScriptsTellTrue
  BY ScriptMeans DEF ApplicationInv, AnswersInv, ScriptsTellTrue
<1> QED BY <1>1, ApplicationInvariant, PTL

\* Whoever was put on a list is found by his calls until he expires or somebody writes his
\* row, in one row, and no entry outlives its list, whatever forms, requests and imports
\* meet (UpsertCreateMixin.create, ListCRUDView.post, Database.is_blacklisted).
THEOREM ListsConsistentAlways == ApplicationSpec => []ListsConsistent
<1>1. ApplicationInv => ListsConsistent
  BY ListsMeans DEF ApplicationInv, AnswersInv, ListsConsistent
<1> QED BY <1>1, ApplicationInvariant, PTL

\* What the reports say of missed calls agrees, for any calls, queues, numbers and times:
\* the hours of a range add up to its calls, whom somebody has talked to is neither among
\* the remaining callers nor listed on the dashboard, and the dashboard and the analytics
\* differ only in the cases named (AnalyticsMissedCallsView, AnalyticsMissedByHourView,
\* build_lost_and_found, get_missed_calls).
THEOREM ReportsAgreeAlways == ApplicationSpec => []ReportsAgree
<1>1. ApplicationInv => ReportsAgree
  BY ReportsMeans DEF ApplicationInv, AnswersInv, ReportsAgree
<1> QED BY <1>1, ApplicationInvariant, PTL

\* Applies keep apart, however many of them, of the files and of the failures there are:
\* no lock is taken away from another, a quiet disk holds what was applied, two do not
\* write one version and do not wait for each other in a circle, and none clashes unless
\* something came between (_apply_lock, apply_to_fs, _build_cfgfiles,
\* create_configuration_file).
THEOREM AppliesApartAlways == ApplicationSpec => AppliesKeepApart
<1>1. ApplyInv => AppliesApart
  BY InvDisk, InvOneWriter, InvNoCircle DEF AppliesApart, ApplyInv
<1>2. ApplyInv /\ [ApplyNext]_applyVars => [part = "apply" => ClashOnlyIf]_allVars
  BY ClashStep
<1> QED
  BY <1>1, <1>2, ApplicationApplies, ApplyInvariant, PTL DEF ApplySpec, AppliesKeepApart

\* Whatever else the application does, the versions of its files are a ledger (post,
\* create_configuration_file, save_model).
THEOREM ApplicationKeepsALedger == ApplicationSpec => VersionsAreALedger
BY ApplicationApplies, VersionsAreALedgerAlways, PTL
=============================================================================
