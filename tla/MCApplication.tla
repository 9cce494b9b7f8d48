---------------------------- MODULE MCApplication ----------------------------
(* Instances of the parts around the database, the files and Redis for TLC: the web
   application and its API, the validators behind its forms, the FastAGI scripts that
   record, place and screen calls, the scripts of cron.  They share no state here, so a
   behaviour is one of one of them, and the others stay as they are. *)
EXTENDS ApplyChanges, SipConfig, DialplanGuards, WebhookSync, AelBlocks, AelSteps,
  ExtensionPatterns, AgiServer, Reports, Provisioning, QueueConfig, CallerLists,
  AmiRequests, CallScripts, Media, Recordings, TLC

CONSTANTS a, b          \* requests, calls, jobs: whatever runs twice
CONSTANTS t1, t2, s1, n1, n2, x1, q1

\* The validator's parsers, which read one text, and the parts that change rows, files
\* or calls.
TextParts == {"blocks", "text", "pattern"}
RowParts == {"apply", "sip", "guards", "sync", "agi", "reports", "prov", "queues", "lists",
             "ami", "scripts", "media", "rec"}

VARIABLE part     \* the part that runs

Twice == {a, b}
ThreeCalls == 1..3
Symmetry == Permutations(Twice)

\* The apply of the configuration: two generated files, and one of the same
\* name as a file of staff.
ThreePaths == {"g1", "g2", "x"}
PathOrderIs == "g2" :> 1 @@ "x" :> 2 @@ "g1" :> 3
GenOrderIs == "g1" :> 1 @@ "g2" :> 2
BaseNameIs == [f \in ThreePaths |-> f]
OfferedFiles == {<<"g1", "x">>}
NineOnly == {9}

\* The SIP rows: a transport with certificates, a trunk that is registered by the other
\* side.
TwoTransports == {t1, t2}
OneTable == {s1}
TwoNames == {n1, n2}
SomeTransports == {[protocol |-> "wss", certs |-> {}], [protocol |-> "tls", certs |-> {"ca"}]}
SomeUsers == [transport : TwoTransports, table : OneTable, extension : {TRUE}]
SomePeers ==
  [transport : {t1}, table : OneTable, there : BOOLEAN, here : {FALSE},
   username : {TRUE}, secret : {TRUE}, registration : {"host"}, match : {TRUE},
   auth : {FALSE}, aor : {FALSE}, identify : {{}}]

\* The dialplan: one row of most kinds, two contexts; a macro may call a macro and
\* a queue by a name in other letters.
RowsAre == [context |-> {1, 2}, table |-> {1}, macro |-> {1}, queue |-> {1}, group |-> {1}]
NamesAre ==
  [context |-> {"users", "c"}, table |-> {"users", "c"}, macro |-> {"m", "n"},
   queue |-> {"s", "S", "q"}, group |-> {"g"}]
FoldIs == [n \in {"s", "S", "q"} |-> IF n = "S" THEN "s" ELSE n]
Texts == {{<<"macro", "m">>, <<"queue", "S">>, <<"group", "g">>}}
OneExtension == {1}
StoredRows ==
  {[context |-> 1 :> "users", table |-> << >>, macro |-> 1 :> "m", queue |-> 1 :> "s",
    group |-> 1 :> "g"]}

\* The webhooks: one, for a context and a queue, for a routing table, or for the
\* context alone.
OneContext == {x1}
OneQueue == {q1}
OneWebhook == {n1}
OneTransport == {t1}
SomeForms ==
  {[events |-> {"incoming", "missed"}, keys |-> {x1, q1}],
   [events |-> {"outgoing"}, keys |-> {s1}], [events |-> {"missed"}, keys |-> {x1}]}

\* The texts of the dialplan: every kind of line that the parser tells apart ("noted" is
\* to it what "bad" is, "loose" what "if" is); the characters that matter.
AllLines == DOMAIN Lines \ {"noted", "loose"}
TextChars == {"(", ")", "{", "}", "dq", "'", "\\", ",", "$", "x", "="}

\* The recordings: two calls of the same parties, of which the API may have asked to
\* record one.
SameParties == [p \in Twice |-> "x"]
SafeParties == "x" :> "x"
SomeRequests == {<< >>, <<0, "api">> :> "x"}
EnableOnly == {"enable"}

\* The reports: one number written in two ways, a contact; the clocks go back after
\* the first hour.
TwoNumbers == {"n", "+n"}
NormOf(n) == IF n = "+n" THEN "n" ELSE n
OneContact == {"n"}
QueueNames == {"q"}
LocalHour(t) == IF t < 1 THEN t ELSE t - 1

\* The telephones: two devices, an address written in two ways and one without a
\* letter, a model that cannot be provisioned, a server that is neither an IPv4 address
\* nor a host name.
SomeSpellings == {"m:1", "m-1", "7"}
OnlyDigits == {"7"}
MacOf(s) == IF s = "m-1" THEN "m:1" ELSE s
Models == {"spa504g", "gxp1200", "softphone"}
Vendors == [spa504g |-> "cisco", gxp1200 |-> "grandstream"]
TwoDevices == {"d1", "d2"}
OneUser == {"u"}
Secrets == {"s", "t"}
Servers == {"sip1", "::1"}
HostNames == {"sip1"}

\* The queues: two rows, in the second form with what may be left out left out, names
\* that differ in case; a rule in two forms, two changes of the second form at the same
\* second and of the same order; members typed by hand and found.
TwoQueues == {1, 2}
LowerIs == [n \in {"s", "S", "q"} |-> IF n = "S" THEN "s" ELSE n]
QueueForms ==
  {[name |-> n, strategy |-> "ringall", timeout |-> "30", maxlen |-> "9", context |-> "c",
    autofill |-> TRUE, announcement |-> "ann", rule |-> "rule"] : n \in {"s"}}
  \cup
  {[name |-> n, strategy |-> NoValue, timeout |-> "0", maxlen |-> "0", context |-> NoValue,
    autofill |-> FALSE, announcement |-> "ann", rule |-> NoValue] : n \in {"S", "q"}}
ChangeOf(s, o, x, m, r) == [seconds |-> s, order |-> o, max |-> x, min |-> m, raise |-> r]
RuleForms ==
  {{ChangeOf(0, 0, "", "+1", ""), ChangeOf(0, 1, "5", "", "")},
   {ChangeOf(9, 0, "", "", "5"), ChangeOf(0, 0, "", "", ""), ChangeOf(0, 0, "+1", "", "")}}
TypedMember(q, i, n, st) ==
  [queue |-> q, interface |-> i, name |-> n, state |-> st, typed |-> TRUE]
MemberForms ==
  {TypedMember(1, "u", {}, NoValue), TypedMember(1, "local", {<<"x", "y">>}, "u"),
   TypedMember(2, "u", {<<"">>}, "local")}

\* Requests to Asterisk: two legs.
TwoLegs == {1, 2}

\* The signs of an extension's pattern.
EightSigns == {"1", "9", "X", "[", "]", "-", ".", "!"}

allVars ==
  <<part, applyVars, sipVars, guardVars, syncVars, lines, chars, pattern, agiVars,
    reportVars, provVars, queueVars, listVars, amiVars, scriptVars, mediaVars, recVars>>

\* Only the part that runs has more than one initial state.
Pinned(name, P) == IF part = name THEN TRUE ELSE P

FirstTransports == [t \in TwoTransports |-> CHOOSE row \in SomeTransports : TRUE]

FirstAnnounce == [k \in AnnounceKey |-> ""]
FirstRules == [k \in RuleKey |-> CHOOSE changed \in RuleForm : TRUE]

ApplicationInit ==
  /\ part \in TextParts \cup RowParts
  /\ ApplyInit /\ Pinned("apply", DOMAIN files = {})
  /\ SipInit /\ Pinned("sip", users = <<>> /\ peers = <<>> /\ transports = FirstTransports)
  /\ AgiInit /\ Pinned("agi", allow /\ monitors = <<>>)
  /\ ProvInit /\ Pinned("prov", secrets = [u \in OneUser |-> "s"])
  /\ RecInit /\ Pinned("rec", \A c \in Recorded : layout[c] = "row")
  /\ QueueInit /\ Pinned("queues", announces = FirstAnnounce /\ ruleRows = FirstRules)
  /\ AmiInit /\ Pinned("ami", wish = "hangup")
  /\ GuardsInit /\ SyncInit /\ BlocksInit /\ TextInit /\ PatternInit /\ ReportsInit
  /\ ListsInit /\ ScriptInit /\ MediaInit

\* The parts that do not run stay.
Stay(name, vars) == IF part = name THEN TRUE ELSE UNCHANGED vars

ApplicationNext ==
  /\ UNCHANGED part
  /\ \/ part = "apply" /\ ApplyNext
     \/ part = "sip" /\ SipNext
     \/ part = "guards" /\ GuardsNext
     \/ part = "sync" /\ SyncNext
     \/ part = "blocks" /\ BlocksNext
     \/ part = "text" /\ TextNext
     \/ part = "pattern" /\ PatternNext
     \/ part = "agi" /\ AgiNext
     \/ part = "reports" /\ ReportsNext
     \/ part = "prov" /\ ProvNext
     \/ part = "queues" /\ QueueNext
     \/ part = "lists" /\ ListsNext
     \/ part = "ami" /\ AmiNext
     \/ part = "scripts" /\ ScriptNext
     \/ part = "media" /\ MediaNext
     \/ part = "rec" /\ RecNext
  /\ Stay("apply", applyVars) /\ Stay("sip", sipVars) /\ Stay("guards", guardVars)
  /\ Stay("sync", syncVars) /\ Stay("blocks", lines) /\ Stay("text", chars)
  /\ Stay("pattern", pattern) /\ Stay("agi", agiVars) /\ Stay("reports", reportVars)
  /\ Stay("prov", provVars) /\ Stay("queues", queueVars) /\ Stay("lists", listVars)
  /\ Stay("ami", amiVars) /\ Stay("scripts", scriptVars) /\ Stay("media", mediaVars)
  /\ Stay("rec", recVars)

ApplicationSpec == ApplicationInit /\ [][ApplicationNext]_allVars

\* The type invariants of the parts, of the one that runs.
ApplicationTypeOK ==
  CASE part = "apply" -> ApplyTypeOK
    [] part = "sip" -> SipTypeOK
    [] part = "guards" -> GuardsTypeOK
    [] part = "sync" -> SyncTypeOK
    [] part = "agi" -> AgiTypeOK
    [] part = "reports" -> ReportsTypeOK
    [] part = "prov" -> ProvTypeOK
    [] part = "queues" -> QueueTypeOK
    [] part = "lists" -> ListsTypeOK
    [] part = "ami" -> AmiTypeOK
    [] part = "scripts" -> ScriptTypeOK
    [] part = "media" -> MediaTypeOK
    [] part = "rec" -> RecTypeOK
    [] part \in TextParts -> TRUE

\* Applies that meet one another: none takes a lock that is another's, a quiet disk is
\* the applied one, and two of them neither wait in a circle nor store one version; and
\* an apply clashes only with something that came between or with a wrong name.
AppliesApart == part = "apply" => LockKept /\ DiskIsApplied /\ OneWriterPerVersion /\ NoneWaitInCircle
AppliesKeepApart ==
  []AppliesApart /\ [][part = "apply" => ClashOnlyIf]_allVars

\* extensions.ael, put together from the rows, loads.
AelConsistent ==
  part = "guards" => GeneratedOnce /\ ExtensionsGenerated /\ MacrosExist

\* The listener's configuration is the database's, and each webhook in it has a use.
WebhooksInSync ==
  part = "sync" => ConfigIsCurrent /\ FiltersStayUseful

\* The reports agree with what happened and with one another.
ReportsAgree ==
  part = "reports" =>
    /\ TotalsAgree /\ ReachedIsNotRemaining /\ ReachedIsNotListed
    /\ ListsDifferOnlyBy /\ ContactsCountedOnlyIfEarly

\* Each telephone has a file of its own, and a fresh one is right.
FilesAreTheDevices ==
  part = "prov" => OneFilePerDevice /\ FreshIsCurrent

\* The scripts find whom staff, the API and the imports have listed.
ListsConsistent ==
  part = "lists" => PromisesKept /\ NoTwins /\ EntriesListed

\* What the API and the panel answer is what Asterisk did.
RequestsAnswered ==
  part = "ami" => FailedIsOver /\ DoneIsDone /\ ListIsWhole /\ RefusedHalfway

\* What the scripts of FastAGI tell the dialplan is what they did.
ScriptsTellTrue ==
  part = "scripts" =>
    OneReached /\ ToldAsDialled /\ AttemptsGoRound /\ AttemptsBounded /\ PromisedIsStored

\* The validators accept a text only as Asterisk would read it.
AelReadAsWritten ==
  part \in TextParts => BlocksRead /\ TextRead /\ StepsRead /\ PatternsRead

\* pjsip.conf and the contexts that dial through it fit together.
PjsipConsistent ==
  part = "sip" =>
    /\ ReferencesResolve /\ SectionsUnique /\ RegistersIfAccepted
    /\ IdentifiedAsOffered /\ DialledHaveEndpoints /\ MembersHaveEndpoints

\* The rows of the queues, the files and app_queue agree.
QueuesConsistent ==
  part = "queues" => OptionsRead /\ MembersRead /\ RulesRead /\ FewTwins /\ CleanupSpares

\* Music, sounds and recordings are found where they are looked for.
FilesAreFound == part \in {"media", "rec"} => MediaConsistent /\ RecordingsServed
=============================================================================
