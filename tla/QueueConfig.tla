----------------------------- MODULE QueueConfig -----------------------------
(***************************************************************************)
(* The call queues: the rows of queues, members, announcements, escalation *)
(* rules and global settings (core/models.py), the admin, the API and the  *)
(* commands that change them, and what core/conf.py writes of them to      *)
(* queues.conf and queuerules.conf.  A member is a row with an interface   *)
(* in text.  Nothing in the database keeps a queue from having two members *)
(* of one interface: whoever adds one looks first and then inserts.        *)
(* A text is the set of its options that are not comments, or the sequence *)
(* of its columns; a number is the text it is written as.                  *)
(***************************************************************************)
EXTENDS Naturals, FiniteSets, FiniteSetsExt, Functions, Sequences, Maps

CONSTANTS
  QueueKey, RuleKey, AnnounceKey,  \* the rows there can be
  QueueForm,      \* what staff saves of a queue
  RuleForm,       \* what staff saves of a rule: its changes
  AnnounceForm,   \* what staff saves of an announcement
  MemberForm,     \* the members that staff types in the admin
  Lower,          \* the name of a queue in lower case
  CalledQueues,        \* the queues that the dialplan calls, in lower case
  Account,        \* the names of SIP users and trunks there can be
  Local,          \* an interface that is not PJSIP's
  Adder,          \* requests and commands that add members
  MaxMembers,     \* bound: rows of members, ever
  MaxEditions     \* bound: changes of the other tables

NoValue == "null"    \* NULL in the database
Falsy == {NoValue, "", "0"}

\* Of a queue: an option of each way it is written.
QueueRows ==
  [name : DOMAIN Lower, strategy : {NoValue, "ringall"}, timeout : {"0", "30"},
   maxlen : {"0", "9"}, context : {NoValue, "", "c"}, autofill : BOOLEAN,
   announcement : AnnounceKey, rule : RuleKey \cup {NoValue}]

\* Of a member: PJSIP/<name> is written as the name; its own name is NULL, {}, or is in
\* words between which there are commas; typed (history) says that staff wrote it.
Interface == Account \cup {Local}
MemberRows ==
  [queue : QueueKey, interface : Interface, name : {{}} \cup {{<<n>>} : n \in Account}
     \cup {{<<"">>}, {<<"x", "y">>}}, state : Interface \cup {NoValue}, typed : BOOLEAN]

Absolute == {"", "5", "+1"}

\* Of a rule's change: when, in which order, and the three penalties.
Changed == [seconds : 0..60, order : 0..9, max : Absolute, min : Absolute, raise : Absolute]

\* The quickstart's queue has the first key; a rule stands for its name, which is not empty.
ASSUME QueueAssumption ==
  /\ Local \notin Account /\ NoValue \notin Interface
  /\ \E q \in QueueKey : \A p \in QueueKey : q <= p
  /\ RuleKey \cap Falsy = {}
  /\ QueueForm \subseteq QueueRows
  /\ MemberForm \subseteq {row \in MemberRows : row.typed}
  /\ \A changes \in RuleForm : changes \subseteq Changed /\ IsFiniteSet(changes)
  /\ IsFiniteSet(Adder)
  /\ MaxMembers \in Nat /\ MaxEditions \in Nat

VARIABLES
  queueRows,   \* queues, by key
  memberRows,  \* queue_members, by key
  ruleRows,     \* queue_rules, by key, with their penalty_changes
  announces,   \* queue_announcements, by key: queue_thankyou
  global,      \* call_queue_global_settings: the row's monitor type, if there is one
  accounts,    \* the SIP users and trunks
  adding,      \* where each adder is: <<>> or what it looked for and did not find
  cleaner,     \* what cleanup_orphan_queue_members has read, and is about to delete
  lastKey,     \* the newest key of a member
  editions,    \* how many changes staff made
  stayed       \* history: the accounts, and the rows of members as they are, that
               \* there have been since the cleanup read them

queueVars ==
  <<queueRows, memberRows, ruleRows, announces, global, accounts, adding, cleaner, lastKey,
    editions, stayed>>

Idle == [at |-> "idle", names |-> {}, doomed |-> {}]
Nobody == [accounts |-> {}, rows |-> {}]

\* One invariant for the types of the variables.
QueueTypeOK ==
  /\ DOMAIN queueRows \subseteq QueueKey
  /\ \A q \in DOMAIN queueRows :
       /\ queueRows[q] \in QueueRows
       /\ queueRows[q].announcement \in DOMAIN announces
       /\ queueRows[q].rule \in DOMAIN ruleRows \cup {NoValue}
  /\ DOMAIN memberRows \subseteq 1 .. MaxMembers
  /\ \A m \in DOMAIN memberRows :
       memberRows[m] \in MemberRows /\ memberRows[m].queue \in DOMAIN queueRows
  /\ DOMAIN ruleRows \subseteq RuleKey /\ \A r \in DOMAIN ruleRows : ruleRows[r] \subseteq Changed
  /\ DOMAIN announces \subseteq AnnounceKey
  /\ global \in {NoValue, "MixMonitor", "Monitor"}
  /\ accounts \subseteq Account
  /\ cleaner.at \in {"idle", "read", "listed"} /\ cleaner.doomed \subseteq 1 .. MaxMembers
  /\ editions \in 0 .. MaxEditions

-----------------------------------------------------------------------------
(* queues.conf and queuerules.conf.                                            *)

\* Mutant of Opt: what is left out is written all the same.
OptVerbatim(key, value) == {<<key, IF value = NoValue THEN "None" ELSE value>>}

\* _opt: a value that is not true leaves a comment.
Opt(key, value) == IF value \in Falsy THEN {} ELSE {<<key, value>>}

\* An f-string writes what there is.
Verbatim(key, value) == {<<key, IF value = NoValue THEN "None" ELSE value>>}

YesNo(key, value) == {<<key, IF value THEN "yes" ELSE "no">>}

\* _make_single_queue_config, without the members.
QueueOptions(row) ==
  Verbatim("strategy", row.strategy) \cup Opt("maxlen", row.maxlen)
    \cup Opt("context", row.context) \cup Opt("timeout", row.timeout)
    \cup YesNo("autofill", row.autofill)
    \cup Opt("queue-thankyou", announces[row.announcement])
    \cup Opt("defaultrule", row.rule)

\* Mutant of MemberColumns: a member without a state interface has no column for it.
MemberColumnsShort(row) ==
  <<row.interface, "100">>
    \o (IF row.name = {} THEN <<"None">> ELSE CHOOSE words \in row.name : TRUE)
    \o (IF row.state \in Falsy THEN << >> ELSE <<row.state>>) \o <<"no", "0">>

\* The columns after "member =>".
MemberColumns(row) ==
  <<row.interface, "100">>
    \o (IF row.name = {} THEN <<"None">> ELSE CHOOSE words \in row.name : TRUE)
    \o <<IF row.state = NoValue THEN "" ELSE row.state, "no", "0">>

MembersOf(q) == {m \in DOMAIN memberRows : memberRows[m].queue = q}

\* The file's sections, in the order of the keys.
QueueSections ==
  [q \in DOMAIN queueRows |->
    [name |-> queueRows[q].name, options |-> QueueOptions(queueRows[q]),
     members |-> {MemberColumns(memberRows[m]) : m \in MembersOf(q)}]]

\* Mutant of PenaltyColumns: every empty column is left out.
PenaltyColumnsSqueezed(change) ==
  SelectSeq(<<change.max, change.min, change.raise>>, LAMBDA column : column # "")

\* The columns after "penaltychange => <seconds>": the empty ones at the end are left out.
PenaltyColumns(change) ==
  LET parts == <<change.max, change.min, change.raise>>
      last == Max({0} \cup {i \in 1..3 : parts[i] # ""})
  IN SubSeq(parts, 1, last)

Earlier(c, d) == c.seconds < d.seconds \/ (c.seconds = d.seconds /\ c.order < d.order)

\* By second and then by order; the database may give two of one second and one order
\* either way.
Sortings(changes) ==
  {s \in [1 .. Cardinality(changes) -> changes] :
     \A i, j \in DOMAIN s : i < j => s[i] # s[j] /\ ~Earlier(s[j], s[i])}

\* A rule's lines.
RuleLines(r) ==
  LET sorted == CHOOSE s \in Sortings(ruleRows[r]) : TRUE
  IN [i \in DOMAIN sorted |->
           [seconds |-> sorted[i].seconds, columns |-> PenaltyColumns(sorted[i])]]

\* The general section: the row's, or the defaults of the generator.
GeneralOptions == {<<"monitor-type", IF global = NoValue THEN "MixMonitor" ELSE global>>}

-----------------------------------------------------------------------------
(* What app_queue makes of them.                                               *)

AsteriskDefault ==
  [strategy |-> "ringall", maxlen |-> "0", context |-> "", timeout |-> "15",
   autofill |-> "no", defaultrule |-> ""]

\* An option of a section, or Asterisk's own default.
OptionRead(options, key) ==
  IF \E line \in options : line[1] = key
  THEN (CHOOSE line \in options : line[1] = key)[2] ELSE AsteriskDefault[key]

\* A column, empty when the line is too short.
Column(columns, i) == IF i <= Len(columns) THEN columns[i] ELSE ""

-----------------------------------------------------------------------------
(* Staff changes queues, rules and announcements.                              *)

Editing == editions < MaxEditions /\ editions' = editions + 1

KeepsName(q, form) == q \notin DOMAIN queueRows \/ queueRows[q].name = form.name

\* A queue is saved in the admin or, with a strategy, through the API: its name is
\* unique as written, and stays while the dialplan calls it.
SaveQueue(q, form, api) ==
  /\ Editing
  /\ api => form.strategy # NoValue
  /\ form.announcement \in DOMAIN announces /\ form.rule \in DOMAIN ruleRows \cup {NoValue}
  /\ \A other \in DOMAIN queueRows \ {q} : queueRows[other].name # form.name
  /\ ~KeepsName(q, form) => Lower[queueRows[q].name] \notin CalledQueues
  /\ queueRows' = With(queueRows, q, form)
  /\ UNCHANGED <<memberRows, ruleRows, announces, global, accounts, adding, cleaner, lastKey,
                 stayed>>

\* The queues and, with them, their members.
Cascade(gone) ==
  /\ queueRows' = Restrict(queueRows, DOMAIN queueRows \ gone)
  /\ memberRows' = Restrict(memberRows, DOMAIN memberRows \ UNION {MembersOf(q) : q \in gone})

\* Queue.delete refuses while the dialplan calls the queue.
DeleteQueue(q) ==
  /\ Editing /\ q \in DOMAIN queueRows
  /\ Lower[queueRows[q].name] \notin CalledQueues
  /\ Cascade({q})
  /\ UNCHANGED <<ruleRows, announces, global, accounts, adding, cleaner, lastKey, stayed>>

\* The rows of a rule and of its changes, in one form.
SaveRule(r, form) ==
  /\ Editing
  /\ ruleRows' = With(ruleRows, r, form)
  /\ UNCHANGED <<queueRows, memberRows, announces, global, accounts, adding, cleaner, lastKey,
                 stayed>>

\* Mutant of Unruled: the key stays.
UnruledNot(row, r) == row

Unruled(row, r) == IF row.rule = r THEN [row EXCEPT !.rule = NoValue] ELSE row

\* A rule goes with its changes; the queues keep none (SET_NULL).
DeleteRule(r) ==
  /\ Editing /\ r \in DOMAIN ruleRows
  /\ ruleRows' = Without(ruleRows, r)
  /\ queueRows' = [q \in DOMAIN queueRows |-> Unruled(queueRows[q], r)]
  /\ UNCHANGED <<memberRows, announces, global, accounts, adding, cleaner, lastKey, stayed>>

SaveAnnouncement(k, text) ==
  /\ Editing
  /\ announces' = With(announces, k, text)
  /\ UNCHANGED <<queueRows, memberRows, ruleRows, global, accounts, adding, cleaner, lastKey,
                 stayed>>

\* The queues of an announcement go with it (CASCADE).  Queue.delete is not called, but
\* the admin asks for every row that would go whether it may be deleted, and a queue
\* that the dialplan calls may not.
DeleteAnnouncement(k) ==
  LET gone == {q \in DOMAIN queueRows : queueRows[q].announcement = k} IN
  /\ Editing /\ k \in DOMAIN announces
  /\ \A q \in gone : Lower[queueRows[q].name] \notin CalledQueues
  /\ announces' = Without(announces, k)
  /\ Cascade(gone)
  /\ UNCHANGED <<ruleRows, global, accounts, adding, cleaner, lastKey, stayed>>

\* save() gives every row the key 1: there is one.
SaveGlobal(type) ==
  /\ Editing
  /\ global' = type
  /\ UNCHANGED <<queueRows, memberRows, ruleRows, announces, accounts, adding, cleaner, lastKey,
                 stayed>>

-----------------------------------------------------------------------------
(* The members.                                                                *)

Inserted(row) ==
  /\ lastKey < MaxMembers /\ lastKey' = lastKey + 1
  /\ memberRows' = With(memberRows, lastKey + 1, row)

SameInterface(q, name) == {m \in MembersOf(q) : memberRows[m].interface = name}

\* Mutant of Missing: nobody looks.
MissingUnseen(q, name, api) == (api \/ name \in accounts) /\ q \in DOMAIN queueRows

\* UniqueTogetherValidator, and the get of get_or_create: there is no such member (two
\* of them make get_or_create fail).  The admin and the command take existing users.
Missing(q, name, api) ==
  /\ q \in DOMAIN queueRows
  /\ api \/ name \in accounts
  /\ SameInterface(q, name) = {}

Look(a, q, name, api) ==
  /\ adding[a] = <<>> /\ lastKey < MaxMembers
  /\ Missing(q, name, api)
  /\ adding' = [adding EXCEPT ![a] = <<q, name>>]
  /\ UNCHANGED <<queueRows, memberRows, ruleRows, announces, global, accounts, cleaner, lastKey,
                 editions, stayed>>

\* The insert, which fails when the queue has gone.
InsertMember(a) ==
  /\ adding[a] # <<>>
  /\ LET q == adding[a][1]
         name == adding[a][2]
     IN IF q \in DOMAIN queueRows /\ lastKey < MaxMembers
        THEN Inserted([queue |-> q, interface |-> name, name |-> {<<name>>}, state |-> name,
                       typed |-> FALSE])
        ELSE UNCHANGED <<memberRows, lastKey>>
  /\ adding' = [adding EXCEPT ![a] = <<>>]
  /\ UNCHANGED <<queueRows, ruleRows, announces, global, accounts, cleaner, editions, stayed>>

\* Staff types a member in the admin, where nothing looks for another.
TypeRow(row) ==
  /\ Editing
  /\ row.queue \in DOMAIN queueRows
  /\ Inserted(row)
  /\ UNCHANGED <<queueRows, ruleRows, announces, global, accounts, adding, cleaner, stayed>>

\* ... or changes one.
ChangeRow(m, row) ==
  /\ Editing
  /\ m \in DOMAIN memberRows /\ row.queue \in DOMAIN queueRows
  /\ memberRows' = [memberRows EXCEPT ![m] = row]
  /\ stayed' = [stayed EXCEPT !.rows = @ \ {m}]
  /\ UNCHANGED <<queueRows, ruleRows, announces, global, accounts, adding, cleaner, lastKey>>

DeleteRow(m) ==
  /\ Editing /\ m \in DOMAIN memberRows
  /\ memberRows' = Without(memberRows, m)
  /\ UNCHANGED <<queueRows, ruleRows, announces, global, accounts, adding, cleaner, lastKey,
                 stayed>>

AddAccount(name) ==
  /\ Editing
  /\ accounts' = accounts \cup {name}
  /\ UNCHANGED <<queueRows, memberRows, ruleRows, announces, global, adding, cleaner, lastKey,
                 stayed>>

\* A user is deleted and, by the signal, the members of its interface.
DeleteAccount(name) ==
  /\ Editing /\ name \in accounts
  /\ accounts' = accounts \ {name}
  /\ memberRows' = Restrict(memberRows,
                     {m \in DOMAIN memberRows : memberRows[m].interface # name})
  /\ stayed' = [stayed EXCEPT !.accounts = @ \ {name}]
  /\ UNCHANGED <<queueRows, ruleRows, announces, global, adding, cleaner, lastKey>>

\* cleanup_orphan_queue_members reads the names of users and trunks, ...
CleanupReads ==
  /\ cleaner.at = "idle"
  /\ cleaner' = [Idle EXCEPT !.at = "read", !.names = accounts]
  /\ stayed' = [accounts |-> accounts, rows |-> {}]
  /\ UNCHANGED <<queueRows, memberRows, ruleRows, announces, global, accounts, adding, lastKey,
                 editions>>

\* Mutant of Orphan: every interface without an account is taken for an orphan.
OrphanAny(row, names) == row.interface \notin names

\* Neither a user's nor a trunk's interface; others are left alone.
Orphan(row, names) == row.interface # Local /\ row.interface \notin names

\* ... then the members, ...
CleanupLists ==
  /\ cleaner.at = "read"
  /\ cleaner' = [cleaner EXCEPT !.at = "listed",
                   !.doomed = {m \in DOMAIN memberRows : Orphan(memberRows[m], cleaner.names)}]
  /\ stayed' = [stayed EXCEPT !.rows = DOMAIN memberRows]
  /\ UNCHANGED <<queueRows, memberRows, ruleRows, announces, global, accounts, adding, lastKey,
                 editions>>

\* ... and deletes the orphans by their keys.
CleanupDeletes ==
  /\ cleaner.at = "listed"
  /\ memberRows' = Restrict(memberRows, DOMAIN memberRows \ cleaner.doomed)
  /\ cleaner' = Idle /\ stayed' = Nobody
  /\ UNCHANGED <<queueRows, ruleRows, announces, global, accounts, adding, lastKey, editions>>

\* The quickstart's queue, with a user.
QueueInit ==
  /\ \E form \in QueueForm, k \in AnnounceKey, text \in AnnounceForm, changed \in RuleForm,
        r \in RuleKey :
       /\ form.announcement = k /\ form.rule = r
       /\ announces = With(<< >>, k, text) /\ ruleRows = With(<< >>, r, changed)
       /\ queueRows = With(<< >>, CHOOSE q \in QueueKey : \A p \in QueueKey : q <= p, form)
  /\ memberRows = <<>> /\ global = NoValue
  /\ accounts = Account
  /\ adding = [a \in Adder |-> <<>>]
  /\ cleaner = Idle /\ lastKey = 0 /\ editions = 0 /\ stayed = Nobody

QueueNext ==
  \/ \E q \in QueueKey :
       \/ \E form \in QueueForm, api \in BOOLEAN : SaveQueue(q, form, api)
       \/ DeleteQueue(q)
  \/ \E r \in RuleKey : DeleteRule(r) \/ \E form \in RuleForm : SaveRule(r, form)
  \/ \E k \in AnnounceKey :
       DeleteAnnouncement(k) \/ \E text \in AnnounceForm : SaveAnnouncement(k, text)
  \/ \E type \in {"MixMonitor", "Monitor"} : SaveGlobal(type)
  \/ \E a \in Adder :
       \/ InsertMember(a)
       \/ \E q \in QueueKey, name \in Account, api \in BOOLEAN : Look(a, q, name, api)
  \/ \E row \in MemberForm :
       TypeRow(row) \/ \E m \in DOMAIN memberRows : ChangeRow(m, row)
  \/ \E m \in DOMAIN memberRows : DeleteRow(m)
  \/ \E name \in Account : AddAccount(name) \/ DeleteAccount(name)
  \/ CleanupReads \/ CleanupLists \/ CleanupDeletes

QueueSpec == QueueInit /\ [][QueueNext]_queueVars

-----------------------------------------------------------------------------
(* Properties.                                                                 *)

\* No other queue's name is the same for app_queue.
OnlyOne(q) ==
  \A other \in DOMAIN queueRows \ {q} :
    Lower[queueRows[other].name] # Lower[queueRows[q].name]

\* The options in the row, as an administrator means them; a timeout of zero, that the
\* generator takes for none, is not among them.
Meant(row) ==
  [maxlen |-> row.maxlen, timeout |-> row.timeout,
   context |-> IF row.context = NoValue THEN "" ELSE row.context,
   autofill |-> IF row.autofill THEN "yes" ELSE "no",
   defaultrule |-> IF row.rule = NoValue THEN "" ELSE row.rule]

\* app_queue reads of a queue what is in its row, as far as the row says it.
OptionsRead ==
  \A q \in DOMAIN queueRows :
    LET row == queueRows[q]
    IN OnlyOne(q) =>
         \A key \in DOMAIN Meant(row) \ (IF row.timeout = "0" THEN {"timeout"} ELSE {}) :
           OptionRead(QueueSections[q].options, key) = Meant(row)[key]

\* app_queue reads of a member what is in its row: the name, when it has no comma,
\* moves no other column.
MembersRead ==
  \A q \in DOMAIN queueRows : \A m \in MembersOf(q) :
    LET row == memberRows[m]
        columns == MemberColumns(row)
    IN (\A words \in row.name : Len(words) < 2) =>
         /\ columns \in QueueSections[q].members
         /\ columns[1] = row.interface
         /\ Column(columns, 4) = (IF row.state = NoValue THEN "" ELSE row.state)
         /\ Column(columns, 5) = "no" /\ Column(columns, 6) = "0"

\* The rule that a queue names has a section, and app_queue reads of each change what
\* is in its row; at one second the last line is the change of the highest order.
RulesRead ==
  /\ \A q \in DOMAIN queueRows : \A line \in QueueSections[q].options :
       line[1] = "defaultrule" => line[2] \in DOMAIN ruleRows
  /\ \A r \in DOMAIN ruleRows : \A change \in ruleRows[r] :
       LET lines_ == RuleLines(r)
       IN \E i \in DOMAIN lines_ :
            /\ lines_[i].seconds = change.seconds
            /\ <<Column(lines_[i].columns, 1), Column(lines_[i].columns, 2),
                 Column(lines_[i].columns, 3)>> = <<change.max, change.min, change.raise>>
            /\ (\A other \in ruleRows[r] \ {change} : other.seconds = change.seconds
                   => other.order < change.order)
                 => \A j \in DOMAIN lines_ : j > i => lines_[j].seconds > change.seconds

\* Of the rows that nobody typed, one interface has in a queue at most as many as there
\* were requests at once: a later request finds one, and adds none.
FewTwins ==
  \A q \in DOMAIN queueRows, name \in Account :
    Cardinality({m \in SameInterface(q, name) : ~memberRows[m].typed})
      + Cardinality({a \in Adder : adding[a] = <<q, name>>}) <= Cardinality(Adder)

\* The cleanup is about to delete no member whose account was there all the time, unless
\* staff has changed the row meanwhile.
CleanupSpares ==
  \A m \in cleaner.doomed \cap DOMAIN memberRows \cap stayed.rows :
    memberRows[m].interface \notin stayed.accounts \cup {Local}
=============================================================================
