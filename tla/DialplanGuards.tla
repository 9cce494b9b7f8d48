---------------------------- MODULE DialplanGuards ----------------------------
(***************************************************************************)
(* The names of the dialplan and the guards on them (core/models.py, with  *)
(* core/forms.py, core/admin.py and apps/api/serializers.py).  Contexts    *)
(* and routing tables share one name space but are two tables; extensions, *)
(* macros and the template of the local users call macros, queues and      *)
(* trunk groups by name, in text.  So every guard is a query before the    *)
(* statement that writes: a request checks, a model's save() or delete()   *)
(* checks again, and then it writes; another request may write in between. *)
(* Of a text only its calls matter.                                        *)
(***************************************************************************)
EXTENDS Naturals, FiniteSets, Functions, Maps

CONSTANTS
  Request,    \* requests that are being served
  Rows,       \* by kind, the primary keys there can be
  NamesOf,    \* by kind, the names that staff gives
  Fold,       \* a name in lower case
  UsersName,  \* PEARLPBX_DEFAULT_ROUTING_RECORD
  Extension,  \* rows of dialplan_extensions
  Text,       \* the texts that staff writes: sets of calls <<kind, name>>
  Stored,     \* the rows of each kind at the start, one of these
  MaxWrites   \* bound: changes

Scope == {"context", "table"}            \* the name is a context's
Called == {"macro", "queue", "group"}    \* the name is called in texts
Kind == Scope \cup Called

\* The database begins with the users' context (seed_quickstart) and with names that the
\* constraints and the guards allow.
ASSUME GuardsAssumption ==
  /\ DOMAIN Rows = Kind /\ DOMAIN NamesOf = Kind
  /\ \A text \in Text : \A call \in text : call[1] \in Called /\ call[2] \in NamesOf[call[1]]
  /\ \A stored \in Stored :
       /\ DOMAIN stored = Kind
       /\ \A kind \in Kind :
            /\ DOMAIN stored[kind] \subseteq Rows[kind] /\ Range(stored[kind]) \subseteq NamesOf[kind]
            /\ \A k, l \in DOMAIN stored[kind] : stored[kind][k] = stored[kind][l] => k = l
       /\ UsersName \in Range(stored["context"])
       /\ Range(stored["context"]) \cap Range(stored["table"]) = {}
  /\ MaxWrites \in Nat

VARIABLES
  rows,      \* by kind, the names of the rows
  bodies,    \* the texts of the macros
  exts,      \* the extensions: context and text
  template,  \* Settings.local_users_dial_template
  hooks,     \* the contexts and tables in the filters of webhooks
  asked,     \* what each request was asked
  at,        \* where it is: "idle", "checked", "saving"
  late,      \* its checks that another request's change has followed
  writes,    \* how many changes were made
  torn       \* history: the damage done by changes that came between

guardVars == <<rows, bodies, exts, template, hooks, asked, at, late, writes, torn>>

Nothing == [op |-> "nothing"]
Other(kind) == IF kind = "context" THEN "table" ELSE "context"

\* The changes that staff asks for through the admin and the API: only macros have a text.
Changes ==
  (UNION {[op : {"save"}, kind : {kind}, key : Rows[kind], name : NamesOf[kind],
           text : IF kind = "macro" THEN Text ELSE {{}}] : kind \in Kind})
    \cup (UNION {[op : {"delete"}, kind : {kind}, key : Rows[kind]] : kind \in Kind})
    \cup [op : {"extension"}, ext : Extension, key : Rows["context"], text : Text]
    \cup [op : {"drop"}, ext : Extension] \cup [op : {"template"}, text : Text]
    \cup (UNION {[op : {"filter"}, kind : {kind}, key : Rows[kind]] : kind \in Scope})

\* One invariant for the types of the variables.
GuardsTypeOK ==
  /\ DOMAIN rows = Kind
  /\ \A kind \in Kind : /\ DOMAIN rows[kind] \subseteq Rows[kind]
                        /\ Range(rows[kind]) \subseteq NamesOf[kind]
  /\ DOMAIN bodies = DOMAIN rows["macro"] /\ Range(bodies) \subseteq Text \cup {{}}
  /\ DOMAIN exts \subseteq Extension
  /\ \A e \in DOMAIN exts : exts[e].context \in DOMAIN rows["context"] /\ exts[e].text \in Text
  /\ template \in Text \cup {{}}
  /\ \A hook \in hooks : hook[1] \in Scope /\ hook[2] \in DOMAIN rows[hook[1]]
  /\ asked \in [Request -> Changes \cup {Nothing}]
  /\ at \in [Request -> {"idle", "checked", "saving"}]
  /\ late \in [Request -> SUBSET {"checked", "saving"}]
  /\ writes \in 0 .. MaxWrites

-----------------------------------------------------------------------------
(* The queries.                                                                *)

\* app_queue compares names without case; a macro and a trunk group are found by
\* the exact name.
Same(kind, n, m) == IF kind = "queue" THEN Fold[n] = Fold[m] ELSE n = m

\* Mutant of Calls: a queue is looked for by its exact name.
CallsExactly(text, kind, name) == <<kind, name>> \in text

Calls(text, kind, name) ==
  \E call \in text : call[1] = kind /\ Same(kind, call[2], name)

\* find_dialplan_references finds the name: in an extension, in a macro (that is not
\* of this name, when it is a macro's), and for a macro in the template.
Referenced(kind, name) ==
  \/ \E e \in DOMAIN exts : Calls(exts[e].text, kind, name)
  \/ \E m \in DOMAIN bodies :
       /\ kind = "macro" => rows["macro"][m] # name
       /\ Calls(bodies[m], kind, name)
  \/ kind = "macro" /\ Calls(template, kind, name)

Macros == Range(rows["macro"])
MacrosIn(text) == {call[2] : call \in {c \in text : c[1] = "macro"}}

\* The form, the serializer and the model's clean(): a context and a routing table do
\* not share a name.
FreeName(kind, name) == kind \in Scope => name \notin Range(rows[Other(kind)])

Keeps(kind, key, name) == key \notin DOMAIN rows[kind] \/ rows[kind][key] = name

\* The users' context keeps its name, and what a text calls is not renamed.
MayName(kind, key, name) ==
  /\ FreeName(kind, name)
  /\ ~Keeps(kind, key, name) =>
       /\ kind = "context" => rows[kind][key] # UsersName
       /\ kind \in Called => ~Referenced(kind, rows[kind][key])

\* Mutant of MayDelete: a webhook's filter does not keep its context.
MayDeleteFiltered(kind, key) ==
  /\ key \in DOMAIN rows[kind]
  /\ kind = "context" => rows[kind][key] # UsersName
  /\ kind \in Called => ~Referenced(kind, rows[kind][key])

\* delete(): not the users' context, nothing that a webhook filters by, nothing that
\* is called.
MayDelete(kind, key) ==
  /\ key \in DOMAIN rows[kind]
  /\ kind = "context" => rows[kind][key] # UsersName
  /\ kind \in Scope => <<kind, key>> \notin hooks
  /\ kind \in Called => ~Referenced(kind, rows[kind][key])

\* Extensions of the users' context would never be generated.
InContext(key) == key \in DOMAIN rows["context"] /\ rows["context"][key] # UsersName

\* Mutant of MayExtend: the macros that a text calls are not looked up.
MayExtendAnyhow(key, text) == InContext(key)

\* Mutant of MayExtend: the users' context is offered too.
MayExtendUsers(key, text) ==
  key \in DOMAIN rows["context"] /\ MacrosIn(text) \subseteq Macros

\* An extension calls only macros that exist.  Nothing asks whether queues and trunk
\* groups do.
MayExtend(key, text) == InContext(key) /\ MacrosIn(text) \subseteq Macros

\* What a request has passed when it begins to write.  The texts of macros and of the
\* template are not checked.
Checked(change) ==
  CASE change.op = "save" -> MayName(change.kind, change.key, change.name)
    [] change.op = "delete" -> MayDelete(change.kind, change.key)
    [] change.op = "extension" -> MayExtend(change.key, change.text)
    [] OTHER -> TRUE

\* Mutant of SavePasses: save() does not ask again.
SavePassesBlindly(change) == TRUE

\* save() of a context or a routing table asks the other table once more, except for
\* the row that happens to have the same key.
SavePasses(change) ==
  \A k \in DOMAIN rows[Other(change.kind)] :
    \/ change.key \in DOMAIN rows[change.kind] /\ k = change.key
    \/ rows[Other(change.kind)][k] # change.name

-----------------------------------------------------------------------------
(* The damage: what the guards are for.                                        *)

\* The contexts of extensions.ael, each with what it is made from.
Emitted ==
  {<<"users", 0, UsersName>>}
    \cup {<<"context", k, rows["context"][k]>> :
            k \in {c \in DOMAIN rows["context"] : rows["context"][c] # UsersName}}
    \cup {<<"table", k, rows["table"][k]>> : k \in DOMAIN rows["table"]}

Damage ==
  {<<"twice", c[3]>> : c \in {d \in Emitted : \E e \in Emitted : e # d /\ e[3] = d[3]}}
    \cup {<<"left out", e>> :
            e \in {x \in DOMAIN exts : rows["context"][exts[x].context] = UsersName}}
    \cup (UNION {{<<"no macro", m>> : m \in MacrosIn(exts[e].text) \ Macros}
                  : e \in DOMAIN exts})

-----------------------------------------------------------------------------
(* The actions.                                                                *)

GuardsInit ==
  /\ rows \in Stored
  /\ bodies = [m \in DOMAIN rows["macro"] |-> {}]
  /\ exts = << >> /\ template = {} /\ hooks = {}
  /\ asked = [r \in Request |-> Nothing]
  /\ at = [r \in Request |-> "idle"]
  /\ late = [r \in Request |-> {}]
  /\ writes = 0 /\ torn = {}

\* A request is validated, or refused.
Check(r, change) ==
  /\ at[r] = "idle" /\ writes < MaxWrites
  /\ Checked(change)
  /\ asked' = [asked EXCEPT ![r] = change]
  /\ at' = [at EXCEPT ![r] = "checked"]
  /\ UNCHANGED <<rows, bodies, exts, template, hooks, late, writes, torn>>

Finish(r) == /\ asked' = [asked EXCEPT ![r] = Nothing]
             /\ at' = [at EXCEPT ![r] = "idle"]

\* save() of a context or a routing table: refused, or on to the statement.
Recheck(r) ==
  /\ at[r] = "checked"
  /\ asked[r].op = "save" /\ asked[r].kind \in Scope
  /\ IF SavePasses(asked[r])
     THEN at' = [at EXCEPT ![r] = "saving"] /\ UNCHANGED <<asked, late>>
     ELSE Finish(r) /\ late' = [late EXCEPT ![r] = {}]
  /\ UNCHANGED <<rows, bodies, exts, template, hooks, writes, torn>>

\* The request is ready for its statement.
Ready(r) ==
  /\ writes < MaxWrites
  /\ IF asked[r] # Nothing /\ asked[r].op = "save" /\ asked[r].kind \in Scope
     THEN at[r] = "saving" ELSE at[r] = "checked"

\* Another change has come between the last check that covers the statement and the
\* statement; the check in save() covers rows with another key.
Between(r) ==
  /\ late[r] # {}
  /\ IF at[r] = "saving" /\ asked[r].key \notin DOMAIN rows[Other(asked[r].kind)]
     THEN "saving" \in late[r] ELSE TRUE

\* The change is made: it comes between for every other request.
Done(r) ==
  /\ Finish(r)
  /\ writes' = writes + 1
  /\ late' = [s \in Request |->
                IF s = r \/ at[s] = "idle" THEN {}
                ELSE late[s] \cup (IF at[s] = "saving" THEN {"saving"} ELSE {"checked"})]
  /\ torn' = IF Between(r) THEN torn \cup Damage' ELSE torn

\* A constraint of the database, or a row that is gone: the statement fails.
Fails(r) ==
  /\ Finish(r)
  /\ late' = [late EXCEPT ![r] = {}]
  /\ UNCHANGED <<rows, bodies, exts, template, hooks, writes, torn>>

\* INSERT, or UPDATE of all fields; a row that is gone is inserted again.
Write(r) ==
  LET c == asked[r] IN
  /\ Ready(r) /\ c.op = "save"
  /\ IF \E k \in DOMAIN rows[c.kind] \ {c.key} : rows[c.kind][k] = c.name
     THEN Fails(r)
     ELSE /\ rows' = [rows EXCEPT ![c.kind] = With(@, c.key, c.name)]
          /\ bodies' = IF c.kind = "macro" THEN With(bodies, c.key, c.text) ELSE bodies
          /\ UNCHANGED <<exts, template, hooks>>
          /\ Done(r)

\* Mutant of Unhooked: the filters keep what is gone.
UnhookedNot(c) == hooks

\* The rows of webhooks' filters go with the row.
Unhooked(c) == hooks \ {<<c.kind, c.key>>}

\* DELETE; extensions protect their context.
RemoveRow(r) ==
  LET c == asked[r] IN
  /\ Ready(r) /\ c.op = "delete"
  /\ IF c.kind = "context" /\ \E e \in DOMAIN exts : exts[e].context = c.key
     THEN Fails(r)
     ELSE /\ rows' = [rows EXCEPT ![c.kind] = Without(@, c.key)]
          /\ bodies' = IF c.kind = "macro" THEN Without(bodies, c.key) ELSE bodies
          /\ hooks' = Unhooked(c)
          /\ UNCHANGED <<exts, template>>
          /\ Done(r)

\* An extension; its context exists, or the statement fails.
WriteExtension(r) ==
  LET c == asked[r] IN
  /\ Ready(r) /\ c.op = "extension"
  /\ IF c.key \notin DOMAIN rows["context"] THEN Fails(r)
     ELSE /\ exts' = With(exts, c.ext, [context |-> c.key, text |-> c.text])
          /\ UNCHANGED <<rows, bodies, template, hooks>>
          /\ Done(r)

DropExtension(r) ==
  /\ Ready(r) /\ asked[r].op = "drop"
  /\ exts' = Without(exts, asked[r].ext)
  /\ UNCHANGED <<rows, bodies, template, hooks>>
  /\ Done(r)

WriteTemplate(r) ==
  /\ Ready(r) /\ asked[r].op = "template"
  /\ template' = asked[r].text
  /\ UNCHANGED <<rows, bodies, exts, hooks>>
  /\ Done(r)

\* A webhook's filter gets a context or a table, which exists, or the statement fails.
WriteFilter(r) ==
  LET c == asked[r] IN
  /\ Ready(r) /\ c.op = "filter"
  /\ IF c.key \notin DOMAIN rows[c.kind] THEN Fails(r)
     ELSE /\ hooks' = hooks \cup {<<c.kind, c.key>>}
          /\ UNCHANGED <<rows, bodies, exts, template>>
          /\ Done(r)

Act(r) ==
  \/ Recheck(r) \/ Write(r) \/ RemoveRow(r) \/ WriteExtension(r) \/ DropExtension(r)
  \/ WriteTemplate(r) \/ WriteFilter(r)

GuardsNext ==
  \E r \in Request : Act(r) \/ \E change \in Changes : Check(r, change)

GuardsSpec == GuardsInit /\ [][GuardsNext]_guardVars

-----------------------------------------------------------------------------
(* Properties.                                                                 *)

\* No context is generated twice in extensions.ael: a context and a routing table have
\* one name only if a change came between a check and the statement it was for.  The
\* row of the users' context, generated in any case, keeps its name from other rows; it
\* is there when seed_quickstart has been run.
GeneratedOnce == \A d \in Damage : d[1] = "twice" => d \in torn

\* Every stored extension is generated: no context becomes the users' one, which is
\* made from the users instead.
ExtensionsGenerated == \A d \in Damage : d[1] = "left out" => d \in torn

\* Every macro that an extension calls exists, after any sequence of renames and
\* deletions, unless a change came between.
MacrosExist == \A d \in Damage : d[1] = "no macro" => d \in torn

\* The texts in which a name of this kind is looked for when row key is changed: not
\* a macro's own, and the template only for macros.
Searched(kind, key) ==
  {exts[e].text : e \in DOMAIN exts}
    \cup {bodies[m] : m \in IF kind = "macro" THEN DOMAIN bodies \ {key} ELSE DOMAIN bodies}
    \cup IF kind = "macro" THEN {template} ELSE {}

Answered(kind, call) == \E n \in Range(rows[kind]) : Same(kind, call[2], n)

\* A rename or a deletion that no change came between leaves every call that reached a
\* macro, a queue or a trunk group reaching one.
BreaksNoCall ==
  [][\A r \in Request, kind \in Called :
       (asked[r].op \in {"save", "delete"} /\ asked[r].kind = kind
          /\ writes' > writes /\ at[r] # "idle" /\ at'[r] = "idle" /\ late[r] = {})
       => \A text \in Searched(kind, asked[r].key) : \A call \in text :
            call[1] = kind /\ Answered(kind, call) => Answered(kind, call)']_guardVars

\* A webhook loses a context or a table from its filter only to a deletion that a
\* change came between.
FiltersKept ==
  [][\A hook \in hooks \ hooks' : \E r \in Request : at'[r] # at[r] /\ late[r] # {}]_guardVars


\* What staff renames or deletes takes nothing along.
GuardsHold == BreaksNoCall /\ FiltersKept
=============================================================================
