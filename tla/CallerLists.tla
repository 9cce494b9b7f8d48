----------------------------- MODULE CallerLists -----------------------------
(***************************************************************************)
(* Who is blocked, allowed, on a named list, or known: the tables          *)
(* blacklist, whitelist, custom_list_* and contacts (core/models.py,       *)
(* apps/api/models.py), the forms of apps/lists, the endpoints of          *)
(* apps/api/views/lists.py, the import commands, and the questions that    *)
(* the dialplan puts to services/fastagi/fastagi.py.  Block list and allow *)
(* list are the same code over two tables: listed is either.               *)
(***************************************************************************)
EXTENDS Naturals, FiniteSets, Functions, Maps

CONSTANTS
  Caller, Destination,  \* numbers that call, and that are called
  Web,             \* requests that save a form or add an entry
  ListName,        \* the named lists
  LastDay,         \* bound: time
  MaxListed,       \* bound: rows, ever
  MaxListings      \* bound: requests

Everywhere == ""       \* the destination that stands for all
Never == LastDay + 1   \* the row does not expire

Until == 0 .. Never

Entries == [caller : Caller, dest : Destination \cup {Everywhere}, until : Until]

ASSUME ListsAssumption ==
  /\ Everywhere \notin Destination /\ "" \notin Caller
  /\ LastDay \in Nat /\ MaxListed \in Nat /\ MaxListings \in Nat

VARIABLES
  listed,    \* the rows of the list, by key
  opened,    \* by request: the row its form has read and what is to be stored, or <<>>
  posted,    \* by request: the row that it has made and not signed yet, or <<>>
  named,     \* the named lists
  entries,   \* their entries: <<list, entry>>, by key
  entering,  \* by request: the list it has read and its entry, or <<>>
  contacts,  \* the contacts: name by caller
  day,       \* the time
  rowKey,    \* the newest key
  listings,  \* how many requests came
  promised   \* history: the entries that were acknowledged, and not taken back since

listVars ==
  <<listed, opened, posted, named, entries, entering, contacts, day, rowKey, listings, promised>>

\* One invariant for the types of the variables.
ListsTypeOK ==
  /\ DOMAIN listed \subseteq 1 .. MaxListed /\ Range(listed) \subseteq Entries
  /\ DOMAIN opened = Web /\ DOMAIN posted = Web /\ DOMAIN entering = Web
  /\ \A w \in Web : \A at \in {opened[w], posted[w]} :
       at # <<>> => at[1] \in 1 .. MaxListed /\ at[2] \in Entries
  /\ named \subseteq ListName
  /\ DOMAIN entries \subseteq 1 .. MaxListed
  /\ Range(entries) \subseteq ListName \X Entries
  /\ DOMAIN contacts \subseteq Caller
  /\ day \in 0 .. LastDay
  /\ promised \subseteq Entries

-----------------------------------------------------------------------------
(* The questions of the dialplan.                                              *)

\* Mutant of Matches: a row for all destinations answers for none.
MatchesExactly(row, caller, dest) ==
  row.caller = caller /\ row.dest = dest /\ row.until > day

Matches(row, caller, dest) ==
  row.caller = caller /\ row.dest \in {dest, Everywhere} /\ row.until > day

\* is_blacklisted and is_whilelisted.
IsListed(caller, dest) == \E key \in DOMAIN listed : Matches(listed[key], caller, dest)

\* is_custom_listed.
IsCustomListed(list, caller, dest) ==
  \E key \in DOMAIN entries :
    entries[key][1] = list /\ list \in named /\ Matches(entries[key][2], caller, dest)

\* The handlers: without a caller the answer is 0.
Says(caller, dest) == caller # "" /\ IsListed(caller, dest)

SaysCustom(list, caller, dest) ==
  caller # "" /\ list # "" /\ IsCustomListed(list, caller, dest)

-----------------------------------------------------------------------------
(* The requests.                                                               *)

Bounded == listings < MaxListings /\ listings' = listings + 1

Numbers(row) == <<row.caller, row.dest>>
OfPair(pair) == {key \in DOMAIN listed : Numbers(listed[key]) = pair}

\* The promises for these pairs are taken back.
TakenBack(pairs) == {entry \in promised : Numbers(entry) \notin pairs}

\* The unique constraint.
Unique(key, row) == OfPair(Numbers(row)) \subseteq {key}

\* Mutant of Looked: update_or_create looks for the caller alone.
LookedByCaller(entry) == {key \in DOMAIN listed : listed[key].caller = entry.caller}

Looked(entry) == OfPair(Numbers(entry))

\* POST of the API: update_or_create locks the row it finds.  An expiry that is not
\* given is left as it is.  A new row is still to be signed.
Upsert(w, entry, given) ==
  /\ Bounded /\ posted[w] = <<>>
  /\ IF Looked(entry) # {}
     THEN LET key == CHOOSE k \in Looked(entry) : TRUE
              row == IF given THEN entry ELSE [entry EXCEPT !.until = listed[key].until]
          IN /\ listed' = [listed EXCEPT ![key] = row]
             /\ promised' = IF given THEN TakenBack({Numbers(entry)}) \cup {entry} ELSE promised
             /\ UNCHANGED <<rowKey, posted>>
     ELSE LET row == IF given THEN entry ELSE [entry EXCEPT !.until = Never]
          IN /\ rowKey < MaxListed /\ rowKey' = rowKey + 1
             /\ listed' = With(listed, rowKey + 1, row)
             /\ posted' = [posted EXCEPT ![w] = <<rowKey + 1, row>>]
             /\ UNCHANGED promised
  /\ UNCHANGED <<opened, named, entries, entering, contacts, day>>

\* The new row's creator is stored, and its entry is acknowledged; a row that is gone
\* makes the request an error.  Whoever has written the row since was promised his own.
SignRow(w) ==
  /\ posted[w] # <<>>
  /\ LET key == posted[w][1]
         row == posted[w][2]
     IN promised' = IF key \in DOMAIN listed /\ listed[key] = row THEN promised \cup {row}
                    ELSE promised
  /\ posted' = [posted EXCEPT ![w] = <<>>]
  /\ UNCHANGED <<listed, opened, named, entries, entering, contacts, day, rowKey, listings>>

\* A form: its row is read, or made up, and it is found valid.  PUT of the API looks
\* for no other row.
OpenForm(w, key, entry, put) ==
  /\ Bounded
  /\ opened[w] = <<>>
  /\ key \in DOMAIN listed \/ (~put /\ key = rowKey + 1 /\ key <= MaxListed)
  /\ ~put => Unique(key, entry)
  /\ rowKey' = IF key > rowKey THEN key ELSE rowKey
  /\ opened' = [opened EXCEPT ![w] = <<key, entry>>]
  /\ UNCHANGED <<listed, posted, named, entries, entering, contacts, day, promised>>

\* Mutant of MayStore: the database has no constraint.
MayStoreAny(key, entry) == TRUE

\* What is stored meanwhile counts again: the database refuses a second row of a pair.
MayStore(key, entry) == Unique(key, entry)

\* save(): an UPDATE of every field, and an INSERT when the row is gone.
SaveForm(w) ==
  /\ opened[w] # <<>>
  /\ LET key == opened[w][1]
         entry == opened[w][2]
         before == IF key \in DOMAIN listed THEN {Numbers(listed[key])} ELSE {}
     IN IF MayStore(key, entry)
        THEN /\ listed' = With(listed, key, entry)
             /\ promised' = TakenBack(before \cup {Numbers(entry)}) \cup {entry}
        ELSE UNCHANGED <<listed, promised>>
  /\ opened' = [opened EXCEPT ![w] = <<>>]
  /\ UNCHANGED <<posted, named, entries, entering, contacts, day, rowKey, listings>>

DeleteListed(key) ==
  /\ Bounded
  /\ key \in DOMAIN listed
  /\ listed' = Without(listed, key)
  /\ promised' = TakenBack({Numbers(listed[key])})
  /\ UNCHANGED <<opened, posted, named, entries, entering, contacts, day, rowKey>>

\* import_blocklist and import_allowlist: get_or_create by the caller alone, for all
\* destinations.  Any row of the caller counts; of two the command reports an error.
ImportListed(caller) ==
  /\ Bounded
  /\ \A key \in DOMAIN listed : listed[key].caller # caller
  /\ rowKey < MaxListed /\ rowKey' = rowKey + 1
  /\ LET entry == [caller |-> caller, dest |-> Everywhere, until |-> Never]
     IN /\ listed' = With(listed, rowKey + 1, entry)
        /\ promised' = TakenBack({Numbers(entry)}) \cup {entry}
  /\ UNCHANGED <<opened, posted, named, entries, entering, contacts, day>>

AddList(list) ==
  /\ Bounded /\ list \notin named
  /\ named' = named \cup {list}
  /\ UNCHANGED <<listed, opened, posted, entries, entering, contacts, day, rowKey, promised>>

\* A list goes with its entries.
DeleteList(list) ==
  /\ Bounded /\ list \in named
  /\ named' = named \ {list}
  /\ entries' = Restrict(entries, {key \in DOMAIN entries : entries[key][1] # list})
  /\ UNCHANGED <<listed, opened, posted, entering, contacts, day, rowKey, promised>>

\* POST .../entries: the list is read, ...
OpenEntry(w, list, entry) ==
  /\ Bounded /\ entering[w] = <<>>
  /\ list \in named
  /\ entering' = [entering EXCEPT ![w] = <<list, entry>>]
  /\ UNCHANGED <<listed, opened, posted, named, entries, contacts, day, rowKey, promised>>

\* Mutant of HasList: the key of the list is not checked.
HasListAny(list) == TRUE

HasList(list) == list \in named

\* ... and the entry is inserted, unless the list has gone.  Entries need not differ.
SaveEntry(w) ==
  /\ entering[w] # <<>>
  /\ IF HasList(entering[w][1]) /\ rowKey < MaxListed
     THEN /\ entries' = With(entries, rowKey + 1, entering[w])
          /\ rowKey' = rowKey + 1
     ELSE UNCHANGED <<entries, rowKey>>
  /\ entering' = [entering EXCEPT ![w] = <<>>]
  /\ UNCHANGED <<listed, opened, posted, named, contacts, day, listings, promised>>

\* An entry is deleted through its own list.
DeleteEntry(list, key) ==
  /\ Bounded
  /\ key \in DOMAIN entries /\ entries[key][1] = list
  /\ entries' = Without(entries, key)
  /\ UNCHANGED <<listed, opened, posted, named, entering, contacts, day, rowKey, promised>>

\* A contact is saved by the API or a form.
SaveContact(caller, name) ==
  /\ Bounded
  /\ contacts' = With(contacts, caller, name)
  /\ UNCHANGED <<listed, opened, posted, named, entries, entering, day, rowKey, promised>>

\* import_contacts: without --update the name is stored neither in a new row nor in an
\* old one.
ImportContact(caller, name, update) ==
  /\ Bounded
  /\ contacts' = IF update THEN With(contacts, caller, name)
                 ELSE IF caller \in DOMAIN contacts THEN contacts
                 ELSE With(contacts, caller, "")
  /\ UNCHANGED <<listed, opened, posted, named, entries, entering, day, rowKey, promised>>

DeleteContact(caller) ==
  /\ Bounded /\ caller \in DOMAIN contacts
  /\ contacts' = Without(contacts, caller)
  /\ UNCHANGED <<listed, opened, posted, named, entries, entering, day, rowKey, promised>>

DayPasses ==
  /\ day < LastDay /\ day' = day + 1
  /\ UNCHANGED <<listed, opened, posted, named, entries, entering, contacts, rowKey, listings,
                 promised>>

ListsInit ==
  /\ listed = <<>> /\ opened = [w \in Web |-> <<>>] /\ posted = opened
  /\ named = {} /\ entries = <<>> /\ entering = [w \in Web |-> <<>>]
  /\ contacts = <<>>
  /\ day = 0 /\ rowKey = 0 /\ listings = 0 /\ promised = {}

ListsNext ==
  \/ \E w \in Web, entry \in Entries :
       \/ \E given \in BOOLEAN : Upsert(w, entry, given)
       \/ \E key \in 1 .. MaxListed, put \in BOOLEAN : OpenForm(w, key, entry, put)
       \/ \E list \in ListName : OpenEntry(w, list, entry)
  \/ \E w \in Web : SignRow(w) \/ SaveForm(w) \/ SaveEntry(w)
  \/ \E key \in 1 .. MaxListed :
       DeleteListed(key) \/ \E list \in ListName : DeleteEntry(list, key)
  \/ \E list \in ListName : AddList(list) \/ DeleteList(list)
  \/ \E caller \in Caller :
       \/ ImportListed(caller) \/ DeleteContact(caller)
       \/ SaveContact(caller, "name")
       \/ \E update \in BOOLEAN : ImportContact(caller, "file", update)
  \/ DayPasses

ListsSpec == ListsInit /\ [][ListsNext]_listVars

-----------------------------------------------------------------------------
(* Properties.                                                                 *)

\* Whoever was put on the list is found by every call he makes, to the numbers it is
\* for, until he expires or somebody writes his row: no request for another
\* destination, no import and no form that was open meanwhile takes him off.
PromisesKept ==
  \A entry \in promised :
    entry.until > day =>
      \A dest \in Destination : entry.dest \in {dest, Everywhere} => Says(entry.caller, dest)

\* One row for a caller and a destination, whatever forms were open at once: a second
\* would make every later import of the caller fail, and deleting one of the two would
\* leave him listed.
NoTwins == \A key \in DOMAIN listed : Unique(key, listed[key])

\* An entry that was added while its list was deleted is not left behind: a new list of
\* the name starts empty.
EntriesListed == \A key \in DOMAIN entries : entries[key][1] \in named
=============================================================================
