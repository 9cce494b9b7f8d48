-------------------------------- MODULE Ledger --------------------------------
(***************************************************************************)
(* What the versions of the configuration files are, abstractly: a ledger  *)
(* to which an apply adds its new versions once and all together, under    *)
(* keys that were free and at most one for a path, and in which the staff  *)
(* enters, amends or strikes one entry at a time.  ApplyChanges            *)
(* implements it.                                                          *)
(***************************************************************************)
CONSTANT Applier

VARIABLES
  ledger,      \* the entries, records with a name, a version and a path
  published    \* the applies that have added theirs

Key(e) == <<e.name, e.version>>

OnePerKey(entries) ==
  \A e, f \in entries : Key(e) = Key(f) => e = f

OnePerPath(entries) ==
  \A e, f \in entries : e.path = f.path => e = f

LedgerInit == OnePerKey(ledger) /\ published = {}

Publish(p, batch) ==
  /\ p \notin published
  /\ published' = published \cup {p}
  /\ ledger' = ledger \cup batch
  /\ batch \cap ledger = {} /\ OnePerKey(ledger') /\ OnePerPath(batch)

\* One entry is new, or takes the place of another.
Amend(old, entry) ==
  /\ ledger' = (ledger \ old) \cup {entry}
  /\ OnePerKey(ledger')
  /\ UNCHANGED published

Strike(entry) == ledger' = ledger \ {entry} /\ UNCHANGED published

LedgerNext ==
  \/ \E p \in Applier : Publish(p, ledger' \ ledger)
  \/ \E entry \in ledger' : \E old \in {{}} \cup {{e} : e \in ledger} : Amend(old, entry)
  \/ \E entry \in ledger : Strike(entry)

LedgerSpec == LedgerInit /\ [][LedgerNext]_<<ledger, published>>
=============================================================================
