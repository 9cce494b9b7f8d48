-------------------------------- MODULE Maps --------------------------------
(***************************************************************************)
(* Rows of a table as a function from their keys: what INSERT, UPDATE and  *)
(* DELETE of one row make of it, and INSERTs of many.                      *)
(***************************************************************************)
LOCAL INSTANCE Functions

With(f, key, value) == [k \in DOMAIN f \cup {key} |-> IF k = key THEN value ELSE f[k]]

Without(f, key) == Restrict(f, DOMAIN f \ {key})

Adding(more, f) ==
  [k \in DOMAIN more \cup DOMAIN f |-> IF k \in DOMAIN more THEN more[k] ELSE f[k]]
=============================================================================
