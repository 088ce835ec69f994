---------------------------------- MODULE Tables ----------------------------------
(* Tables are functions from keys to rows, and records with optional fields are      *)
(* functions from field names to values: adding and replacing entries.               *)

\* f with the entries of g, which take the place of those f has.
Amend(f, g) == [k \in DOMAIN f \cup DOMAIN g |-> IF k \in DOMAIN g THEN g[k] ELSE f[k]]

\* The table with one row.
Row(key, row) == [k \in {key} |-> row]
================================================================================
