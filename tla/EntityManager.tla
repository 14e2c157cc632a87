--------------------------- MODULE EntityManager ---------------------------
(***************************************************************************)
(* What the source relies on from MikroORM's entity manager.  A row is a   *)
(* record of columns.  A process that loads an entity works on a private   *)
(* copy of the row, its view; em.flush() after the view was changed into   *)
(* new writes the columns in which they differ, and only these, over       *)
(* whatever the row holds by then.  No entity of the repository has a      *)
(* version column, so a flush is never refused.                            *)
(***************************************************************************)

Flush(row, view, new) ==
  [c \in DOMAIN row |-> IF new[c] # view[c] THEN new[c] ELSE row[c]]
=============================================================================
