------------------------------ MODULE Catalogue ------------------------------
(***************************************************************************)
(* What the tree of tweaks promises, whatever lists it is kept in: a       *)
(* catalogue of names.  A path is in it once, whoever is registered under  *)
(* a path first keeps it, and nothing leaves it before all of it goes.     *)
(***************************************************************************)
EXTENDS SequencesExt

VARIABLE entries  \* set of [path, node]; paths are compared ignoring case

HasPath(p) == \E e \in entries : e.path = p

\* A new path below one that is there.
Add(e) ==
  /\ ~HasPath(e.path)
  /\ Len(e.path) = 1 \/ HasPath(Front(e.path))
  /\ entries' = entries \cup {e}

Clear == entries' = {}

Init == entries = {}

Next == Clear \/ \E e \in entries' \ entries : Add(e)

Spec == Init /\ [][Next]_entries

=============================================================================
