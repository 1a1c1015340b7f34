----------------------------- MODULE MCTweakWire -----------------------------
(***************************************************************************)
(* Registrations for TweakWire, of the formats "mmt" and "mmmt" most       *)
(* plugins use.  Text 4 is text 1 in lower case.                           *)
(***************************************************************************)
EXTENDS TweakWire

MCFold == <<1, 2, 3, 1>>

Entry(t, y) == [text |-> t, type |-> y]

mmt(m1, m2, t) ==
  [text |-> t, path |-> <<Entry(m1, "tree"), Entry(m2, "tree"), Entry(1, "tab")>>]

mmmt(m1, m2, m3) ==
  [text |-> 1, path |-> <<Entry(m1, "tree"), Entry(m2, "tree"), Entry(m3, "tree"), Entry(1, "tab")>>]

\* Three menus; a tweak under "1" and one with the same path in lower case,
\* which is a duplicate or not; two trees below a submenu.
MCRegistrations ==
  {mmt(1, 1, 1), mmt(4, 1, 4), mmt(4, 1, 2), mmt(2, 1, 1), mmt(3, 1, 1),
   mmmt(1, 2, 2), mmmt(1, 2, 1)}

=============================================================================
