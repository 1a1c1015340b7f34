------------------------------ MODULE Profile ------------------------------
(***************************************************************************)
(* Profiles: files of settings "name operator value", which the daemon and *)
(* a GUI in local mode merge into the tweak tree when they start, the      *)
(* daemon again when it reloads, and the text interface when the user      *)
(* opens one.  A setting whose condition the tweak does not satisfy moves  *)
(* it to a value that does.                                                *)
(*                                                                         *)
(* Sources: src/libpowertweak/profile.c, load_profiles in libpowertweak.c. *)
(***************************************************************************)
EXTENDS Integers, Sequences

CONSTANTS
  Known,    \* the configuration names of the tree
  ReadOnly,  \* those whose ChangeValue is NULL: files that cannot be written
  Names,     \* the names that settings have
  Texts,     \* the operators that settings have, as they are spelled
  Bound,     \* an int goes from -Bound to Bound - 1
  Profiles,  \* what can be merged: the settings of one or several files
  MaxMerges  \* how often one is

Ints == -Bound .. Bound - 1
Settings == [name : Names, operator : Texts, operand : Ints]

ASSUME ProfileAssumption ==
  /\ Bound \in Nat \ {0}
  /\ ReadOnly \subseteq Known
  /\ Profiles \subseteq Seq(Settings)
  /\ MaxMerges \in Nat

VARIABLES
  value,    \* what GetValue returns, of each tweak
  profile,  \* the settings at hand
  pos,      \* the one to come, 0: no profile is being merged
  phase,   \* "idle", "merged", "crashed"; "merging"
  merges    \* how often one may still be merged

profileVars == <<value, profile, pos, phase, merges>>

-----------------------------------------------------------------------------
(* Operators *)

\* An int that overflows.
Wrap(x) == IF x >= Bound THEN x - 2 * Bound ELSE IF x < -Bound THEN x + 2 * Bound ELSE x

Operators == {"DC", "EQ", "NEQ", "LET", "GET", "LT", "GT"}

\* What is not listed is OPERATOR_DC, "eq" and a missing operator too.
Operator2Operator(text) ==
  CASE text = "="            -> "EQ"
    [] text = "!="           -> "NEQ"
    [] text \in {"<=", "leq"} -> "LET"
    [] text \in {">=", "geq"} -> "GET"
    [] text \in {"<", "lt"}   -> "LT"
    [] text \in {">", "gt"}   -> "GT"
    [] OTHER                 -> "DC"

operand_is_valid(x, op, operand) ==
  CASE op = "LT"  -> x < operand
    [] op = "GT"  -> x > operand
    [] op = "LET" -> x <= operand
    [] op = "GET" -> x >= operand
    [] op = "EQ"  -> x = operand
    [] op = "NEQ" -> x # operand
    [] OTHER      -> TRUE

\* Variant: the value is replaced whether it has to be or not.
perform_operationAlways(x, op, operand) ==
  CASE op = "LT"                  -> Wrap(operand - 1)
    [] op = "GT"                  -> Wrap(operand + 1)
    [] op \in {"LET", "GET", "EQ"} -> operand
    [] op = "NEQ" /\ x = operand  -> Wrap(operand + 1)
    [] OTHER                      -> x

perform_operation(x, op, operand) ==
  CASE op = "LT" /\ x >= operand  -> Wrap(operand - 1)
    [] op = "GT" /\ x <= operand  -> Wrap(operand + 1)
    [] op = "LET" /\ x > operand  -> operand
    [] op = "GET" /\ x < operand  -> operand
    [] op = "EQ"                  -> operand
    [] op = "NEQ" /\ x = operand  -> Wrap(operand + 1)
    [] OTHER                      -> x

-----------------------------------------------------------------------------
(* Specification *)

profileInit ==
  /\ value \in [Known -> Ints]
  /\ profile = <<>> /\ pos = 0
  /\ phase = "idle" /\ merges = MaxMerges

\* merge_profile, load_profiles.
Merge ==
  /\ phase = "idle" /\ merges > 0
  /\ profile' \in Profiles
  /\ pos' = 1 /\ phase' = "merging" /\ merges' = merges - 1
  /\ UNCHANGED value

Setting == profile[pos]

\* Variant: the operand is taken as it is when the value is not valid.
ActuateOperand ==
  /\ phase = "merging" /\ pos <= Len(profile)
  /\ Setting.name \in Known \ ReadOnly
  /\ value' = [value EXCEPT ![Setting.name] =
                 IF operand_is_valid(@, Operator2Operator(Setting.operator), Setting.operand)
                 THEN @ ELSE Setting.operand]
  /\ pos' = pos + 1
  /\ UNCHANGED <<profile, phase, merges>>

\* actuate_profile_setting, of a tweak that the tree has.
Actuate ==
  /\ phase = "merging" /\ pos <= Len(profile)
  /\ Setting.name \in Known \ ReadOnly
  /\ value' = [value EXCEPT ![Setting.name] =
                 perform_operation(@, Operator2Operator(Setting.operator), Setting.operand)]
  /\ pos' = pos + 1
  /\ UNCHANGED <<profile, phase, merges>>

\* Of a name that nothing in the tree has.
Unknown ==
  /\ phase = "merging" /\ pos <= Len(profile)
  /\ Setting.name \notin Known
  /\ pos' = pos + 1
  /\ UNCHANGED <<value, profile, phase, merges>>

\* The call through ChangeValue, which nobody has compared with NULL.
Crash ==
  /\ phase = "merging" /\ pos <= Len(profile)
  /\ Setting.name \in ReadOnly
  /\ phase' = "crashed"
  /\ UNCHANGED <<value, profile, pos, merges>>

Finish ==
  /\ phase = "merging" /\ pos > Len(profile)
  /\ phase' = "merged"
  /\ UNCHANGED <<value, profile, pos, merges>>

\* Until the next merge a tweak may get another value from elsewhere.
Change ==
  /\ phase = "merged"
  /\ \E t \in Known : \E v \in Ints : value' = [value EXCEPT ![t] = v]
  /\ phase' = "idle" /\ profile' = <<>> /\ pos' = 0
  /\ UNCHANGED merges

profileNext == Merge \/ Actuate \/ Unknown \/ Crash \/ Finish \/ Change

profileSpec == profileInit /\ [][profileNext]_profileVars

-----------------------------------------------------------------------------
(* Properties *)

Satisfied(t, s) == operand_is_valid(value[t], Operator2Operator(s.operator), s.operand)

\* The values that satisfy all settings of t in the profile p.
Solutions(p, t) ==
  {v \in Ints : \A i \in DOMAIN p : p[i].name = t =>
                  operand_is_valid(v, Operator2Operator(p[i].operator), p[i].operand)}

\* The settings of t do not contradict each other, and none is an inequality.
Compatible(p, t) ==
  /\ Solutions(p, t) # {}
  /\ \A i \in DOMAIN p : p[i].name = t => Operator2Operator(p[i].operator) # "NEQ"

ProfileTypeOK ==
  /\ value \in [Known -> Ints]
  /\ profile \in Seq(Settings)
  /\ pos \in 0 .. Len(profile) + 1
  /\ phase \in {"idle", "merging", "merged", "crashed"}
  /\ merges \in 0 .. MaxMerges
  /\ phase = "merging" => pos > 0

\* However many profiles want something of a tweak and in whatever order they
\* are read: what they can have together they have together in the end, no
\* setting undoes an earlier one.
CompatibleSettingsHold ==
  phase = "merged" =>
    \A t \in Known : Compatible(profile, t) =>
      \A i \in DOMAIN profile : profile[i].name = t => Satisfied(t, profile[i])

\* A tweak changes to the nearest value that the setting accepts, so not at all
\* if it satisfies the setting already; "!=" the largest int is the exception,
\* where operand + 1 overflows.
ChangesAreMinimal ==
  [][\A t \in Known : phase = "merging" =>
       LET op == Operator2Operator(Setting.operator)
           far(x) == IF x >= value[t] THEN x - value[t] ELSE value[t] - x IN
       value'[t] # value[t] /\ (op = "NEQ" => Setting.operand < Bound - 1) =>
         \A v \in Ints : operand_is_valid(v, op, Setting.operand) => far(value'[t]) <= far(v)]_profileVars

\* xml/profile/tuxwebserv.xml:24-28, and 16 more of the shipped settings: the
\* operator "eq" asks for the value.
EqIsHonoured ==
  phase = "merged" =>
    \A i \in DOMAIN profile :
      /\ profile[i].name \in Known /\ profile[i].operator = "eq"
      /\ \A k \in DOMAIN profile : profile[k].name = profile[i].name => k <= i
      => value[profile[i].name] = profile[i].operand

=============================================================================
