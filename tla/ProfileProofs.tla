---------------------------- MODULE ProfileProofs ----------------------------
(***************************************************************************)
(* Proofs about module Profile, for ints of any width, any tree and any    *)
(* profiles.                                                               *)
(***************************************************************************)
EXTENDS Profile, TLAPS, SequenceTheorems

-----------------------------------------------------------------------------
(* perform_operation *)

LEMMA OperatorType == \A text : Operator2Operator(text) \in Operators
BY DEF Operator2Operator, Operators

\* The value stays an int, also where the sum overflows.
LEMMA OperationType ==
  ASSUME NEW x \in Ints, NEW op \in Operators, NEW operand \in Ints
  PROVE  perform_operation(x, op, operand) \in Ints
<1>1. Bound \in Nat \ {0}
  BY ProfileAssumption
<1>. QED BY <1>1 DEF perform_operation, Wrap, Ints, Operators

\* A condition that some int satisfies is satisfied afterwards.
LEMMA OperationValid ==
  ASSUME NEW x \in Ints, NEW op \in Operators, NEW operand \in Ints,
         NEW v \in Ints, operand_is_valid(v, op, operand)
  PROVE  operand_is_valid(perform_operation(x, op, operand), op, operand)
<1>1. Bound \in Nat \ {0}
  BY ProfileAssumption
<1>. QED BY <1>1 DEF perform_operation, operand_is_valid, Wrap, Ints, Operators

\* So is a condition that was satisfied before, if some int satisfies both and
\* neither is an inequality.
LEMMA OperationKeeps ==
  ASSUME NEW x \in Ints,
         NEW op \in Operators \ {"NEQ"}, NEW operand \in Ints,
         NEW op2 \in Operators \ {"NEQ"}, NEW operand2 \in Ints,
         NEW v \in Ints, operand_is_valid(v, op, operand), operand_is_valid(v, op2, operand2),
         operand_is_valid(x, op2, operand2)
  PROVE  operand_is_valid(perform_operation(x, op, operand), op2, operand2)
<1>1. Bound \in Nat \ {0}
  BY ProfileAssumption
<1>. QED BY <1>1 DEF perform_operation, operand_is_valid, Wrap, Ints, Operators

\* No valid value is nearer than the one that is chosen.
LEMMA OperationNearest ==
  ASSUME NEW x \in Ints, NEW op \in Operators, NEW operand \in Ints,
         op = "NEQ" => operand < Bound - 1,
         NEW v \in Ints, operand_is_valid(v, op, operand)
  PROVE  LET y == perform_operation(x, op, operand)
             far(z) == IF z >= x THEN z - x ELSE x - z IN
         far(y) <= far(v)
<1>1. Bound \in Nat \ {0}
  BY ProfileAssumption
<1>. QED BY <1>1 DEF perform_operation, operand_is_valid, Wrap, Ints, Operators

-----------------------------------------------------------------------------
(* Type correctness *)

LEMMA SettingType ==
  ASSUME ProfileTypeOK, NEW i \in DOMAIN profile
  PROVE  /\ profile[i].operand \in Ints
         /\ Operator2Operator(profile[i].operator) \in Operators
<1>1. profile \in Seq(Settings)
  BY DEF ProfileTypeOK
<1>2. profile[i] \in Settings
  BY <1>1, LenProperties
<1>. QED BY <1>2, OperatorType DEF Settings

LEMMA Here ==
  ASSUME ProfileTypeOK, phase = "merging", pos <= Len(profile)
  PROVE  pos \in DOMAIN profile
<1>1. profile \in Seq(Settings) /\ pos \in 0 .. Len(profile) + 1 /\ pos > 0
  BY DEF ProfileTypeOK
<1>2. Len(profile) \in Nat /\ DOMAIN profile = 1 .. Len(profile)
  BY <1>1, LenProperties
<1>. QED BY <1>1, <1>2

LEMMA TypeInit == profileInit => ProfileTypeOK
BY EmptySeq, ProfileAssumption DEF profileInit, ProfileTypeOK

LEMMA TypeNext == ProfileTypeOK /\ [profileNext]_profileVars => ProfileTypeOK'
<1>. SUFFICES ASSUME ProfileTypeOK, [profileNext]_profileVars
              PROVE  ProfileTypeOK'
  OBVIOUS
<1>0. profile \in Seq(Settings) /\ Len(profile) \in Nat /\ pos \in 0 .. Len(profile) + 1
  BY LenProperties DEF ProfileTypeOK
<1>1. CASE Merge
  <2>1. profile' \in Seq(Settings)
    BY <1>1, ProfileAssumption DEF Merge
  <2>2. Len(profile') \in Nat
    BY <2>1, LenProperties
  <2>. QED BY <1>1, <2>1, <2>2, ProfileAssumption DEF Merge, ProfileTypeOK
<1>2. CASE Actuate
  <2>1. pos \in DOMAIN profile
    BY <1>2, Here DEF Actuate
  <2>. DEFINE new(x) == perform_operation(x, Operator2Operator(Setting.operator), Setting.operand)
  <2>2. \A x \in Ints : new(x) \in Ints
    BY <2>1, SettingType, OperationType DEF Setting
  <2>3. value' = [value EXCEPT ![Setting.name] = new(value[Setting.name])] /\ Setting.name \in Known
    BY <1>2 DEF Actuate
  <2>4. value' \in [Known -> Ints]
    <3>. HIDE DEF new
    <3>. QED BY <2>2, <2>3 DEF ProfileTypeOK
  <2>. QED BY <1>0, <1>2, <2>4 DEF Actuate, ProfileTypeOK
<1>3. CASE Unknown
  BY <1>0, <1>3 DEF Unknown, ProfileTypeOK
<1>4. CASE Crash
  BY <1>0, <1>4 DEF Crash, ProfileTypeOK
<1>5. CASE Finish
  BY <1>0, <1>5 DEF Finish, ProfileTypeOK
<1>6. CASE Change
  <2>1. value' \in [Known -> Ints]
    BY <1>6 DEF Change, ProfileTypeOK
  <2>. QED BY <1>6, <2>1, EmptySeq DEF Change, ProfileTypeOK
<1>7. CASE UNCHANGED profileVars
  BY <1>7 DEF profileVars, ProfileTypeOK
<1>. QED BY <1>1, <1>2, <1>3, <1>4, <1>5, <1>6, <1>7 DEF profileNext

\* Every value remains an int of the machine.
THEOREM TypeCorrect == profileSpec => []ProfileTypeOK
BY TypeInit, TypeNext, PTL DEF profileSpec

-----------------------------------------------------------------------------
(* Compatible settings hold *)

\* The settings of t that have been applied so far.
Reached(t) == {i \in DOMAIN profile : i < pos /\ profile[i].name = t}

\* While a profile is being merged, the settings behind hold already.
Behind ==
  phase \in {"merging", "merged"} =>
    \A t \in Known : Compatible(profile, t) => \A i \in Reached(t) : Satisfied(t, profile[i])

\* Afterwards all of them are behind.
Past == phase = "merged" => pos > Len(profile)

IInv == ProfileTypeOK /\ Behind /\ Past

LEMMA InvInit == profileInit => IInv
BY TypeInit DEF profileInit, IInv, Behind, Past

\* A setting is applied: it holds, and what held before does.
LEMMA ActuateBehind ==
  ASSUME IInv, ProfileTypeOK', Actuate
  PROVE  Behind'
<1>. USE DEF IInv
<1>1. pos \in DOMAIN profile /\ pos' = pos + 1 /\ profile' = profile /\ phase = "merging"
      /\ profile \in Seq(Settings) /\ DOMAIN profile \subseteq Nat
  BY Here, LenProperties DEF Actuate, ProfileTypeOK
<1>. SUFFICES ASSUME NEW t \in Known, Compatible(profile, t),
                     NEW i \in DOMAIN profile, i <= pos, profile[i].name = t
              PROVE  Satisfied(t, profile[i])'
  BY <1>1 DEF Behind, Reached
<1>. DEFINE new == perform_operation(value[t], Operator2Operator(Setting.operator), Setting.operand)
            valid(x, k) == operand_is_valid(x, Operator2Operator(profile[k].operator), profile[k].operand)
<1>2. value[t] \in Ints /\ value \in [Known -> Ints]
  BY DEF ProfileTypeOK
<1>3. PICK v \in Ints : \A k \in DOMAIN profile : profile[k].name = t => valid(v, k)
  BY DEF Compatible, Solutions
<1>4. ASSUME i < pos PROVE valid(value[t], i)
  BY <1>1, <1>4 DEF Behind, Reached, Satisfied
<1>5. CASE Setting.name = t
  <2>1. value'[t] = new
    BY <1>2, <1>5 DEF Actuate
  <2>2. CASE i = pos
    <3>1. valid(new, pos)
      BY <1>1, <1>2, <1>3, <1>5, <2>2, SettingType, OperationValid DEF Setting
    <3>. QED BY <1>1, <2>1, <2>2, <3>1 DEF Satisfied
  <2>3. CASE i < pos
    <3>1. /\ Operator2Operator(profile[i].operator) # "NEQ"
          /\ Operator2Operator(Setting.operator) # "NEQ"
      BY <1>1, <1>5 DEF Compatible, Setting
    <3>2. valid(v, pos) /\ valid(v, i)
      BY <1>1, <1>3, <1>5 DEF Setting
    <3>3. valid(new, i)
      BY <1>1, <1>2, <1>4, <2>3, <3>1, <3>2, SettingType, OperationKeeps DEF Setting
    <3>. QED BY <1>1, <2>1, <3>3 DEF Satisfied
  <2>. QED BY <1>1, <2>2, <2>3
<1>6. CASE Setting.name # t
  <2>1. value'[t] = value[t]
    BY <1>2, <1>6 DEF Actuate
  <2>2. i < pos
    BY <1>1, <1>6 DEF Setting
  <2>. QED BY <1>1, <1>4, <2>1, <2>2 DEF Satisfied
<1>. QED BY <1>5, <1>6

LEMMA InvNext == IInv /\ [profileNext]_profileVars => IInv'
<1>. SUFFICES ASSUME IInv, [profileNext]_profileVars
              PROVE  IInv'
  OBVIOUS
<1>. USE DEF IInv
<1>0. ProfileTypeOK'
  BY TypeNext
<1>1. profile \in Seq(Settings) /\ DOMAIN profile \subseteq Nat /\ pos \in Nat
  BY LenProperties DEF ProfileTypeOK
<1>2. CASE Merge
  <2>1. \A t \in Known : Reached(t)' = {}
    <3>1. profile' \in Seq(Settings) /\ pos' = 1
      BY <1>0, <1>2 DEF ProfileTypeOK, Merge
    <3>2. DOMAIN profile' = 1 .. Len(profile') /\ Len(profile') \in Nat
      BY <3>1, LenProperties
    <3>. QED BY <3>1, <3>2 DEF Reached
  <2>. QED BY <1>0, <1>2, <2>1 DEF Merge, Behind, Past
<1>3. CASE Actuate
  BY <1>0, <1>3, ActuateBehind DEF Actuate, Past
<1>4. CASE Unknown
  <2>1. \A t \in Known : Reached(t)' = Reached(t)
    BY <1>1, <1>4 DEF Unknown, Reached, Setting
  <2>. QED BY <1>0, <1>4, <2>1 DEF Unknown, Behind, Past, Satisfied
<1>5. CASE Crash
  BY <1>0, <1>5 DEF Crash, Behind, Past
<1>6. CASE Finish
  BY <1>0, <1>6 DEF Finish, Behind, Past, Reached, Satisfied
<1>7. CASE Change
  BY <1>0, <1>7 DEF Change, Behind, Past
<1>8. CASE UNCHANGED profileVars
  BY <1>0, <1>8 DEF profileVars, Behind, Past, Reached, Satisfied
<1>. QED BY <1>2, <1>3, <1>4, <1>5, <1>6, <1>7, <1>8 DEF profileNext

LEMMA InvImplies == IInv => CompatibleSettingsHold
<1>. SUFFICES ASSUME IInv, phase = "merged"
              PROVE  CompatibleSettingsHold
  BY DEF CompatibleSettingsHold
<1>1. pos > Len(profile) /\ profile \in Seq(Settings) /\ pos \in Nat
  BY DEF IInv, Past, ProfileTypeOK
<1>2. DOMAIN profile = 1 .. Len(profile) /\ Len(profile) \in Nat
  BY <1>1, LenProperties
<1>. QED BY <1>1, <1>2 DEF IInv, Behind, Reached, CompatibleSettingsHold

\* However many settings of a tweak the profiles have, and whatever the value
\* before: if one value satisfies them all, and none is "!=", they hold
\* together when they have been merged, and no sum overflows on the way.
THEOREM CompatibleSettingsHoldAlways == profileSpec => []CompatibleSettingsHold
BY InvInit, InvNext, InvImplies, PTL DEF profileSpec

\* No setting moves a tweak farther than it must.
THEOREM ChangesAreMinimalAlways == profileSpec => ChangesAreMinimal
<1>1. ASSUME ProfileTypeOK, [profileNext]_profileVars
      PROVE  [\A t \in Known : phase = "merging" =>
                LET op == Operator2Operator(Setting.operator)
                    far(x) == IF x >= value[t] THEN x - value[t] ELSE value[t] - x IN
                value'[t] # value[t] /\ (op = "NEQ" => Setting.operand < Bound - 1) =>
                  \A v \in Ints : operand_is_valid(v, op, Setting.operand)
                                    => far(value'[t]) <= far(v)]_profileVars
  <2>. SUFFICES ASSUME NEW t \in Known, phase = "merging", value'[t] # value[t], profileNext
                PROVE  LET op == Operator2Operator(Setting.operator)
                           far(x) == IF x >= value[t] THEN x - value[t] ELSE value[t] - x IN
                       (op = "NEQ" => Setting.operand < Bound - 1) =>
                         \A v \in Ints : operand_is_valid(v, op, Setting.operand)
                                           => far(value'[t]) <= far(v)
    BY <1>1 DEF profileVars
  <2>1. Actuate
    BY DEF profileNext, Merge, Unknown, Crash, Finish, Change
  <2>2. pos \in DOMAIN profile
    BY <1>1, <2>1, Here DEF Actuate
  <2>3. value[t] \in Ints /\ value \in [Known -> Ints]
    BY <1>1 DEF ProfileTypeOK
  <2>4. value'[t] = perform_operation(value[t], Operator2Operator(Setting.operator), Setting.operand)
    BY <2>1, <2>3 DEF Actuate
  <2>5. Setting.operand \in Ints /\ Operator2Operator(Setting.operator) \in Operators
    BY <1>1, <2>2, SettingType DEF Setting
  <2>. QED BY <2>3, <2>4, <2>5, OperationNearest
<1>2. profileSpec => []ProfileTypeOK
  BY TypeCorrect
<1>. QED BY <1>1, <1>2, PTL DEF profileSpec, ChangesAreMinimal

=============================================================================
