------------------------- MODULE TweakSessionProofs -------------------------
(***************************************************************************)
(* Proofs about modules TweakBackend and TweakSession, for any set of      *)
(* processes, tweaks and registers.                                        *)
(***************************************************************************)
EXTENDS TweakSession, SequenceTheorems, WellFoundedInduction, TLAPS

-----------------------------------------------------------------------------
(* Registers *)

\* A value that, written into the field of t, does not reach beyond it: the
\* PCI backend cuts the value of a slider to the field, a switch is never
\* written as it is.
Fits(t, v) ==
  Backend[t] # "PCI" /\ Widget[t] # "checkbox" => v \subseteq Mask[t]

\* The backend knows how to write the widget of t, and a radio button, whose 1
\* is written as it is, has that bit in its field.
Supported(t) ==
  /\ Backend[t] = "PCI" => Widget[t] \in {"checkbox", "slider"}
  /\ Widget[t] = "radio" => One \subseteq Mask[t]

\* ChangeValue computes a register from a register.
LEMMA NewValueType ==
  ASSUME NEW t \in Tweaks, NEW r \in Values, NEW v \in Values
  PROVE  NewValue(t, r, v) \in Values
<1>1. On[t] \subseteq Bits /\ Off[t] \subseteq Bits /\ Mask[t] \subseteq Bits
  BY BackendAssumption, DescriptionAssumption, Zenon DEF Values
<1>2. r \subseteq Bits /\ v \subseteq Bits
  BY DEF Values
<1>3. Backend[t] \in {"proc", "PCI", "elevator"}
  BY BackendAssumption
<1>. QED
  BY <1>1, <1>2, <1>3 DEF Values, NewValue, ProcValue, PCIValue, ElevatorValue, Switched

\* ChangeValue keeps the field of every other tweak in the same register.
LEMMA NeighboursKept ==
  ASSUME NEW t \in Tweaks, NEW u \in Tweaks, t # u, Register[t] = Register[u],
         NEW r \in Values, NEW v \in Values, Fits(t, v), Supported(t)
  PROVE  Field(u, NewValue(t, r, v)) = Field(u, r)
<1>1. On[t] \subseteq Mask[t] /\ Off[t] \subseteq Mask[t] /\ Mask[t] \cap Mask[u] = {}
  BY DescriptionAssumption
<1>2. ASSUME NEW w \in SUBSET Mask[t]
      PROVE  ((r \ Mask[t]) \cup w) \cap Mask[u] = r \cap Mask[u]
  BY <1>1
<1>3. Field(u, Switched(t, r, TRUE)) = Field(u, r) /\ Field(u, Switched(t, r, FALSE)) = Field(u, r)
  BY <1>1, <1>2 DEF Field, Switched
<1>4. \A b \in BOOLEAN : Field(u, Switched(t, r, b)) = Field(u, r)
  BY <1>3
<1>5. CASE Widget[t] = "checkbox"
  <2>1. Backend[t] \in {"proc", "PCI"}
    BY <1>5, BackendAssumption
  <2>. QED BY <1>4, <1>5, <2>1 DEF NewValue, ProcValue, PCIValue
<1>6. CASE Widget[t] # "checkbox" /\ Backend[t] = "PCI"
  <2>1. Widget[t] = "slider"
    BY <1>6 DEF Supported
  <2>2. NewValue(t, r, v) = (r \ Mask[t]) \cup (v \cap Mask[t])
    BY <1>6, <2>1 DEF NewValue, PCIValue
  <2>. QED BY <1>2, <2>2 DEF Field
<1>7. CASE Widget[t] # "checkbox" /\ Backend[t] # "PCI"
  <2>1. v \in SUBSET Mask[t]
    BY <1>7 DEF Fits
  <2>2. Backend[t] \in {"proc", "elevator"}
    BY <1>7, BackendAssumption
  <2>3. NewValue(t, r, v) = (r \ Mask[t]) \cup v
    BY <1>7, <2>2 DEF NewValue, ProcValue, ElevatorValue
  <2>. QED BY <1>2, <2>1, <2>3 DEF Field
<1>. QED BY <1>5, <1>6, <1>7

\* ChangeValue leaves one of its two patterns in the field of a checkbox.
LEMMA SwitchedLegal ==
  ASSUME NEW t \in Tweaks, NEW r \in Values, NEW v \in Values
  PROVE  Legal(t, NewValue(t, r, v))
<1>. SUFFICES ASSUME Widget[t] = "checkbox"
              PROVE  Field(t, NewValue(t, r, v)) \in {On[t], Off[t]}
  BY DEF Legal
<1>1. On[t] \subseteq Mask[t] /\ Off[t] \subseteq Mask[t]
  BY DescriptionAssumption
<1>2. Field(t, Switched(t, r, TRUE)) = On[t] /\ Field(t, Switched(t, r, FALSE)) = Off[t]
  BY <1>1 DEF Field, Switched
<1>3. \A b \in BOOLEAN : Field(t, Switched(t, r, b)) \in {On[t], Off[t]}
  BY <1>2
<1>4. Backend[t] \in {"proc", "PCI"}
  BY BackendAssumption
<1>. QED BY <1>3, <1>4 DEF NewValue, ProcValue, PCIValue

\* Every tweak with its value in the register k finds a pattern it knows in v.
LegalHere(k, v) == \A t \in Tweaks : Register[t] = k => Legal(t, v)

\* So ChangeValue, computed from a register with legal fields, has them.
LEMMA NewValueLegal ==
  ASSUME NEW t \in Tweaks, NEW r \in Values, NEW v \in Values,
         Fits(t, v), Supported(t), LegalHere(Register[t], r)
  PROVE  LegalHere(Register[t], NewValue(t, r, v))
<1>. SUFFICES ASSUME NEW u \in Tweaks, Register[u] = Register[t]
              PROVE  Legal(u, NewValue(t, r, v))
  BY DEF LegalHere
<1>1. CASE u = t
  BY <1>1, SwitchedLegal
<1>2. CASE u # t
  BY <1>2, NeighboursKept DEF LegalHere, Legal
<1>. QED BY <1>1, <1>2

\* What GetValueRaw returns is a value that fits.
LEMMA ShownFits ==
  ASSUME NEW t \in Tweaks, NEW r \in Values, Supported(t)
  PROVE  Shown(t, r) \in Values /\ Fits(t, Shown(t, r))
<1>1. One \in Values /\ {} \in Values /\ Field(t, r) \in Values
  BY BackendAssumption DEF Field, Values
<1>2. Shown(t, r) \in Values
  BY <1>1 DEF Shown
<1>3. CASE Boolean(t)
  <2>1. Shown(t, r) = One \/ Shown(t, r) = {}
    BY <1>3 DEF Shown
  <2>. QED BY <1>2, <1>3, <2>1 DEF Boolean, Fits, Supported
<1>4. CASE ~Boolean(t)
  <2>1. Shown(t, r) \subseteq Mask[t]
    BY <1>4 DEF Shown, Field
  <2>. QED BY <1>2, <2>1 DEF Fits
<1>. QED BY <1>3, <1>4

-----------------------------------------------------------------------------
(* Types *)

\* What enters: from the registers, from the file and the profiles, from the
\* user.  G[t] are the values that are good for t; the theorems choose G.
GoodInputs(G) ==
  /\ G \in [Tweaks -> SUBSET Values]
  /\ \A t \in Tweaks : {} \in G[t] /\ \A r \in Values : Shown(t, r) \in G[t]
  /\ \A t \in Tweaks : Widget[t] = "checkbox" => One \in G[t]
  /\ \A t \in Tweaks : Choices[t] \subseteq G[t]
  /\ \A c \in InitialConfigs : \A t \in Tweaks : c[t] # None => c[t] \in G[t]
  /\ \A i \in DOMAIN Profile : Profile[i].value \in G[Profile[i].tweak]
  /\ \A i \in DOMAIN Opened : Opened[i].value \in G[Opened[i].tweak]
  /\ \A t, u \in Tweaks : ConfigName[t] = ConfigName[u] => G[t] = G[u]

\* A call whose value is good for its tweak.
SafeCalls(G) == {c \in Calls : c.op = "change" => c.value \in G[c.tweak]}

ConfigType(G) == config \in Configs /\ \A t \in Tweaks : config[t] # None => config[t] \in G[t]

JobType(G) == job \in [Procs -> Seq(SafeCalls(G))]

\* Only a handler makes calls, and only ChangeValue holds something.
HoldType ==
  /\ phase \in [Procs -> Phases]
  /\ hold \in [Procs -> {None} \cup Values]
  /\ \A p \in Procs : job[p] # <<>> => phase[p] \in Busy
  /\ \A p \in Procs : hold[p] # None => job[p] # <<>> /\ Head(job[p]).op = "change"

TreeType(G) ==
  /\ pvt \in [Procs -> [Tweaks -> Values]]
  /\ temp \in [Procs -> [Tweaks -> Values]]
  /\ \A p \in Procs : \A t \in Tweaks : pvt[p][t] \in G[t] /\ temp[p][t] \in G[t]

HistoryType ==
  /\ edits \in 0..MaxEdits
  /\ done \in [Procs -> {"none"} \cup Busy]
  /\ clean \in [Procs -> BOOLEAN] /\ fresh \in [Procs -> BOOLEAN]
  /\ edited \in [Procs -> SUBSET Tweaks]
  /\ set \in [Procs -> [Tweaks -> {None} \cup Values]]

TypeInv(G) ==
  /\ reg \in Machine
  /\ ConfigType(G) /\ JobType(G) /\ HoldType /\ TreeType(G) /\ HistoryType

\* A set of natural numbers has a least element.
LEMMA Least ==
  ASSUME NEW S, S \subseteq Nat, S # {}
  PROVE  \E i \in S : \A k \in S : i <= k
<1>. DEFINE R == {ss \in Nat \X Nat : ss[1] < ss[2]}
<1>1. IsWellFoundedOn(R, Nat)
  BY NatLessThanWellFounded DEF OpToRel
<1>2. PICK i \in S : \A k \in S : ~(<<k, i>> \in R)
  <2>. HIDE DEF R
  <2>. QED BY <1>1, WFMin, Zenon
<1>3. ASSUME NEW k \in S PROVE i <= k
  <2>1. <<k, i>> \notin R
    BY <1>2
  <2>2. k \in Nat /\ i \in Nat
    OBVIOUS
  <2>. QED BY <2>1, <2>2
<1>. QED BY <1>2, <1>3

\* The daemon finds a tweak of the name, by the name.
LEMMA FindsName ==
  ASSUME NEW t \in Tweaks
  PROVE  Find(t) \in Tweaks /\ ConfigName[Find(t)] = ConfigName[t]
<1>. DEFINE same == {i \in DOMAIN Order : ConfigName[Order[i]] = ConfigName[t]}
<1>1. Order \in Seq(Tweaks) /\ {Order[i] : i \in DOMAIN Order} = Tweaks
  BY SessionAssumption
<1>2. DOMAIN Order \subseteq Nat /\ \A i \in DOMAIN Order : Order[i] \in Tweaks
  BY <1>1, LenProperties
<1>3. \E i \in DOMAIN Order : Order[i] = t
  BY <1>1
<1>4. same # {} /\ same \subseteq Nat
  BY <1>2, <1>3
<1>5. \E i \in same : \A k \in same : i <= k
  <2>. HIDE DEF same
  <2>. QED BY <1>4, Least
<1>6. (CHOOSE i \in same : \A k \in same : i <= k) \in same
  <2>. HIDE DEF same
  <2>. QED BY <1>5
<1>. QED BY <1>2, <1>6 DEF Find

\* So a call ends up at a tweak for which the same values are good.
LEMMA ReachesGood ==
  ASSUME NEW G, GoodInputs(G), NEW p \in Procs, NEW t \in Tweaks
  PROVE  Reached(p, t) \in Tweaks /\ G[Reached(p, t)] = G[t]
BY FindsName DEF Reached, GoodInputs

\* Names are unique (powertweak.h: "Unique identifier").
UniqueNames == \A t, u \in Tweaks : ConfigName[t] = ConfigName[u] => t = u

LEMMA ReachesItself ==
  ASSUME UniqueNames, NEW p \in Procs, NEW t \in Tweaks
  PROVE  Reached(p, t) = t
BY FindsName DEF Reached, UniqueNames

\* A sequence as long as the tree is one.
LEMMA TreeSeq ==
  ASSUME NEW S, NEW f, f = [i \in DOMAIN Order |-> f[i]],
         \A i \in DOMAIN Order : f[i] \in S
  PROVE  f \in Seq(S)
<1>1. Len(Order) \in Nat /\ DOMAIN Order = 1..Len(Order)
  BY SessionAssumption, LenProperties
<1>2. f \in [1..Len(Order) -> S]
  BY <1>1
<1>. QED BY <1>1, <1>2, SeqDef

LEMMA OrderTweaks == \A i \in DOMAIN Order : Order[i] \in Tweaks
BY SessionAssumption, LenProperties

\* A call that changes nothing is safe.
LEMMA OtherCall ==
  ASSUME NEW G, NEW op \in {"raw", "get", "skip", "truncate", "put"}, NEW t \in Tweaks,
         NEW now \in BOOLEAN
  PROVE  Call(op, t, {}, {}, now) \in SafeCalls(G)
<1>1. {} \in Values /\ {} \in SUBSET Values
  BY DEF Values
<1>. QED BY <1>1 DEF Call, SafeCalls, Calls

LEMMA ChangeCall ==
  ASSUME NEW G, NEW t \in Tweaks, NEW v \in Values, NEW w \in SUBSET Values,
         NEW now \in BOOLEAN, v \in G[t]
  PROVE  Call("change", t, v, w, now) \in SafeCalls(G)
BY DEF Call, SafeCalls, Calls

LEMMA ForAllSafe ==
  ASSUME NEW G, NEW op \in {"raw", "get", "put"}
  PROVE  ForAll(op) \in Seq(SafeCalls(G))
<1>1. \A i \in DOMAIN Order : ForAll(op)[i] \in SafeCalls(G)
  BY OtherCall, OrderTweaks DEF ForAll
<1>. QED BY <1>1, TreeSeq DEF ForAll

LEMMA RefreshSafe ==
  ASSUME NEW G, GoodInputs(G), NEW p \in Procs
  PROVE  RefreshValuesFromDaemon(p) \in Seq(SafeCalls(G))
<1>1. \A i \in DOMAIN Order : RefreshValuesFromDaemon(p)[i] \in SafeCalls(G)
  BY OtherCall, OrderTweaks, ReachesGood DEF RefreshValuesFromDaemon
<1>. QED BY <1>1, TreeSeq DEF RefreshValuesFromDaemon

LEMMA UpdateSafe ==
  ASSUME NEW G
  PROVE  update_GTK_tree_values \in Seq(SafeCalls(G))
<1>1. Len(Order) \in Nat /\ DOMAIN Order = 1..Len(Order)
  BY SessionAssumption, LenProperties
<1>2. \A i \in DOMAIN Order : fill_frame[i] \in SafeCalls(G)
  BY OtherCall, OrderTweaks DEF fill_frame, ForAll
<1>3. \A i \in DOMAIN Order : Len(Order) + 1 - i \in DOMAIN Order
  BY <1>1
<1>4. \A i \in DOMAIN Order : update_GTK_tree_values[i] \in SafeCalls(G)
  BY <1>2, <1>3 DEF update_GTK_tree_values
<1>. QED BY <1>4, TreeSeq DEF update_GTK_tree_values

LEMMA GuiSafe ==
  ASSUME NEW G, GoodInputs(G), TreeType(G), NEW p \in Procs, NEW now \in BOOLEAN
  PROVE  GuiToDaemon(p, now) \in Seq(SafeCalls(G))
<1>1. {} \in SUBSET Values
  OBVIOUS
<1>2. \A i \in DOMAIN Order : GuiToDaemon(p, now)[i] \in SafeCalls(G)
  BY <1>1, ChangeCall, OrderTweaks, ReachesGood DEF GuiToDaemon, TreeType
<1>. QED BY <1>2, TreeSeq DEF GuiToDaemon

LEMMA MergeSafe ==
  ASSUME NEW G, ConfigType(G), NEW now \in BOOLEAN
  PROVE  merge_config_in_tree(now) \in Seq(SafeCalls(G))
<1>1. {} \in SUBSET Values
  OBVIOUS
<1>2. ASSUME NEW i \in DOMAIN Order
      PROVE  merge_config_in_tree(now)[i] \in SafeCalls(G)
  <2>1. Order[i] \in Tweaks
    BY OrderTweaks
  <2>2. CASE config[Order[i]] = None
    BY <2>1, <2>2, OtherCall DEF merge_config_in_tree
  <2>3. CASE config[Order[i]] # None
    <3>1. config[Order[i]] \in Values /\ config[Order[i]] \in G[Order[i]]
      BY <2>1, <2>3 DEF ConfigType, Configs
    <3>. QED BY <1>1, <2>1, <2>3, <3>1, ChangeCall DEF merge_config_in_tree
  <2>. QED BY <2>2, <2>3
<1>. QED BY <1>2, TreeSeq DEF merge_config_in_tree

LEMMA MergeProfileSafe ==
  ASSUME NEW G, NEW settings \in Seq(Settings),
         \A i \in DOMAIN settings : settings[i].value \in G[settings[i].tweak]
  PROVE  merge_profile(settings) \in Seq(SafeCalls(G))
<1>1. Len(settings) \in Nat /\ DOMAIN settings = 1..Len(settings)
      /\ \A i \in DOMAIN settings : settings[i] \in Settings
  BY LenProperties
<1>2. \A i \in DOMAIN settings : merge_profile(settings)[i] \in SafeCalls(G)
  BY <1>1, ChangeCall DEF merge_profile, Settings
<1>3. merge_profile(settings) \in [1..Len(settings) -> SafeCalls(G)]
  BY <1>1, <1>2 DEF merge_profile
<1>. QED BY <1>1, <1>3, SeqDef

LEMMA ProfilesSafe ==
  ASSUME NEW G, GoodInputs(G)
  PROVE  load_profiles \in Seq(SafeCalls(G)) /\ merge_profile(Opened) \in Seq(SafeCalls(G))
BY SessionAssumption, MergeProfileSafe DEF load_profiles, GoodInputs

\* save_tree_to_config needs a tweak to begin with.
LEMMA SaveSafe ==
  ASSUME NEW G
  PROVE  save_tree_to_config \in Seq(SafeCalls(G))
<1>0. PICK t \in Tweaks : TRUE
  BY SessionAssumption
<1>1. \E i \in DOMAIN Order : Order[i] = t
  BY SessionAssumption
<1>2. 1 \in DOMAIN Order
  BY <1>1, SessionAssumption, LenProperties
<1>. DEFINE first == Call("truncate", Order[1], {}, {}, FALSE)
<1>3. first \in SafeCalls(G)
  BY <1>2, OrderTweaks, OtherCall
<1>4. <<first>> \in Seq(SafeCalls(G))
  <2>. HIDE DEF first
  <2>. QED BY <1>3
<1>. QED BY <1>4, ForAllSafe, ConcatProperties DEF save_tree_to_config

-----------------------------------------------------------------------------
(* Types are kept *)

LEMMA TypeInit ==
  ASSUME NEW G, GoodInputs(G), Init
  PROVE  TypeInv(G)
<1>1. {} \in Values
  BY DEF Values
<1>2. reg \in Machine
  BY SessionAssumption DEF Init
<1>3. ConfigType(G)
  BY SessionAssumption DEF Init, ConfigType, GoodInputs
<1>4. JobType(G)
  BY EmptySeq DEF Init, JobType
<1>5. HoldType
  BY DEF Init, HoldType, Phases
<1>6. TreeType(G)
  BY <1>1 DEF Init, TreeType, GoodInputs
<1>7. HistoryType
  BY SessionAssumption DEF Init, HistoryType
<1>. QED BY <1>2, <1>3, <1>4, <1>5, <1>6, <1>7 DEF TypeInv

\* A handler begins where none runs, so nothing is held.
LEMMA BeginType ==
  ASSUME NEW G, TypeInv(G), NEW p \in Procs, phase[p] \notin Busy,
         NEW ph \in Busy, NEW calls \in Seq(SafeCalls(G)),
         Begin(p, ph, calls), UNCHANGED <<values, edited>>,
         UNCHANGED set \/ set' = [set EXCEPT ![p] = [t \in Tweaks |-> None]]
  PROVE  TypeInv(G)'
<1>. USE DEF TypeInv
<1>1. reg' \in Machine /\ ConfigType(G)'
  BY DEF Begin, ConfigType
<1>2. JobType(G)'
  BY DEF Begin, JobType
<1>3. HoldType'
  <2>1. phase' \in [Procs -> Phases]
    BY DEF Begin, HoldType, Phases
  <2>2. hold[p] = None
    BY DEF HoldType
  <2>3. \A q \in Procs : q # p => job'[q] = job[q] /\ phase'[q] = phase[q]
    BY DEF Begin, JobType, HoldType
  <2>4. phase'[p] \in Busy
    BY DEF Begin, HoldType
  <2>. QED BY <2>1, <2>2, <2>3, <2>4 DEF Begin, HoldType
<1>4. TreeType(G)'
  BY DEF TreeType, values
<1>5. HistoryType'
  BY DEF HistoryType, Begin
<1>. QED BY <1>1, <1>2, <1>3, <1>4, <1>5

\* The head of a job, and what remains without it.
LEMMA JobFacts ==
  ASSUME NEW G, TypeInv(G), NEW p \in Procs, job[p] # <<>>
  PROVE  /\ Todo(p) \in SafeCalls(G)
         /\ Todo(p).tweak \in Tweaks
         /\ Todo(p).value \in Values
         /\ Tail(job[p]) \in Seq(SafeCalls(G))
<1>1. job[p] \in Seq(SafeCalls(G))
  BY DEF TypeInv, JobType
<1>2. Todo(p) \in SafeCalls(G) /\ Tail(job[p]) \in Seq(SafeCalls(G))
  BY <1>1, HeadTailProperties DEF Todo
<1>. QED BY <1>2 DEF SafeCalls, Calls

\* A call other than ChangeValue is made while nothing is held, and taking it
\* from the job disturbs nobody's hold.
LEMMA DropType ==
  ASSUME NEW G, TypeInv(G), NEW p \in Procs, job[p] # <<>>, Drop(p), UNCHANGED phase,
         \/ Todo(p).op # "change" /\ UNCHANGED hold
         \/ hold[p] = None /\ UNCHANGED hold
         \/ hold' = [hold EXCEPT ![p] = None]
  PROVE  /\ JobType(G)' /\ HoldType'
         /\ hold'[p] = None
         /\ \A q \in Procs : q # p => job'[q] = job[q] /\ hold'[q] = hold[q]
<1>1. job' = [job EXCEPT ![p] = Tail(@)] /\ job \in [Procs -> Seq(SafeCalls(G))]
  BY DEF Drop, TypeInv, JobType
<1>2. JobType(G)'
  BY <1>1, JobFacts DEF JobType
<1>3. hold \in [Procs -> {None} \cup Values] /\ hold' \in [Procs -> {None} \cup Values]
  BY DEF TypeInv, HoldType
<1>4. hold'[p] = None
  BY <1>3 DEF TypeInv, HoldType, Todo
<1>5. \A q \in Procs : q # p => job'[q] = job[q] /\ hold'[q] = hold[q]
  BY <1>1, <1>3
<1>6. HoldType'
  BY <1>3, <1>4, <1>5 DEF TypeInv, HoldType
<1>. QED BY <1>2, <1>4, <1>5, <1>6

\* Wanted is a value of the widget, and good for it.
LEMMA WantedGood ==
  ASSUME NEW G, TypeInv(G), NEW p \in Procs, job[p] # <<>>, Todo(p).op = "change"
  PROVE  Wanted(p) \in Values /\ Wanted(p) \in G[Todo(p).tweak]
<1>1. Todo(p).tweak \in Tweaks /\ Todo(p).value \in Values /\ Todo(p).value \in G[Todo(p).tweak]
  BY JobFacts DEF SafeCalls
<1>2. pvt[p][Todo(p).tweak] \in Values /\ pvt[p][Todo(p).tweak] \in G[Todo(p).tweak]
  BY <1>1 DEF TypeInv, TreeType
<1>. QED BY <1>1, <1>2 DEF Wanted

\* The jobs of the operations.
LEMMA OperationType ==
  ASSUME NEW G, GoodInputs(G), TypeInv(G), NEW p \in Procs,
         \/ Start(p) \/ Reload(p) \/ Connect(p) \/ Apply(p) \/ Save(p) \/ Refresh(p)
         \/ OpenProfile(p)
  PROVE  TypeInv(G)'
<1>1. /\ phase[p] \in {"down", "serving", "ui"} => phase[p] \notin Busy
      /\ {"starting", "connecting", "applying", "saving", "refreshing", "opening"} \subseteq Busy
  BY DEF Busy
<1>2. update_tree_values \in Seq(SafeCalls(G)) /\ fill_frame \in Seq(SafeCalls(G))
  BY ForAllSafe DEF update_tree_values, fill_frame
<1>3. ConfigType(G) /\ TreeType(G)
  BY DEF TypeInv
<1>4. CASE Start(p)
  <2>. DEFINE rest == IF p \in Locals THEN fill_frame ELSE <<>>
              merge == merge_config_in_tree(p \in Daemons)
  <2>1. merge \in Seq(SafeCalls(G))
    <3>1. (p \in Daemons) \in BOOLEAN
      OBVIOUS
    <3>. QED BY <1>3, <3>1, MergeSafe
  <2>2. rest \in Seq(SafeCalls(G)) /\ load_profiles \in Seq(SafeCalls(G))
    BY <1>2, ProfilesSafe, EmptySeq
  <2>3. update_tree_values \o merge \o load_profiles \o rest \in Seq(SafeCalls(G))
    <3>. HIDE DEF merge, rest
    <3>. QED BY <1>2, <2>1, <2>2, ConcatProperties
  <2>. QED BY <1>1, <1>4, <2>3, BeginType DEF Start
<1>5. CASE Reload(p)
  <2>1. merge_config_in_tree(TRUE) \in Seq(SafeCalls(G)) /\ load_profiles \in Seq(SafeCalls(G))
    BY <1>3, MergeSafe, ProfilesSafe
  <2>2. update_tree_values \o merge_config_in_tree(TRUE) \o load_profiles \in Seq(SafeCalls(G))
    BY <1>2, <2>1, ConcatProperties
  <2>. QED BY <1>1, <1>5, <2>2, BeginType DEF Reload
<1>6. CASE Connect(p)
  <2>1. update_tree_values \o fill_frame \in Seq(SafeCalls(G))
    BY <1>2, ConcatProperties
  <2>. QED BY <1>1, <1>6, <2>1, BeginType DEF Connect
<1>7. CASE Apply(p)
  <2>. DEFINE after == IF p \in Textual THEN <<>> ELSE update_GTK_tree_values
  <2>1. GuiToDaemon(p, TRUE) \in Seq(SafeCalls(G)) /\ after \in Seq(SafeCalls(G))
    BY <1>3, GuiSafe, UpdateSafe, EmptySeq
  <2>2. GuiToDaemon(p, TRUE) \o after \in Seq(SafeCalls(G))
    <3>. HIDE DEF after
    <3>. QED BY <2>1, ConcatProperties
  <2>. QED BY <1>1, <1>7, <2>2, BeginType DEF Apply
<1>8. CASE Save(p)
  <2>1. GuiToDaemon(p, FALSE) \in Seq(SafeCalls(G)) /\ save_tree_to_config \in Seq(SafeCalls(G))
    BY <1>3, GuiSafe, SaveSafe
  <2>2. GuiToDaemon(p, FALSE) \o save_tree_to_config \in Seq(SafeCalls(G))
    BY <2>1, ConcatProperties
  <2>. QED BY <1>1, <1>8, <2>2, BeginType DEF Save
<1>9. CASE Refresh(p)
  <2>1. RefreshValuesFromDaemon(p) \o update_GTK_tree_values \in Seq(SafeCalls(G))
    BY RefreshSafe, UpdateSafe, ConcatProperties
  <2>. QED BY <1>1, <1>9, <2>1, BeginType DEF Refresh
<1>10. CASE OpenProfile(p)
  BY <1>1, <1>10, ProfilesSafe, BeginType DEF OpenProfile
<1>. QED BY <1>4, <1>5, <1>6, <1>7, <1>8, <1>9, <1>10

\* What happens between the operations.
LEMMA PhaseType ==
  ASSUME NEW G, GoodInputs(G), TypeInv(G), NEW p \in Procs,
         Edit(p) \/ Finish(p) \/ Quit(p) \/ Die(p)
  PROVE  TypeInv(G)'
<1>. USE DEF TypeInv
<1>0. {"down", "serving", "ui"} \subseteq Phases \ Busy
  BY DEF Phases, Busy
<1>1. CASE Edit(p)
  <2>0. PICK t \in Tweaks : \E v \in Choices[t] :
          temp' = [temp EXCEPT ![p][t] = v] /\ edited' = [edited EXCEPT ![p] = @ \cup {t}]
    BY <1>1 DEF Edit
  <2>1. PICK v \in Choices[t] : temp' = [temp EXCEPT ![p][t] = v]
    BY <2>0
  <2>2. v \in Values /\ v \in G[t]
    BY SessionAssumption DEF GoodInputs
  <2>3. TreeType(G)'
    BY <1>1, <2>1, <2>2 DEF TreeType, Edit
  <2>4. edits' \in 0..MaxEdits
    BY <1>1, SessionAssumption DEF Edit, HistoryType
  <2>5. HistoryType'
    BY <1>1, <2>0, <2>4 DEF Edit, HistoryType
  <2>. QED BY <1>1, <2>3, <2>5 DEF Edit, ConfigType, JobType, HoldType
<1>2. CASE Finish(p)
  <2>1. hold[p] = None
    BY <1>2 DEF Finish, HoldType
  <2>2. \A q \in Procs : q # p => phase'[q] = phase[q]
    BY <1>2 DEF Finish, HoldType
  <2>3. HoldType'
    BY <1>0, <1>2, <2>1, <2>2 DEF Finish, HoldType
  <2>4. HistoryType'
    BY <1>2 DEF Finish, HistoryType
  <2>. QED BY <1>2, <2>3, <2>4 DEF Finish, ConfigType, JobType, TreeType, values
<1>3. CASE Quit(p)
  <2>1. job[p] = <<>> /\ hold[p] = None
    BY <1>0, <1>3 DEF Quit, HoldType
  <2>2. \A q \in Procs : q # p => phase'[q] = phase[q]
    BY <1>3 DEF Quit, HoldType
  <2>3. HoldType'
    BY <1>0, <1>3, <2>1, <2>2 DEF Quit, HoldType
  <2>4. HistoryType'
    BY <1>3 DEF Quit, HistoryType
  <2>. QED BY <1>3, <2>3, <2>4 DEF Quit, ConfigType, JobType, TreeType, values
<1>4. CASE Die(p)
  <2>1. \A q \in Procs : q # p => phase'[q] = phase[q] /\ job'[q] = job[q] /\ hold'[q] = hold[q]
    BY <1>4 DEF Die, HoldType, JobType
  <2>2. job'[p] = <<>> /\ hold'[p] = None
    BY <1>4 DEF Die, HoldType, JobType
  <2>3. HoldType'
    BY <1>0, <1>4, <2>1, <2>2 DEF Die, HoldType
  <2>4. JobType(G)'
    BY <1>4, EmptySeq DEF Die, JobType
  <2>5. HistoryType'
    BY <1>4 DEF Die, HistoryType
  <2>. QED BY <1>4, <2>3, <2>4, <2>5 DEF Die, ConfigType, TreeType, values
<1>. QED BY <1>1, <1>2, <1>3, <1>4

\* The method calls that write no register.
LEMMA CallType ==
  ASSUME NEW G, GoodInputs(G), TypeInv(G), NEW p \in Procs,
         GetValueRaw(p) \/ GetValue(p) \/ Skip(p) \/ ChangeValue(p)
  PROVE  TypeInv(G)'
<1>. DEFINE t == Todo(p).tweak
<1>1. job[p] # <<>>
  BY DEF GetValueRaw, GetValue, Skip, ChangeValue
<1>2. t \in Tweaks /\ Register[t] \in Registers
  BY <1>1, JobFacts, BackendAssumption
<1>3. reg[Register[t]] \in Values
  BY <1>2 DEF TypeInv, Machine
<1>4. CASE GetValueRaw(p)
  <2>1. JobType(G)' /\ HoldType'
    BY <1>1, <1>4, DropType DEF GetValueRaw
  <2>2. Shown(t, reg[Register[t]]) \in Values /\ Shown(t, reg[Register[t]]) \in G[t]
    BY <1>2, <1>3 DEF GoodInputs
  <2>3. pvt' = [pvt EXCEPT ![p][t] = Shown(t, reg[Register[t]])] /\ temp' = temp
    BY <1>4 DEF GetValueRaw, Here
  <2>4. TreeType(G)'
    <3>. HIDE DEF t
    <3>. QED BY <1>2, <2>2, <2>3 DEF TypeInv, TreeType
  <2>. QED BY <1>4, <2>1, <2>4 DEF GetValueRaw, TypeInv, ConfigType, HistoryType, history
<1>5. CASE GetValue(p)
  <2>. DEFINE u == Reached(p, t)
  <2>1. JobType(G)' /\ HoldType'
    BY <1>1, <1>5, DropType DEF GetValue
  <2>2. temp' = [temp EXCEPT ![p][t] = Drawn(p, t, pvt[p][u])] /\ pvt' = pvt
    BY <1>5 DEF GetValue
  <2>3. u \in Tweaks /\ G[u] = G[t]
    BY <1>2, ReachesGood
  <2>4. Drawn(p, t, pvt[p][u]) \in Values /\ Drawn(p, t, pvt[p][u]) \in G[t]
    <3>. HIDE DEF t, u
    <3>1. pvt[p][u] \in Values /\ pvt[p][u] \in G[t]
      BY <1>2, <2>3 DEF TypeInv, TreeType
    <3>. QED BY <1>2, <3>1, BackendAssumption DEF Drawn, GoodInputs
  <2>5. TreeType(G)'
    <3>. HIDE DEF t, u
    <3>. QED BY <1>2, <2>2, <2>4 DEF TypeInv, TreeType
  <2>6. HistoryType'
    BY <1>2, <1>5 DEF GetValue, TypeInv, HistoryType
  <2>. QED BY <1>5, <2>1, <2>5, <2>6 DEF GetValue, TypeInv, ConfigType
<1>6. CASE Skip(p)
  <2>1. JobType(G)' /\ HoldType'
    BY <1>1, <1>6, DropType DEF Skip
  <2>. QED BY <1>6, <2>1 DEF Skip, TypeInv, ConfigType, TreeType, HistoryType, values, history
<1>7. CASE ChangeValue(p)
  <2>1. Wanted(p) \in Values /\ Wanted(p) \in G[t]
    BY <1>1, <1>7, WantedGood DEF ChangeValue
  <2>2. pvt' = [pvt EXCEPT ![p][t] = Wanted(p)] /\ temp' = temp
    BY <1>7 DEF ChangeValue
  <2>3. TreeType(G)' /\ HistoryType'
    <3>1. HistoryType'
      <4>1. set' = [set EXCEPT ![p][t] = Wanted(p)]
        BY <1>7 DEF ChangeValue
      <4>2. set' \in [Procs -> [Tweaks -> {None} \cup Values]]
        <5>. HIDE DEF t
        <5>. QED BY <1>2, <2>1, <4>1 DEF TypeInv, HistoryType
      <4>. QED BY <1>7, <4>2 DEF TypeInv, HistoryType, ChangeValue
    <3>. HIDE DEF t
    <3>. QED BY <1>2, <2>1, <2>2, <3>1 DEF TypeInv, TreeType
  <2>4. CASE hold' = [hold EXCEPT ![p] = reg[Here(p)]] /\ UNCHANGED job
    <3>1. hold' \in [Procs -> {None} \cup Values] /\ hold'[p] = reg[Register[t]]
      BY <1>3, <2>4 DEF TypeInv, HoldType, Here
    <3>2. \A q \in Procs : q # p => hold'[q] = hold[q]
      BY <2>4 DEF TypeInv, HoldType
    <3>3. HoldType' /\ JobType(G)'
      BY <1>1, <1>7, <2>4, <3>1, <3>2 DEF ChangeValue, TypeInv, HoldType, JobType, Todo
    <3>. QED BY <1>7, <2>3, <3>3 DEF ChangeValue, TypeInv, ConfigType
  <2>5. CASE Drop(p) /\ UNCHANGED hold
    <3>1. JobType(G)' /\ HoldType'
      BY <1>1, <1>7, <2>5, DropType DEF ChangeValue
    <3>. QED BY <1>7, <2>3, <3>1 DEF ChangeValue, TypeInv, ConfigType
  <2>. QED BY <1>7, <2>4, <2>5 DEF ChangeValue
<1>. QED BY <1>4, <1>5, <1>6, <1>7

\* A write withdraws what others may claim.
LEMMA InterfereType ==
  ASSUME HistoryType, NEW p \in Procs, Interfere(p), UNCHANGED <<edits, edited, set>>
  PROVE  HistoryType'
BY DEF HistoryType, Interfere

\* The write of ChangeValue, of a register computed from what may be stale.
LEMMA WriteBackType ==
  ASSUME NEW G, GoodInputs(G), TypeInv(G), NEW p \in Procs, WriteBack(p)
  PROVE  TypeInv(G)'
<1>. DEFINE t == Todo(p).tweak
            new == NewValue(t, hold[p], Wanted(p))
<1>1. hold[p] # None /\ hold[p] \in Values /\ job[p] # <<>> /\ Todo(p).op = "change"
  BY DEF WriteBack, TypeInv, HoldType, Todo
<1>2. t \in Tweaks /\ Register[t] \in Registers
  BY <1>1, JobFacts, BackendAssumption
<1>3. new \in Values
  BY <1>1, <1>2, WantedGood, NewValueType
<1>4. JobType(G)' /\ HoldType'
  BY <1>1, DropType DEF WriteBack
<1>5. reg' = [reg EXCEPT ![Register[t]] = new] \/ reg' = reg
  BY DEF WriteBack, Here
<1>6. reg' \in Machine
  <2>. HIDE DEF new, t
  <2>. QED BY <1>2, <1>3, <1>5 DEF TypeInv, Machine
<1>7. HistoryType'
  BY InterfereType DEF WriteBack, TypeInv, HistoryType
<1>. QED BY <1>4, <1>6, <1>7 DEF WriteBack, TypeInv, ConfigType, TreeType, values

\* The configuration file.
LEMMA FileType ==
  ASSUME NEW G, GoodInputs(G), TypeInv(G), NEW p \in Procs, Truncate(p) \/ Put(p)
  PROVE  TypeInv(G)'
<1>1. job[p] # <<>> /\ Todo(p).op # "change" /\ Todo(p).tweak \in Tweaks
  BY JobFacts DEF Truncate, Put
<1>2. JobType(G)' /\ HoldType'
  BY <1>1, DropType DEF Truncate, Put
<1>3. HistoryType'
  BY InterfereType DEF Truncate, Put, TypeInv
<1>4. CASE Truncate(p)
  <2>1. ConfigType(G)'
    BY <1>4 DEF Truncate, ConfigType, Configs
  <2>. QED BY <1>2, <1>3, <1>4, <2>1 DEF Truncate, TypeInv, TreeType, values
<1>5. CASE Put(p)
  <2>1. pvt[p][Todo(p).tweak] \in Values /\ pvt[p][Todo(p).tweak] \in G[Todo(p).tweak]
    BY <1>1 DEF TypeInv, TreeType
  <2>2. config' = [config EXCEPT ![Todo(p).tweak] = pvt[p][Todo(p).tweak]]
    BY <1>5 DEF Put
  <2>3. ConfigType(G)'
    BY <1>1, <2>1, <2>2 DEF TypeInv, ConfigType, Configs
  <2>. QED BY <1>2, <1>3, <1>5, <2>3 DEF Put, TypeInv, TreeType, values
<1>. QED BY <1>4, <1>5

\* Somebody else.
LEMMA ElsewhereType ==
  ASSUME NEW G, TypeInv(G), Elsewhere
  PROVE  TypeInv(G)'
<1>1. reg' \in Machine
  BY SessionAssumption DEF Elsewhere
<1>2. HistoryType'
  BY DEF Elsewhere, TypeInv, HistoryType
<1>. QED BY <1>1, <1>2 DEF Elsewhere, TypeInv, ConfigType, JobType, HoldType, TreeType, values

LEMMA TypeStep ==
  ASSUME NEW G, GoodInputs(G), TypeInv(G), [Next]_vars
  PROVE  TypeInv(G)'
<1>1. CASE UNCHANGED vars
  BY <1>1 DEF vars, values, history, TypeInv, ConfigType, JobType, HoldType, TreeType, HistoryType
<1>2. CASE Elsewhere
  BY <1>2, ElsewhereType
<1>3. ASSUME NEW p \in Procs,
             \/ Start(p) \/ Reload(p) \/ Connect(p) \/ Apply(p) \/ Save(p) \/ Refresh(p)
             \/ OpenProfile(p)
      PROVE  TypeInv(G)'
  BY <1>3, OperationType
<1>4. ASSUME NEW p \in Procs, Edit(p) \/ Finish(p) \/ Quit(p) \/ Die(p)
      PROVE  TypeInv(G)'
  BY <1>4, PhaseType
<1>5. ASSUME NEW p \in Procs,
             \/ GetValueRaw(p) \/ GetValue(p) \/ Skip(p) \/ ChangeValue(p)
             \/ WriteBack(p) \/ Truncate(p) \/ Put(p)
      PROVE  TypeInv(G)'
  BY <1>5, CallType, WriteBackType, FileType
<1>. QED BY <1>1, <1>2, <1>3, <1>4, <1>5, Zenon DEF Next, Step

\* Every value is good as far as types go.
AnyValue == [t \in Tweaks |-> Values]

LEMMA AnyValueGood == GoodInputs(AnyValue)
<1>1. {} \in Values /\ One \in Values
  BY BackendAssumption DEF Values
<1>2. ASSUME NEW t \in Tweaks, NEW r \in Values PROVE Shown(t, r) \in Values
  BY <1>1 DEF Shown, Field, Values
<1>3. \A c \in InitialConfigs : \A t \in Tweaks : c[t] # None => c[t] \in Values
  BY SessionAssumption DEF Configs
<1>4. /\ \A i \in DOMAIN Profile : Profile[i].value \in Values /\ Profile[i].tweak \in Tweaks
      /\ \A i \in DOMAIN Opened : Opened[i].value \in Values /\ Opened[i].tweak \in Tweaks
  <2>1. ASSUME NEW s \in Seq(Settings), NEW i \in DOMAIN s PROVE s[i] \in Settings
    BY LenProperties
  <2>. QED BY <2>1, SessionAssumption DEF Settings
<1>. QED BY <1>1, <1>2, <1>3, <1>4, SessionAssumption DEF GoodInputs, AnyValue

\* Every variable has its type, and a process that holds the copy of a register
\* is in the middle of a ChangeValue, whoever dies or interferes.
THEOREM TypeCorrect == Spec => []TypeOK
<1>1. Init => TypeInv(AnyValue)
  BY TypeInit, AnyValueGood
<1>2. TypeInv(AnyValue) /\ [Next]_vars => TypeInv(AnyValue)'
  BY TypeStep, AnyValueGood
<1>3. ASSUME TypeInv(AnyValue) PROVE TypeOK
  <2>1. SafeCalls(AnyValue) \subseteq Calls
    BY DEF SafeCalls
  <2>2. Seq(SafeCalls(AnyValue)) \subseteq Seq(Calls)
    BY <2>1, SeqDef
  <2>3. job \in [Procs -> Seq(Calls)]
    BY <1>3, <2>2 DEF TypeInv, JobType
  <2>4. reg \in Machine /\ config \in Configs /\ HoldType /\ HistoryType
    BY <1>3 DEF TypeInv, ConfigType
  <2>5. pvt \in [Procs -> [Tweaks -> Values]] /\ temp \in [Procs -> [Tweaks -> Values]]
    BY <1>3 DEF TypeInv, TreeType
  <2>6. \A p \in Procs : hold[p] # None => job[p] # <<>> /\ Todo(p).op = "change"
    BY <2>4 DEF HoldType, Todo
  <2>7. phase \in [Procs -> Phases] /\ hold \in [Procs -> {None} \cup Values]
    BY <2>4 DEF HoldType
  <2>8. /\ edits \in 0..MaxEdits
        /\ done \in [Procs -> {"none"} \cup Busy]
        /\ clean \in [Procs -> BOOLEAN] /\ fresh \in [Procs -> BOOLEAN]
        /\ edited \in [Procs -> SUBSET Tweaks]
        /\ set \in [Procs -> [Tweaks -> {None} \cup Values]]
    BY <2>4 DEF HistoryType
  <2>. QED BY <2>3, <2>4, <2>5, <2>6, <2>7, <2>8, Zenon DEF TypeOK
<1>. QED BY <1>1, <1>2, <1>3, PTL DEF Spec

-----------------------------------------------------------------------------
(* Fields stay legal *)

Fitting == [t \in Tweaks |-> {v \in Values : Fits(t, v)}]

\* The descriptions, the file, the profiles and the user respect the fields,
\* also where two tweaks share a name, and nobody else puts an unknown pattern
\* into a register.
LegalInputs ==
  /\ \A t \in Tweaks : Supported(t)
  /\ \A t \in Tweaks : \A v \in Choices[t] : Fits(t, v)
  /\ \A c \in InitialConfigs : \A t \in Tweaks : c[t] # None => Fits(t, c[t])
  /\ \A i \in DOMAIN Profile : Fits(Profile[i].tweak, Profile[i].value)
  /\ \A i \in DOMAIN Opened : Fits(Opened[i].tweak, Opened[i].value)
  /\ \A t, u \in Tweaks : ConfigName[t] = ConfigName[u] =>
       \A v \in Values : Fits(t, v) <=> Fits(u, v)
  /\ \A m \in BootStates \cup KernelStates : \A k \in Registers : LegalHere(k, m[k])

\* The settings of a profile.
LEMMA SettingsType ==
  ASSUME NEW settings \in Seq(Settings), NEW i \in DOMAIN settings
  PROVE  settings[i].tweak \in Tweaks /\ settings[i].value \in Values
         /\ settings[i].unless \in SUBSET Values
<1>1. settings[i] \in Settings
  BY LenProperties
<1>. QED BY <1>1 DEF Settings

LEMMA FittingGood ==
  ASSUME LegalInputs
  PROVE  GoodInputs(Fitting)
<1>1. Fitting \in [Tweaks -> SUBSET Values]
  BY DEF Fitting
<1>2. \A t \in Tweaks : {} \in Fitting[t] /\ \A r \in Values : Shown(t, r) \in Fitting[t]
  BY ShownFits DEF Fitting, Fits, Values, LegalInputs
<1>3. \A t \in Tweaks : Widget[t] = "checkbox" => One \in Fitting[t]
  BY BackendAssumption DEF Fitting, Fits
<1>4. \A t \in Tweaks : Choices[t] \subseteq Fitting[t]
  BY SessionAssumption DEF Fitting, LegalInputs
<1>5. \A c \in InitialConfigs : \A t \in Tweaks : c[t] # None => c[t] \in Fitting[t]
  BY SessionAssumption DEF Fitting, LegalInputs, Configs
<1>6. /\ \A i \in DOMAIN Profile : Profile[i].value \in Fitting[Profile[i].tweak]
      /\ \A i \in DOMAIN Opened : Opened[i].value \in Fitting[Opened[i].tweak]
  BY SettingsType, SessionAssumption DEF Fitting, LegalInputs
<1>7. \A t, u \in Tweaks : ConfigName[t] = ConfigName[u] => Fitting[t] = Fitting[u]
  BY DEF Fitting, LegalInputs
<1>. QED BY <1>1, <1>2, <1>3, <1>4, <1>5, <1>6, <1>7 DEF GoodInputs

\* What ChangeValue has read is a register with legal fields, however old.
LegalInv ==
  /\ TypeInv(Fitting)
  /\ \A k \in Registers : LegalHere(k, reg[k])
  /\ \A p \in Procs : hold[p] # None => LegalHere(Register[Head(job[p]).tweak], hold[p])

LEMMA LegalInit ==
  ASSUME LegalInputs, Init
  PROVE  LegalInv
BY FittingGood, TypeInit DEF LegalInv, LegalInputs, Init

\* A step that writes no register, and in which only ChangeValue takes a hold.
LEMMA LegalKept ==
  ASSUME LegalInv, TypeInv(Fitting)', UNCHANGED reg, NEW p \in Procs,
         \A q \in Procs : q # p => UNCHANGED <<hold[q], job[q]>>,
         \/ hold'[p] = None
         \/ UNCHANGED job /\ hold'[p] = reg[Here(p)] /\ Here(p) \in Registers
  PROVE  LegalInv'
<1>1. \A q \in Procs : q # p /\ hold'[q] # None => LegalHere(Register[Head(job'[q]).tweak], hold'[q])
  BY DEF LegalInv
<1>2. hold'[p] # None => LegalHere(Register[Head(job'[p]).tweak], hold'[p])
  BY DEF LegalInv, Here, Todo
<1>. QED BY <1>1, <1>2 DEF LegalInv

LEMMA LegalWrite ==
  ASSUME LegalInputs, LegalInv, TypeInv(Fitting)', NEW p \in Procs, WriteBack(p)
  PROVE  LegalInv'
<1>. DEFINE t == Todo(p).tweak
            new == NewValue(t, hold[p], Wanted(p))
<1>0. TypeInv(Fitting)
  BY DEF LegalInv
<1>1. hold[p] # None /\ hold[p] \in Values /\ job[p] # <<>> /\ Todo(p).op = "change"
      /\ LegalHere(Register[t], hold[p])
  BY <1>0 DEF WriteBack, LegalInv, TypeInv, HoldType, Todo
<1>2. t \in Tweaks /\ Register[t] \in Registers
  BY <1>0, <1>1, JobFacts, BackendAssumption
<1>3. Wanted(p) \in Values /\ Fits(t, Wanted(p)) /\ Supported(t)
  BY <1>0, <1>1, <1>2, WantedGood DEF Fitting, LegalInputs
<1>4. LegalHere(Register[t], new)
  BY <1>1, <1>2, <1>3, NewValueLegal
<1>5. reg' = [reg EXCEPT ![Register[t]] = new] \/ reg' = reg
  BY DEF WriteBack, Here
<1>6. \A k \in Registers : LegalHere(k, reg'[k])
  <2>. HIDE DEF new, t
  <2>. QED BY <1>0, <1>2, <1>4, <1>5 DEF LegalInv, TypeInv, Machine
<1>7. hold'[p] = None /\ \A q \in Procs : q # p => job'[q] = job[q] /\ hold'[q] = hold[q]
  BY <1>0, <1>1, DropType DEF WriteBack
<1>. QED BY <1>6, <1>7 DEF LegalInv

LEMMA LegalStep ==
  ASSUME LegalInputs, LegalInv, [Next]_vars
  PROVE  LegalInv'
<1>0. TypeInv(Fitting) /\ TypeInv(Fitting)'
  BY FittingGood, TypeStep DEF LegalInv
<1>1. CASE UNCHANGED vars
  BY <1>0, <1>1 DEF vars, LegalInv
<1>2. CASE Elsewhere
  BY <1>0, <1>2 DEF Elsewhere, LegalInv, LegalInputs
<1>3. ASSUME NEW p \in Procs,
             \/ Start(p) \/ Reload(p) \/ Connect(p) \/ Apply(p) \/ Save(p) \/ Refresh(p)
             \/ OpenProfile(p)
      PROVE  LegalInv'
  <2>1. phase[p] \notin Busy /\ UNCHANGED <<reg, hold>>
    BY <1>3 DEF Start, Reload, Connect, Apply, Save, Refresh, OpenProfile, Begin, Busy
  <2>2. hold[p] = None
    BY <1>0, <2>1 DEF TypeInv, HoldType
  <2>3. \E calls : job' = [job EXCEPT ![p] = calls]
    BY <1>3 DEF Start, Reload, Connect, Apply, Save, Refresh, OpenProfile, Begin
  <2>4. \A q \in Procs : q # p => UNCHANGED <<hold[q], job[q]>>
    BY <1>0, <2>1, <2>3 DEF TypeInv, JobType
  <2>. QED BY <1>0, <2>1, <2>2, <2>4, LegalKept
<1>4. ASSUME NEW p \in Procs, Edit(p) \/ Finish(p) \/ Quit(p)
      PROVE  LegalInv'
  BY <1>0, <1>4 DEF LegalInv, Edit, Finish, Quit
<1>5. ASSUME NEW p \in Procs, Die(p)
      PROVE  LegalInv'
  BY <1>0, <1>5, LegalKept DEF Die, TypeInv, HoldType, JobType
<1>6. ASSUME NEW p \in Procs,
             GetValueRaw(p) \/ GetValue(p) \/ Skip(p) \/ ChangeValue(p) \/ Truncate(p) \/ Put(p)
      PROVE  LegalInv'
  <2>1. job[p] # <<>> /\ UNCHANGED <<reg, phase>>
    BY <1>6 DEF GetValueRaw, GetValue, Skip, ChangeValue, Truncate, Put
  <2>2. Here(p) \in Registers
    BY <1>0, <2>1, JobFacts, BackendAssumption DEF Here
  <2>3. CASE Drop(p) /\ UNCHANGED hold /\ (Todo(p).op # "change" \/ hold[p] = None)
    BY <1>0, <2>1, <2>2, <2>3, DropType, LegalKept
  <2>4. CASE hold' = [hold EXCEPT ![p] = reg[Here(p)]] /\ UNCHANGED job
    BY <1>0, <2>1, <2>2, <2>4, LegalKept DEF TypeInv, HoldType
  <2>. QED BY <1>6, <2>3, <2>4 DEF GetValueRaw, GetValue, Skip, ChangeValue, Truncate, Put
<1>7. ASSUME NEW p \in Procs, WriteBack(p)
      PROVE  LegalInv'
  BY <1>0, <1>7, LegalWrite
<1>. QED BY <1>1, <1>2, <1>3, <1>4, <1>5, <1>6, <1>7, Zenon DEF Next, Step

\* For any number of daemons and local GUIs, however their reads and writes of
\* a register overlap and whatever updates are lost: the field of a switch
\* holds one of the two patterns of its description at all times, if it did at
\* boot and the values put in respect the fields.
THEOREM FieldsStayLegalAlways ==
  ASSUME LegalInputs
  PROVE  Spec => []FieldsStayLegal
<1>1. Init => LegalInv
  BY LegalInit
<1>2. LegalInv /\ [Next]_vars => LegalInv'
  BY LegalStep
<1>3. LegalInv => FieldsStayLegal
  BY BackendAssumption DEF LegalInv, LegalHere, FieldsStayLegal
<1>. QED BY <1>1, <1>2, <1>3, PTL DEF Spec

-----------------------------------------------------------------------------
(* What an operation that nobody interferes with achieves *)

\* The values that t can show, which are those a widget has if its range is
\* that of the field.
Exact(t) ==
  {v \in Values : IF Widget[t] = "checkbox" THEN v \in {{}, One} ELSE v \subseteq Mask[t]}

ExactValues == [t \in Tweaks |-> Exact(t)]

\* No tweak is a radio button (no shipped description gets one into the tree);
\* the file, the profiles and the user ask for values that a tweak can show;
\* names are unique (powertweak.h: "Unique identifier").  The registers may
\* hold anything, at boot and afterwards.
ExactInputs ==
  /\ \A t \in Tweaks : Supported(t) /\ Widget[t] # "radio"
  /\ \A t \in Tweaks : Choices[t] \subseteq Exact(t)
  /\ \A c \in InitialConfigs : \A t \in Tweaks : c[t] # None => c[t] \in Exact(t)
  /\ \A i \in DOMAIN Profile : Profile[i].value \in Exact(Profile[i].tweak)
  /\ \A i \in DOMAIN Opened : Opened[i].value \in Exact(Opened[i].tweak)
  /\ UniqueNames

\* What the system shows of t.
InEffect(t) == Shown(t, reg[Register[t]])

\* The calls, a sequence, have one that does op to t.
Asks(calls, op, t) == \E i \in DOMAIN calls : calls[i].op = op /\ calls[i].tweak = t

\* They do nothing but ops.
Made(calls, ops) == \A i \in DOMAIN calls : calls[i].op \in ops

\* None that does op is followed by one that does later.
NoneAfter(calls, op, later) ==
  \A i, k \in DOMAIN calls : i < k /\ calls[i].op = op => calls[k].op # later

\* Call m is the last one that changes t.
LastOn(calls, m, t) ==
  /\ calls[m].op = "change" /\ calls[m].tweak = t
  /\ \A n \in DOMAIN calls : n > m => ~(calls[n].op = "change" /\ calls[n].tweak = t)

\* When the job of p is done t shows one of the values A: its last change will
\* see to that, or the changes of t have been made.
Settles(p, t, A) ==
  IF Asks(job[p], "change", t)
  THEN \A m \in DOMAIN job[p] : LastOn(job[p], m, t) =>
         job[p][m].now /\ job[p][m].unless \cup {job[p][m].value} \subseteq A
  ELSE InEffect(t) \in A

\* Setting i is the last one of its tweak.
LastSetting(settings, i) ==
  \A k \in DOMAIN settings : settings[k].tweak = settings[i].tweak => k <= i

SettlesAll(p, settings) ==
  \A i \in DOMAIN settings : LastSetting(settings, i) =>
    Settles(p, settings[i].tweak, settings[i].unless \cup {settings[i].value})

\* No setting of the profiles is for t, and the file has a line for it.
FromFile(t) == (\A i \in DOMAIN Profile : Profile[i].tweak # t) /\ config[t] # None

\* The changes of a job carry the values of the widgets, and what has been
\* changed stores them.
Sends(p, now) ==
  /\ \A i \in DOMAIN job[p] : job[p][i].op = "change" =>
       /\ job[p][i].value = temp[p][job[p][i].tweak]
       /\ job[p][i].unless = {} /\ job[p][i].now = now
  /\ \A t \in Tweaks : Asks(job[p], "change", t) \/ pvt[p][t] = temp[p][t]

\* What ChangeValue holds is what the register has, unless somebody interfered.
HoldInv(p) ==
  hold[p] # None =>
    /\ Todo(p).now /\ Wanted(p) = pvt[p][Todo(p).tweak]
    /\ clean[p] => hold[p] = reg[Here(p)]

StartInv(p) ==
  /\ Made(job[p], {"raw", "skip", "change"})
  /\ clean[p] =>
       /\ \A t \in Tweaks : FromFile(t) => Settles(p, t, {config[t]})
       /\ SettlesAll(p, Profile)

ReadInv(p) ==
  /\ Made(job[p], {"raw", "get"}) /\ NoneAfter(job[p], "get", "raw")
  /\ clean[p] => \A t \in Tweaks :
       /\ Asks(job[p], "raw", t) \/ pvt[p][t] = InEffect(t)
       /\ Asks(job[p], "get", t) \/ temp[p][t] = InEffect(t)

\* The values that are read back are those that were sent.
ApplyInv(p) ==
  /\ Made(job[p], {"change", "get"}) /\ NoneAfter(job[p], "get", "change")
  /\ Sends(p, TRUE)
  /\ clean[p] => \A t \in Tweaks : Asks(job[p], "change", t) \/ InEffect(t) = temp[p][t]

SaveInv(p) ==
  /\ Made(job[p], {"change", "truncate", "put"})
  /\ Sends(p, FALSE)
  /\ NoneAfter(job[p], "truncate", "change")
  /\ NoneAfter(job[p], "put", "change") /\ NoneAfter(job[p], "put", "truncate")
  /\ (\E t \in Tweaks : Asks(job[p], "truncate", t)) => \A t \in Tweaks : Asks(job[p], "put", t)
  /\ clean[p] => \A t \in Tweaks : Asks(job[p], "put", t) \/ config[t] = temp[p][t]

OpenInv(p) == Made(job[p], {"change"}) /\ (clean[p] => SettlesAll(p, Opened))

WorkInv(p) ==
  /\ phase[p] = "starting" /\ p \in Daemons => StartInv(p)
  /\ phase[p] \in {"connecting", "refreshing"} => ReadInv(p)
  /\ phase[p] = "applying" => ApplyInv(p)
  /\ phase[p] = "saving" => SaveInv(p)
  /\ phase[p] = "opening" => OpenInv(p)

\* What the operation ph promises when it is over.
Promise(p, ph) ==
  /\ ph = "starting" /\ p \in Daemons =>
       /\ \A t \in Tweaks : FromFile(t) => InEffect(t) = config[t]
       /\ LastSettingsHold(Profile)
  /\ ph \in {"connecting", "refreshing", "applying"} =>
       \A t \in Tweaks : InEffect(t) = temp[p][t]
  /\ ph = "saving" => \A t \in Tweaks : config[t] = temp[p][t]
  /\ ph = "opening" => LastSettingsHold(Opened)

DoneInv(p) == Promise(p, done[p]) /\ (done[p] # "none" => phase[p] \notin Busy)

\* The tweaks that the user has not touched show the system as long as nobody
\* has interfered since they were read.
FreshInv(p) ==
  /\ fresh[p] => clean[p]
  /\ Opened = <<>> => phase[p] # "opening"
  /\ Opened = <<>> /\ p \in Daemons /\ phase[p] \in {"ui", "applying", "saving"} /\ fresh[p] =>
       \A t \in Tweaks \ edited[p] : temp[p][t] = InEffect(t)

ProcInv(p) == HoldInv(p) /\ WorkInv(p) /\ DoneInv(p) /\ FreshInv(p)

ContractInv == TypeInv(ExactValues) /\ \A p \in Procs : ProcInv(p)

-----------------------------------------------------------------------------
(* Values and registers *)

LEMMA ExactGood ==
  ASSUME ExactInputs
  PROVE  GoodInputs(ExactValues)
<1>0. {} \in Values /\ One \in Values
  BY BackendAssumption DEF Values
<1>1. ExactValues \in [Tweaks -> SUBSET Values]
  BY DEF ExactValues, Exact
<1>2. ASSUME NEW t \in Tweaks, NEW r \in Values
      PROVE  {} \in ExactValues[t] /\ Shown(t, r) \in ExactValues[t]
  <2>1. Field(t, r) \in Values /\ Field(t, r) \subseteq Mask[t]
    BY DEF Field, Values
  <2>2. Boolean(t) <=> Widget[t] = "checkbox"
    BY DEF Boolean, ExactInputs
  <2>. QED BY <1>0, <2>1, <2>2 DEF Shown, ExactValues, Exact
<1>3. {} \in Values /\ \A t \in Tweaks : {} \in ExactValues[t]
  BY <1>0 DEF ExactValues, Exact
<1>4. \A t \in Tweaks : Widget[t] = "checkbox" => One \in ExactValues[t]
  BY <1>0 DEF ExactValues, Exact
<1>5. \A t \in Tweaks : Choices[t] \subseteq ExactValues[t]
  BY DEF ExactValues, ExactInputs
<1>6. \A c \in InitialConfigs : \A t \in Tweaks : c[t] # None => c[t] \in ExactValues[t]
  BY DEF ExactValues, ExactInputs
<1>7. /\ \A i \in DOMAIN Profile : Profile[i].value \in ExactValues[Profile[i].tweak]
      /\ \A i \in DOMAIN Opened : Opened[i].value \in ExactValues[Opened[i].tweak]
  BY SettingsType, SessionAssumption DEF ExactValues, ExactInputs
<1>8. \A t, u \in Tweaks : ConfigName[t] = ConfigName[u] => ExactValues[t] = ExactValues[u]
  BY DEF ExactInputs, UniqueNames
<1>. QED BY <1>1, <1>2, <1>3, <1>4, <1>5, <1>6, <1>7, <1>8 DEF GoodInputs

\* A value that t can show is shown once it has been written.
LEMMA WriteShows ==
  ASSUME ExactInputs, NEW t \in Tweaks, NEW r \in Values, NEW v \in Exact(t)
  PROVE  Shown(t, NewValue(t, r, v)) = v
<1>1. /\ On[t] \subseteq Mask[t] /\ Off[t] \subseteq Mask[t] /\ On[t] # Off[t]
      /\ One # {} /\ Supported(t) /\ Widget[t] # "radio"
      /\ Backend[t] \in {"proc", "PCI", "elevator"}
      /\ Backend[t] = "elevator" => Widget[t] = "slider"
  BY DescriptionAssumption, BackendAssumption DEF ExactInputs
<1>2. CASE Widget[t] = "checkbox"
  <2>1. v \in {{}, One} /\ Boolean(t)
    BY <1>2 DEF Exact, Boolean
  <2>2. NewValue(t, r, v) = Switched(t, r, v = One)
    BY <1>1, <1>2, <2>1 DEF NewValue, ProcValue, PCIValue
  <2>3. Field(t, Switched(t, r, TRUE)) = On[t] /\ Field(t, Switched(t, r, FALSE)) = Off[t]
    BY <1>1 DEF Field, Switched
  <2>4. CASE v = One
    BY <2>1, <2>2, <2>3, <2>4 DEF Shown
  <2>5. CASE v = {}
    <3>1. NewValue(t, r, v) = Switched(t, r, FALSE)
      BY <1>1, <2>2, <2>5
    <3>. QED BY <1>1, <2>1, <2>3, <2>5, <3>1 DEF Shown
  <2>. QED BY <2>1, <2>4, <2>5
<1>3. CASE Widget[t] # "checkbox"
  <2>1. v \subseteq Mask[t] /\ ~Boolean(t)
    BY <1>1, <1>3 DEF Exact, Boolean
  <2>2. NewValue(t, r, v) = (r \ Mask[t]) \cup v
    <3>1. Backend[t] = "PCI" => Widget[t] = "slider"
      BY <1>1, <1>3 DEF Supported
    <3>2. v \cap Mask[t] = v
      BY <2>1
    <3>. QED BY <1>1, <1>3, <3>1, <3>2 DEF NewValue, ProcValue, PCIValue, ElevatorValue
  <2>3. Shown(t, NewValue(t, r, v)) = ((r \ Mask[t]) \cup v) \cap Mask[t]
    BY <2>1, <2>2 DEF Shown, Field
  <2>. QED BY <2>1, <2>3
<1>. QED BY <1>2, <1>3

\* Writing what a register shows of t leaves it as it is, if it shows a pattern
\* that t knows.
LEMMA WriteShownKeeps ==
  ASSUME ExactInputs, NEW t \in Tweaks, NEW r \in Values, Legal(t, r)
  PROVE  NewValue(t, r, Shown(t, r)) = r
<1>1. /\ One # {} /\ Supported(t) /\ Widget[t] # "radio" /\ On[t] # Off[t]
      /\ Backend[t] \in {"proc", "PCI", "elevator"}
      /\ Backend[t] = "elevator" => Widget[t] = "slider"
  BY DescriptionAssumption, BackendAssumption DEF ExactInputs
<1>2. (r \ Mask[t]) \cup Field(t, r) = r /\ Field(t, r) \cap Mask[t] = Field(t, r)
  BY DEF Field
<1>3. CASE Widget[t] = "checkbox"
  <2>1. Field(t, r) \in {On[t], Off[t]} /\ Boolean(t)
    BY <1>3 DEF Legal, Boolean
  <2>2. CASE Field(t, r) = On[t]
    <3>1. Shown(t, r) = One
      BY <2>1, <2>2 DEF Shown
    <3>2. NewValue(t, r, Shown(t, r)) = (r \ Mask[t]) \cup On[t]
      BY <1>1, <1>3, <3>1 DEF NewValue, ProcValue, PCIValue, Switched
    <3>. QED BY <1>2, <2>2, <3>2
  <2>3. CASE Field(t, r) = Off[t]
    <3>1. Shown(t, r) = {}
      BY <1>1, <2>1, <2>3 DEF Shown
    <3>2. NewValue(t, r, Shown(t, r)) = (r \ Mask[t]) \cup Off[t]
      BY <1>1, <1>3, <3>1 DEF NewValue, ProcValue, PCIValue, Switched
    <3>. QED BY <1>2, <2>3, <3>2
  <2>. QED BY <2>1, <2>2, <2>3
<1>4. CASE Widget[t] # "checkbox"
  <2>1. Shown(t, r) = Field(t, r)
    BY <1>1, <1>4 DEF Shown, Boolean
  <2>2. Backend[t] = "PCI" => Widget[t] = "slider"
    BY <1>1, <1>4 DEF Supported
  <2>3. NewValue(t, r, Shown(t, r)) = (r \ Mask[t]) \cup Field(t, r)
    BY <1>1, <1>2, <1>4, <2>1, <2>2 DEF NewValue, ProcValue, PCIValue, ElevatorValue
  <2>. QED BY <1>2, <2>3
<1>. QED BY <1>3, <1>4

\* The write of ChangeValue, if nobody has changed the register since it was
\* read: the tweak shows the value, all others what they did.
LEMMA WriteEffect ==
  ASSUME ExactInputs, TypeInv(ExactValues), NEW p \in Procs, WriteBack(p),
         hold[p] = reg[Here(p)]
  PROVE  \A u \in Tweaks : InEffect(u)' = IF u = Todo(p).tweak THEN Wanted(p) ELSE InEffect(u)
<1>. DEFINE t == Todo(p).tweak
            r == reg[Register[t]]
            new == NewValue(t, r, Wanted(p))
<1>1. hold[p] # None /\ hold[p] = r /\ job[p] # <<>> /\ Todo(p).op = "change"
  BY DEF WriteBack, TypeInv, HoldType, Todo, Here
<1>2. t \in Tweaks /\ Register[t] \in Registers /\ Wanted(p) \in Values /\ Wanted(p) \in Exact(t)
  BY <1>1, JobFacts, WantedGood, BackendAssumption DEF ExactValues
<1>3. r \in Values
  BY <1>2 DEF TypeInv, Machine
<1>4. reg' = [reg EXCEPT ![Register[t]] = new]
  <2>1. CASE Backend[t] = "PCI" /\ new = r
    <3>1. reg' = reg
      BY <1>1, <2>1 DEF WriteBack
    <3>. HIDE DEF t
    <3>. QED BY <1>2, <2>1, <3>1 DEF TypeInv, Machine
  <2>2. CASE ~(Backend[t] = "PCI" /\ new = r)
    BY <1>1, <2>2 DEF WriteBack, Here
  <2>. QED BY <2>1, <2>2
<1>5. \A k \in Registers : reg'[k] = IF k = Register[t] THEN new ELSE reg[k]
  <2>. HIDE DEF t, new
  <2>. QED BY <1>2, <1>4 DEF TypeInv, Machine
<1>6. Supported(t) /\ Fits(t, Wanted(p))
  BY <1>2 DEF ExactInputs, Exact, Fits
<1>7. ASSUME NEW u \in Tweaks
      PROVE  InEffect(u)' = IF u = t THEN Wanted(p) ELSE InEffect(u)
  <2>1. Register[u] \in Registers
    BY BackendAssumption
  <2>2. CASE u = t
    <3>1. reg'[Register[u]] = new
      BY <1>5, <2>1, <2>2
    <3>. QED BY <1>2, <1>3, <2>2, <3>1, WriteShows DEF InEffect
  <2>3. CASE u # t /\ Register[u] = Register[t]
    <3>1. reg'[Register[u]] = new /\ reg[Register[u]] = r
      BY <1>5, <2>1, <2>3
    <3>2. Field(u, new) = Field(u, r)
      BY <1>2, <1>3, <1>6, <2>3, NeighboursKept
    <3>3. Shown(u, new) = Shown(u, r)
      BY <3>2 DEF Shown
    <3>. QED BY <2>3, <3>1, <3>3 DEF InEffect
  <2>4. CASE Register[u] # Register[t]
    BY <1>5, <2>1, <2>4 DEF InEffect
  <2>. QED BY <2>2, <2>3, <2>4
<1>. QED BY <1>7

-----------------------------------------------------------------------------
(* Sequences of calls *)

LEMMA TailIndex ==
  ASSUME NEW S, NEW s \in Seq(S), s # <<>>
  PROVE  /\ Head(s) = s[1] /\ 1 \in DOMAIN s /\ DOMAIN s \subseteq Nat
         /\ \A i \in DOMAIN Tail(s) : i \in Nat /\ i + 1 \in DOMAIN s /\ Tail(s)[i] = s[i + 1]
         /\ \A i \in DOMAIN s : i = 1 \/ (i - 1 \in DOMAIN Tail(s) /\ s[i] = Tail(s)[i - 1])
<1>1. Len(s) \in Nat \ {0} /\ DOMAIN s = 1..Len(s)
  BY EmptySeq, LenProperties
<1>2. DOMAIN Tail(s) = 1..(Len(s) - 1) /\ \A i \in 1..(Len(s) - 1) : Tail(s)[i] = s[i + 1]
  BY HeadTailProperties, LenProperties
<1>3. Head(s) = s[1]
  OBVIOUS
<1>. QED BY <1>1, <1>2, <1>3

LEMMA TailAsks ==
  ASSUME NEW S, NEW s \in Seq(S), s # <<>>, NEW op, NEW t
  PROVE  Asks(s, op, t) <=> (Head(s).op = op /\ Head(s).tweak = t) \/ Asks(Tail(s), op, t)
<1>1. Asks(Tail(s), op, t) => Asks(s, op, t)
  BY TailIndex DEF Asks
<1>2. Head(s).op = op /\ Head(s).tweak = t => Asks(s, op, t)
  BY TailIndex DEF Asks
<1>3. ASSUME NEW i \in DOMAIN s, s[i].op = op, s[i].tweak = t
      PROVE  (Head(s).op = op /\ Head(s).tweak = t) \/ Asks(Tail(s), op, t)
  <2>1. Head(s) = s[1] /\ (i = 1 \/ (i - 1 \in DOMAIN Tail(s) /\ s[i] = Tail(s)[i - 1]))
    BY TailIndex
  <2>2. CASE i = 1
    BY <1>3, <2>1, <2>2
  <2>3. CASE i - 1 \in DOMAIN Tail(s) /\ s[i] = Tail(s)[i - 1]
    BY <1>3, <2>3 DEF Asks
  <2>. QED BY <2>1, <2>2, <2>3
<1>. QED BY <1>1, <1>2, <1>3 DEF Asks

LEMMA TailMade ==
  ASSUME NEW S, NEW s \in Seq(S), s # <<>>, NEW ops, Made(s, ops)
  PROVE  Head(s).op \in ops /\ Made(Tail(s), ops)
BY TailIndex DEF Made

LEMMA TailNoneAfter ==
  ASSUME NEW S, NEW s \in Seq(S), s # <<>>, NEW op, NEW later, NoneAfter(s, op, later)
  PROVE  /\ NoneAfter(Tail(s), op, later)
         /\ Head(s).op = op => \A t : ~Asks(Tail(s), later, t)
<1>1. ASSUME NEW i \in DOMAIN Tail(s), NEW k \in DOMAIN Tail(s), i < k, Tail(s)[i].op = op
      PROVE  Tail(s)[k].op # later
  <2>1. i + 1 \in DOMAIN s /\ k + 1 \in DOMAIN s /\ i + 1 < k + 1
        /\ Tail(s)[i] = s[i + 1] /\ Tail(s)[k] = s[k + 1]
    BY <1>1, TailIndex
  <2>. QED BY <1>1, <2>1 DEF NoneAfter
<1>2. ASSUME Head(s).op = op, NEW k \in DOMAIN Tail(s)
      PROVE  Tail(s)[k].op # later
  <2>1. k + 1 \in DOMAIN s /\ 1 \in DOMAIN s /\ 1 < k + 1 /\ Tail(s)[k] = s[k + 1] /\ Head(s) = s[1]
    <3>1. k \in DOMAIN Tail(s) => k > 0
      BY HeadTailProperties, LenProperties
    <3>. QED BY <3>1, TailIndex
  <2>. QED BY <1>2, <2>1 DEF NoneAfter
<1>3. NoneAfter(Tail(s), op, later)
  BY <1>1 DEF NoneAfter
<1>. QED BY <1>2, <1>3 DEF Asks

\* The last change among the remaining calls was the last one before.
LEMMA TailLast ==
  ASSUME NEW S, NEW s \in Seq(S), s # <<>>, NEW t
  PROVE  /\ \A m \in DOMAIN Tail(s) : LastOn(Tail(s), m, t) => LastOn(s, m + 1, t)
         /\ Head(s).op = "change" /\ Head(s).tweak = t /\ ~Asks(Tail(s), "change", t)
              => LastOn(s, 1, t)
<1>1. ASSUME NEW m \in DOMAIN Tail(s), LastOn(Tail(s), m, t)
      PROVE  LastOn(s, m + 1, t)
  <2>1. m \in Nat /\ m + 1 \in DOMAIN s /\ Tail(s)[m] = s[m + 1]
    BY TailIndex
  <2>2. ASSUME NEW n \in DOMAIN s, n > m + 1
        PROVE  ~(s[n].op = "change" /\ s[n].tweak = t)
    <3>1. n - 1 \in DOMAIN Tail(s) /\ s[n] = Tail(s)[n - 1] /\ n \in Nat
      BY <2>1, <2>2, TailIndex
    <3>2. n - 1 > m
      BY <2>1, <2>2, <3>1
    <3>. QED BY <1>1, <3>1, <3>2 DEF LastOn
  <2>. QED BY <1>1, <2>1, <2>2 DEF LastOn
<1>2. ASSUME Head(s).op = "change", Head(s).tweak = t, ~Asks(Tail(s), "change", t)
      PROVE  LastOn(s, 1, t)
  <2>1. ASSUME NEW n \in DOMAIN s, n > 1
        PROVE  ~(s[n].op = "change" /\ s[n].tweak = t)
    <3>1. n - 1 \in DOMAIN Tail(s) /\ s[n] = Tail(s)[n - 1]
      BY <2>1, TailIndex
    <3>. QED BY <1>2, <3>1 DEF Asks
  <2>. QED BY <1>2, <2>1, TailIndex DEF LastOn
<1>. QED BY <1>1, <1>2

\* Calls one after the other.
LEMMA ConcatIndex ==
  ASSUME NEW S, NEW s \in Seq(S), NEW u \in Seq(S)
  PROVE  /\ s \o u \in Seq(S) /\ Len(s) \in Nat
         /\ \A i \in DOMAIN s : i \in DOMAIN (s \o u) /\ (s \o u)[i] = s[i] /\ i \in Nat /\ i <= Len(s)
         /\ \A i \in DOMAIN u : i \in Nat /\ i + Len(s) \in DOMAIN (s \o u)
                                /\ (s \o u)[i + Len(s)] = u[i] /\ i > 0
         /\ \A i \in DOMAIN (s \o u) : i \in Nat /\
              \/ i \in DOMAIN s
              \/ i > Len(s) /\ i - Len(s) \in DOMAIN u /\ (s \o u)[i] = u[i - Len(s)]
<1>1. /\ Len(s) \in Nat /\ DOMAIN s = 1..Len(s) /\ Len(u) \in Nat /\ DOMAIN u = 1..Len(u)
  BY LenProperties
<1>2. /\ s \o u \in Seq(S) /\ DOMAIN (s \o u) = 1..(Len(s) + Len(u))
      /\ \A i \in 1..(Len(s) + Len(u)) : (s \o u)[i] = IF i <= Len(s) THEN s[i] ELSE u[i - Len(s)]
  BY ConcatProperties, LenProperties
<1>. QED BY <1>1, <1>2

LEMMA ConcatAsks ==
  ASSUME NEW S, NEW s \in Seq(S), NEW u \in Seq(S), NEW op, NEW t
  PROVE  Asks(s \o u, op, t) <=> Asks(s, op, t) \/ Asks(u, op, t)
<1>1. Asks(s, op, t) => Asks(s \o u, op, t)
  BY ConcatIndex DEF Asks
<1>2. Asks(u, op, t) => Asks(s \o u, op, t)
  BY ConcatIndex DEF Asks
<1>3. Asks(s \o u, op, t) => Asks(s, op, t) \/ Asks(u, op, t)
  BY ConcatIndex DEF Asks
<1>. QED BY <1>1, <1>2, <1>3

LEMMA ConcatMade ==
  ASSUME NEW S, NEW s \in Seq(S), NEW u \in Seq(S), NEW ops, Made(s, ops), Made(u, ops)
  PROVE  Made(s \o u, ops)
BY ConcatIndex DEF Made

LEMMA ConcatNoneAfter ==
  ASSUME NEW S, NEW s \in Seq(S), NEW u \in Seq(S), NEW op, NEW later,
         NoneAfter(u, op, later), NEW ops, Made(s, ops), op \notin ops
  PROVE  NoneAfter(s \o u, op, later)
<1>. SUFFICES ASSUME NEW i \in DOMAIN (s \o u), NEW k \in DOMAIN (s \o u), i < k, (s \o u)[i].op = op
              PROVE  (s \o u)[k].op # later
  BY DEF NoneAfter
<1>1. i \notin DOMAIN s
  BY ConcatIndex DEF Made
<1>2. /\ i \in Nat /\ k \in Nat /\ Len(s) \in Nat
      /\ i > Len(s) /\ i - Len(s) \in DOMAIN u /\ (s \o u)[i] = u[i - Len(s)]
  BY <1>1, ConcatIndex
<1>3. k - Len(s) \in DOMAIN u /\ (s \o u)[k] = u[k - Len(s)]
  BY <1>2, ConcatIndex
<1>4. i - Len(s) < k - Len(s)
  BY <1>2
<1>. QED BY <1>2, <1>3, <1>4 DEF NoneAfter

\* What does not do op, or not later.
LEMMA MadeNoneAfter ==
  ASSUME NEW s, NEW ops, Made(s, ops), NEW op, NEW later, op \notin ops \/ later \notin ops
  PROVE  NoneAfter(s, op, later)
BY DEF Made, NoneAfter

\* The last change is in the second part if that changes the tweak, otherwise it
\* is the last one of the first part.
LEMMA ConcatLast ==
  ASSUME NEW S, NEW s \in Seq(S), NEW u \in Seq(S), NEW t, NEW m \in DOMAIN (s \o u),
         LastOn(s \o u, m, t)
  PROVE  IF Asks(u, "change", t)
         THEN m - Len(s) \in DOMAIN u /\ LastOn(u, m - Len(s), t) /\ (s \o u)[m] = u[m - Len(s)]
         ELSE m \in DOMAIN s /\ LastOn(s, m, t) /\ (s \o u)[m] = s[m]
<1>0. \A i \in DOMAIN u : i \in Nat /\ i + Len(s) \in DOMAIN (s \o u)
                             /\ (s \o u)[i + Len(s)] = u[i] /\ i > 0
  BY ConcatIndex, Zenon
<1>1. m \in Nat /\ Len(s) \in Nat /\ (s \o u)[m].op = "change" /\ (s \o u)[m].tweak = t
  BY ConcatIndex DEF LastOn
<1>2. CASE Asks(u, "change", t)
  <2>1. PICK i \in DOMAIN u : u[i].op = "change" /\ u[i].tweak = t
    BY <1>2 DEF Asks
  <2>2. i \in Nat /\ i + Len(s) \in DOMAIN (s \o u) /\ (s \o u)[i + Len(s)] = u[i] /\ i > 0
    BY <1>0, Zenon
  <2>3. m >= i + Len(s)
    BY <1>1, <2>1, <2>2 DEF LastOn
  <2>4. m \notin DOMAIN s
    BY <1>1, <2>2, <2>3, ConcatIndex
  <2>5. m - Len(s) \in DOMAIN u /\ (s \o u)[m] = u[m - Len(s)]
    BY <2>4, ConcatIndex
  <2>6. ASSUME NEW n \in DOMAIN u, n > m - Len(s)
        PROVE  ~(u[n].op = "change" /\ u[n].tweak = t)
    <3>1. n \in Nat /\ n + Len(s) \in DOMAIN (s \o u) /\ (s \o u)[n + Len(s)] = u[n]
      BY <1>0, Zenon
    <3>2. n + Len(s) > m
      BY <1>1, <2>6, <3>1
    <3>. QED BY <3>1, <3>2 DEF LastOn
  <2>. QED BY <1>1, <1>2, <2>5, <2>6 DEF LastOn
<1>3. CASE ~Asks(u, "change", t)
  <2>1. m \in DOMAIN s /\ (s \o u)[m] = s[m]
    <3>1. \A i \in DOMAIN u : ~(u[i].op = "change" /\ u[i].tweak = t)
      BY <1>3 DEF Asks
    <3>. QED BY <1>1, <3>1, ConcatIndex
  <2>2. ASSUME NEW n \in DOMAIN s, n > m
        PROVE  ~(s[n].op = "change" /\ s[n].tweak = t)
    <3>1. n \in DOMAIN (s \o u) /\ (s \o u)[n] = s[n]
      BY ConcatIndex
    <3>. QED BY <2>2, <3>1 DEF LastOn
  <2>. QED BY <1>1, <1>3, <2>1, <2>2 DEF LastOn
<1>. QED BY <1>2, <1>3

-----------------------------------------------------------------------------
(* The processes that do not take the step *)

Same(q) == UNCHANGED <<phase[q], job[q], hold[q], pvt[q], temp[q], edited[q]>>

\* Nothing that q relies on has changed, or nothing is claimed of q any more.
Unharmed(q) ==
  \/ UNCHANGED <<reg, config, clean[q], fresh[q], done[q]>>
  \/ ~clean'[q] /\ ~fresh'[q] /\ done'[q] = "none"

LEMMA PromiseNone ==
  ASSUME NEW p \in Procs
  PROVE  Promise(p, "none")
BY DEF Promise

LEMMA BystanderKept ==
  ASSUME NEW q \in Procs, ProcInv(q), Same(q), Unharmed(q)
  PROVE  ProcInv(q)'
<1>1. CASE UNCHANGED <<reg, config, clean[q], fresh[q], done[q]>>
  <2>1. \A t : InEffect(t)' = InEffect(t)
    BY <1>1 DEF InEffect
  <2>2. \A t, A : Settles(q, t, A)' <=> Settles(q, t, A)
    BY <2>1 DEF Settles, Same
  <2>3. \A s : SettlesAll(q, s)' <=> SettlesAll(q, s)
    BY <2>2 DEF SettlesAll
  <2>4. \A t : FromFile(t)' <=> FromFile(t)
    BY <1>1 DEF FromFile
  <2>5. \A s : LastSettingsHold(s)' <=> LastSettingsHold(s)
    BY <1>1 DEF LastSettingsHold
  <2>6. HoldInv(q)'
    BY <1>1 DEF ProcInv, HoldInv, Same, Todo, Wanted, Here
  <2>7. WorkInv(q)'
    <3>1. StartInv(q) => StartInv(q)'
      BY <1>1, <2>2, <2>3, <2>4 DEF StartInv, Same
    <3>2. ReadInv(q) => ReadInv(q)'
      BY <1>1, <2>1 DEF ReadInv, Same
    <3>3. \A now : Sends(q, now) => Sends(q, now)'
      BY DEF Sends, Same
    <3>4. ApplyInv(q) => ApplyInv(q)'
      BY <1>1, <2>1, <3>3 DEF ApplyInv, Same
    <3>5. SaveInv(q) => SaveInv(q)'
      BY <1>1, <3>3 DEF SaveInv, Same
    <3>6. OpenInv(q) => OpenInv(q)'
      BY <1>1, <2>3 DEF OpenInv, Same
    <3>. QED BY <3>1, <3>2, <3>4, <3>5, <3>6 DEF ProcInv, WorkInv, Same
  <2>8. DoneInv(q)'
    <3>1. Promise(q, done[q])' <=> Promise(q, done[q])
      BY <1>1, <2>1, <2>4, <2>5 DEF Promise, Same
    <3>. QED BY <1>1, <3>1 DEF ProcInv, DoneInv, Same
  <2>9. FreshInv(q)'
    BY <1>1, <2>1 DEF ProcInv, FreshInv, Same
  <2>. QED BY <2>6, <2>7, <2>8, <2>9 DEF ProcInv
<1>2. CASE ~clean'[q] /\ ~fresh'[q] /\ done'[q] = "none"
  <2>1. HoldInv(q)'
    BY <1>2 DEF ProcInv, HoldInv, Same, Todo, Wanted
  <2>2. WorkInv(q)'
    <3>1. StartInv(q) => StartInv(q)'
      BY <1>2 DEF StartInv, Same
    <3>2. ReadInv(q) => ReadInv(q)'
      BY <1>2 DEF ReadInv, Same
    <3>3. \A now : Sends(q, now) => Sends(q, now)'
      BY DEF Sends, Same
    <3>4. ApplyInv(q) => ApplyInv(q)'
      BY <1>2, <3>3 DEF ApplyInv, Same
    <3>5. SaveInv(q) => SaveInv(q)'
      BY <1>2, <3>3 DEF SaveInv, Same
    <3>6. OpenInv(q) => OpenInv(q)'
      BY <1>2 DEF OpenInv, Same
    <3>. QED BY <3>1, <3>2, <3>4, <3>5, <3>6 DEF ProcInv, WorkInv, Same
  <2>3. DoneInv(q)'
    BY <1>2 DEF DoneInv, Promise
  <2>4. FreshInv(q)'
    BY <1>2 DEF ProcInv, FreshInv, Same
  <2>. QED BY <2>1, <2>2, <2>3, <2>4 DEF ProcInv
<1>. QED BY <1>1, <1>2 DEF Unharmed

-----------------------------------------------------------------------------
(* The calls of a job *)

\* Somebody else's write.
LEMMA InterfereHarm ==
  ASSUME HistoryType, NEW p \in Procs, Interfere(p)
  PROVE  /\ \A q \in Procs : q # p => ~clean'[q] /\ ~fresh'[q] /\ done'[q] = "none"
         /\ clean'[p] = clean[p] /\ fresh'[p] = fresh[p] /\ done'[p] = done[p]
BY DEF HistoryType, Interfere

LEMMA CallOthers ==
  ASSUME NEW G, TypeInv(G), NEW p \in Procs,
         \/ GetValueRaw(p) \/ GetValue(p) \/ Skip(p) \/ ChangeValue(p)
         \/ WriteBack(p) \/ Truncate(p) \/ Put(p)
  PROVE  /\ \A q \in Procs : q # p => Same(q) /\ Unharmed(q)
         /\ phase' = phase /\ edits' = edits /\ job[p] # <<>>
         /\ clean'[p] = clean[p] /\ fresh'[p] = fresh[p] /\ done'[p] = done[p]
<1>1. job[p] # <<>>
  BY DEF TypeInv, HoldType, GetValueRaw, GetValue, Skip, ChangeValue, WriteBack, Truncate, Put
<1>2. Todo(p).tweak \in Tweaks
  BY <1>1, JobFacts
<1>3. \A q \in Procs : q # p => job'[q] = job[q]
  <2>1. Drop(p) \/ UNCHANGED job
    BY DEF GetValueRaw, GetValue, Skip, ChangeValue, WriteBack, Truncate, Put
  <2>. QED BY <2>1 DEF Drop, TypeInv, JobType
<1>4. \A q \in Procs : q # p => hold'[q] = hold[q]
  <2>1. UNCHANGED hold \/ \E v : hold' = [hold EXCEPT ![p] = v]
    BY DEF GetValueRaw, GetValue, Skip, ChangeValue, WriteBack, Truncate, Put
  <2>. QED BY <2>1 DEF TypeInv, HoldType
<1>5. \A q \in Procs : q # p => pvt'[q] = pvt[q] /\ temp'[q] = temp[q]
  <2>1. UNCHANGED pvt \/ \E t, v : pvt' = [pvt EXCEPT ![p][t] = v]
    BY DEF GetValueRaw, GetValue, Skip, ChangeValue, WriteBack, Truncate, Put, values
  <2>2. UNCHANGED temp \/ \E t, v : temp' = [temp EXCEPT ![p][t] = v]
    BY DEF GetValueRaw, GetValue, Skip, ChangeValue, WriteBack, Truncate, Put, values
  <2>. QED BY <2>1, <2>2 DEF TypeInv, TreeType
<1>6. \A q \in Procs : q # p => edited'[q] = edited[q]
  <2>1. UNCHANGED edited \/ \E v : edited' = [edited EXCEPT ![p] = v]
    BY DEF GetValueRaw, GetValue, Skip, ChangeValue, WriteBack, Truncate, Put, history
  <2>. QED BY <2>1 DEF TypeInv, HistoryType
<1>7. phase' = phase /\ edits' = edits
  BY DEF GetValueRaw, GetValue, Skip, ChangeValue, WriteBack, Truncate, Put
<1>8. UNCHANGED <<reg, config, done, clean, fresh>> \/ Interfere(p)
  BY DEF GetValueRaw, GetValue, Skip, ChangeValue, WriteBack, Truncate, Put, history
<1>9. (\A q \in Procs : q # p => Unharmed(q))
      /\ clean'[p] = clean[p] /\ fresh'[p] = fresh[p] /\ done'[p] = done[p]
  BY <1>8, InterfereHarm DEF TypeInv, Unharmed
<1>. QED BY <1>1, <1>3, <1>4, <1>5, <1>6, <1>7, <1>9 DEF Same

\* What remains of a job settles what it did, as long as the call that is gone was
\* not the last change of t.
LEMMA SettlesDrop ==
  ASSUME NEW G, TypeInv(G), NEW p \in Procs, job[p] # <<>>, job'[p] = Tail(job[p]),
         NEW t, NEW A, Settles(p, t, A),
         Asks(Tail(job[p]), "change", t)
           \/ (InEffect(t)' = InEffect(t) /\ ~(Todo(p).op = "change" /\ Todo(p).tweak = t))
  PROVE  Settles(p, t, A)'
<1>1. job[p] \in Seq(SafeCalls(G))
  BY DEF TypeInv, JobType
<1>2. Asks(job[p], "change", t)
        <=> (Todo(p).op = "change" /\ Todo(p).tweak = t) \/ Asks(Tail(job[p]), "change", t)
  BY <1>1, TailAsks DEF Todo
<1>3. CASE Asks(Tail(job[p]), "change", t)
  <2>1. ASSUME NEW m \in DOMAIN Tail(job[p]), LastOn(Tail(job[p]), m, t)
        PROVE  Tail(job[p])[m].now /\ Tail(job[p])[m].unless \cup {Tail(job[p])[m].value} \subseteq A
    <3>1. m + 1 \in DOMAIN job[p] /\ Tail(job[p])[m] = job[p][m + 1] /\ LastOn(job[p], m + 1, t)
      BY <1>1, <2>1, TailIndex, TailLast
    <3>. QED BY <1>2, <1>3, <3>1 DEF Settles
  <2>. QED BY <1>3, <2>1 DEF Settles
<1>4. CASE ~Asks(Tail(job[p]), "change", t)
  BY <1>2, <1>4 DEF Settles
<1>. QED BY <1>3, <1>4

\* The last change of t, when it is made, is to one of the values.
LEMMA SettlesLast ==
  ASSUME NEW G, TypeInv(G), NEW p \in Procs, job[p] # <<>>, Todo(p).op = "change",
         NEW A, Settles(p, Todo(p).tweak, A), ~Asks(Tail(job[p]), "change", Todo(p).tweak)
  PROVE  Todo(p).now /\ Wanted(p) \in A
<1>1. job[p] \in Seq(SafeCalls(G))
  BY DEF TypeInv, JobType
<1>2. LastOn(job[p], 1, Todo(p).tweak) /\ Todo(p) = job[p][1] /\ 1 \in DOMAIN job[p]
  BY <1>1, TailLast, TailIndex DEF Todo
<1>3. Asks(job[p], "change", Todo(p).tweak)
  BY <1>1, TailAsks DEF Todo
<1>. QED BY <1>2, <1>3 DEF Settles, Wanted

\* Without radio buttons every value is set.
LEMMA NothingNotSet ==
  ASSUME ExactInputs, NEW t \in Tweaks, NEW v
  PROVE  ~NotSet(t, v)
BY DEF ExactInputs, NotSet

\* A call that changes nothing but the private values of its process.
LEMMA SettlesKept ==
  ASSUME ExactInputs, TypeInv(ExactValues), NEW p \in Procs, HoldInv(p), clean[p],
         GetValueRaw(p) \/ Skip(p) \/ ChangeValue(p) \/ WriteBack(p),
         NEW t \in Tweaks, NEW A, Settles(p, t, A)
  PROVE  Settles(p, t, A)'
<1>0. job[p] # <<>> /\ Todo(p).tweak \in Tweaks /\ job \in [Procs -> Seq(SafeCalls(ExactValues))]
  BY CallOthers, JobFacts DEF TypeInv, JobType
<1>1. CASE GetValueRaw(p) \/ Skip(p)
  <2>1. job'[p] = Tail(job[p]) /\ Todo(p).op # "change" /\ reg' = reg
    BY <1>0, <1>1 DEF GetValueRaw, Skip, Drop
  <2>. QED BY <1>0, <2>1, SettlesDrop DEF InEffect
<1>2. CASE ChangeValue(p)
  <2>1. CASE UNCHANGED job
    BY <1>2, <2>1 DEF ChangeValue, Settles, InEffect
  <2>2. CASE Drop(p) /\ ~Todo(p).now
    <3>1. job'[p] = Tail(job[p]) /\ reg' = reg /\ Todo(p).op = "change"
      BY <1>0, <1>2, <2>2 DEF Drop, ChangeValue
    <3>2. Asks(Tail(job[p]), "change", t) \/ Todo(p).tweak # t
      BY <1>0, <2>2, <3>1, SettlesLast
    <3>. QED BY <1>0, <3>1, <3>2, SettlesDrop DEF InEffect
  <2>. QED BY <1>0, <1>2, <2>1, <2>2, NothingNotSet DEF ChangeValue
<1>3. CASE WriteBack(p)
  <2>1. job'[p] = Tail(job[p]) /\ Todo(p).op = "change" /\ hold[p] = reg[Here(p)]
    BY <1>0, <1>3 DEF WriteBack, Drop, HoldInv, TypeInv, HoldType, Todo
  <2>2. \A u \in Tweaks : InEffect(u)' = IF u = Todo(p).tweak THEN Wanted(p) ELSE InEffect(u)
    BY <1>3, <2>1, WriteEffect
  <2>3. CASE Todo(p).tweak = t /\ ~Asks(Tail(job[p]), "change", t)
    <3>1. Wanted(p) \in A
      BY <1>0, <2>1, <2>3, SettlesLast
    <3>2. InEffect(t)' \in A
      BY <2>2, <2>3, <3>1
    <3>. QED BY <2>1, <2>3, <3>2 DEF Settles
  <2>4. CASE ~(Todo(p).tweak = t /\ ~Asks(Tail(job[p]), "change", t))
    BY <1>0, <2>1, <2>2, <2>4, SettlesDrop
  <2>. QED BY <2>3, <2>4
<1>. QED BY <1>1, <1>2, <1>3

-----------------------------------------------------------------------------
(* What has been done of a job is kept *)

LEMMA JobSeq ==
  ASSUME NEW G, TypeInv(G), NEW p \in Procs
  PROVE  job[p] \in Seq(SafeCalls(G))
BY DEF TypeInv, JobType

\* The next call is made, or ChangeValue begins.
LEMMA JobMoves ==
  ASSUME NEW G, TypeInv(G), NEW p \in Procs,
         \/ GetValueRaw(p) \/ GetValue(p) \/ Skip(p) \/ ChangeValue(p)
         \/ WriteBack(p) \/ Truncate(p) \/ Put(p)
  PROVE  /\ job'[p] = Tail(job[p]) \/ (job'[p] = job[p] /\ Todo(p).op = "change" /\ ChangeValue(p))
         /\ Todo(p).op = "raw" => GetValueRaw(p)
         /\ Todo(p).op = "get" => GetValue(p)
         /\ Todo(p).op = "skip" => Skip(p)
         /\ Todo(p).op = "change" => ChangeValue(p) \/ WriteBack(p)
         /\ Todo(p).op = "truncate" => Truncate(p)
         /\ Todo(p).op = "put" => Put(p)
<1>1. WriteBack(p) => Todo(p).op = "change"
  BY DEF WriteBack, TypeInv, HoldType, Todo
<1>2. Drop(p) => job'[p] = Tail(job[p])
  BY DEF Drop, TypeInv, JobType
<1>3. job'[p] = Tail(job[p]) \/ (job'[p] = job[p] /\ Todo(p).op = "change" /\ ChangeValue(p))
  BY <1>2 DEF GetValueRaw, GetValue, Skip, ChangeValue, WriteBack, Truncate, Put
<1>. QED BY <1>1, <1>3 DEF GetValueRaw, GetValue, Skip, ChangeValue, Truncate, Put

LEMMA MadeMoves ==
  ASSUME NEW G, TypeInv(G), NEW p \in Procs,
         \/ GetValueRaw(p) \/ GetValue(p) \/ Skip(p) \/ ChangeValue(p)
         \/ WriteBack(p) \/ Truncate(p) \/ Put(p),
         NEW ops, Made(job[p], ops)
  PROVE  Made(job'[p], ops) /\ Todo(p).op \in ops
BY JobSeq, JobMoves, CallOthers, TailMade DEF Todo

LEMMA NoneAfterMoves ==
  ASSUME NEW G, TypeInv(G), NEW p \in Procs,
         \/ GetValueRaw(p) \/ GetValue(p) \/ Skip(p) \/ ChangeValue(p)
         \/ WriteBack(p) \/ Truncate(p) \/ Put(p),
         NEW op, NEW later, NoneAfter(job[p], op, later)
  PROVE  /\ NoneAfter(job'[p], op, later)
         /\ Todo(p).op = op /\ op # later => \A t : ~Asks(job[p], later, t)
<1>1. job[p] # <<>> /\ job[p] \in Seq(SafeCalls(G))
  BY JobSeq, CallOthers
<1>2. NoneAfter(job'[p], op, later)
  BY <1>1, JobMoves, TailNoneAfter
<1>3. ASSUME Todo(p).op = op, op # later, NEW t
      PROVE  ~Asks(job[p], later, t)
  <2>1. ~Asks(Tail(job[p]), later, t)
    BY <1>1, <1>3, TailNoneAfter DEF Todo
  <2>. QED BY <1>1, <1>3, <2>1, TailAsks DEF Todo
<1>. QED BY <1>2, <1>3

\* Another call than the first one is still to be made.
LEMMA AsksMoves ==
  ASSUME NEW G, TypeInv(G), NEW p \in Procs, job[p] # <<>>, job'[p] = Tail(job[p]),
         NEW op, NEW t, Asks(job[p], op, t), Todo(p).op # op \/ Todo(p).tweak # t
  PROVE  Asks(job'[p], op, t)
BY JobSeq, TailAsks DEF Todo

LEMMA RawEffect ==
  ASSUME NEW G, TypeInv(G), NEW p \in Procs, GetValueRaw(p)
  PROVE  /\ UNCHANGED <<reg, config, temp, hold>> /\ job'[p] = Tail(job[p]) /\ Todo(p).op = "raw"
         /\ \A u \in Tweaks : pvt'[p][u] = IF u = Todo(p).tweak THEN InEffect(u) ELSE pvt[p][u]
<1>. DEFINE t == Todo(p).tweak
<1>1. t \in Tweaks
  BY JobFacts DEF GetValueRaw
<1>2. pvt' = [pvt EXCEPT ![p][t] = InEffect(t)]
  BY DEF GetValueRaw, Here, InEffect
<1>3. \A u \in Tweaks : pvt'[p][u] = IF u = t THEN InEffect(u) ELSE pvt[p][u]
  <2>. HIDE DEF t
  <2>. QED BY <1>1, <1>2 DEF TypeInv, TreeType
<1>. QED BY <1>3, JobMoves DEF GetValueRaw

\* In the text interface a check mark shows what there is to show.
LEMMA GetEffect ==
  ASSUME ExactInputs, TypeInv(ExactValues), NEW p \in Procs, GetValue(p)
  PROVE  /\ UNCHANGED <<reg, config, pvt, hold>> /\ job'[p] = Tail(job[p]) /\ Todo(p).op = "get"
         /\ \A u \in Tweaks : temp'[p][u] = IF u = Todo(p).tweak THEN pvt[p][u] ELSE temp[p][u]
<1>. DEFINE t == Todo(p).tweak
<1>1. t \in Tweaks
  BY JobFacts DEF GetValue
<1>2. Reached(p, t) = t
  BY <1>1, ReachesItself DEF ExactInputs
<1>3. Drawn(p, t, pvt[p][t]) = pvt[p][t]
  BY <1>1 DEF TypeInv, TreeType, ExactValues, Exact, Drawn
<1>4. temp' = [temp EXCEPT ![p][t] = pvt[p][t]]
  BY <1>2, <1>3 DEF GetValue
<1>5. \A u \in Tweaks : temp'[p][u] = IF u = t THEN pvt[p][u] ELSE temp[p][u]
  <2>. HIDE DEF t
  <2>. QED BY <1>1, <1>4 DEF TypeInv, TreeType
<1>. QED BY <1>5, JobMoves DEF GetValue

LEMMA ChangeEffect ==
  ASSUME ExactInputs, TypeInv(ExactValues), NEW p \in Procs, ChangeValue(p)
  PROVE  /\ UNCHANGED <<reg, config, temp>> /\ Todo(p).op = "change"
         /\ \A u \in Tweaks : pvt'[p][u] = IF u = Todo(p).tweak THEN Wanted(p) ELSE pvt[p][u]
         /\ IF Todo(p).now THEN job' = job /\ hold'[p] = reg[Here(p)]
                           ELSE job'[p] = Tail(job[p]) /\ hold'[p] = None
<1>. DEFINE t == Todo(p).tweak
<1>1. t \in Tweaks
  BY JobFacts DEF ChangeValue
<1>2. pvt' = [pvt EXCEPT ![p][t] = Wanted(p)]
  BY DEF ChangeValue
<1>3. \A u \in Tweaks : pvt'[p][u] = IF u = t THEN Wanted(p) ELSE pvt[p][u]
  <2>. HIDE DEF t
  <2>. QED BY <1>1, <1>2 DEF TypeInv, TreeType
<1>4. IF Todo(p).now THEN job' = job /\ hold'[p] = reg[Here(p)]
                     ELSE job'[p] = Tail(job[p]) /\ hold'[p] = None
  BY <1>1, NothingNotSet DEF ChangeValue, Drop, TypeInv, HoldType, JobType
<1>. QED BY <1>3, <1>4 DEF ChangeValue

LEMMA HoldCall ==
  ASSUME ExactInputs, TypeInv(ExactValues), NEW p \in Procs, HoldInv(p),
         \/ GetValueRaw(p) \/ GetValue(p) \/ Skip(p) \/ ChangeValue(p)
         \/ WriteBack(p) \/ Truncate(p) \/ Put(p)
  PROVE  HoldInv(p)'
<1>1. CASE ChangeValue(p)
  <2>1. CASE Todo(p).now
    <3>1. Todo(p)' = Todo(p) /\ Here(p)' = Here(p) /\ hold'[p] = reg[Here(p)] /\ reg' = reg
      BY <1>1, <2>1, ChangeEffect DEF Todo, Here
    <3>2. Todo(p).tweak \in Tweaks
      BY <1>1, JobFacts DEF ChangeValue
    <3>3. pvt'[p][Todo(p).tweak] = Wanted(p)
      BY <1>1, <3>2, ChangeEffect
    <3>4. Wanted(p)' = pvt'[p][Todo(p).tweak]
      BY <3>1, <3>3 DEF Wanted
    <3>. QED BY <2>1, <3>1, <3>4 DEF HoldInv
  <2>. QED BY <1>1, <2>1, ChangeEffect DEF HoldInv
<1>2. CASE WriteBack(p)
  BY <1>2 DEF WriteBack, HoldInv, TypeInv, HoldType
<1>3. CASE GetValueRaw(p) \/ GetValue(p) \/ Skip(p) \/ Truncate(p) \/ Put(p)
  <2>1. hold[p] = None /\ hold' = hold
    BY <1>3 DEF GetValueRaw, GetValue, Skip, Truncate, Put, TypeInv, HoldType, Todo
  <2>. QED BY <2>1 DEF HoldInv
<1>. QED BY <1>1, <1>2, <1>3

LEMMA StartCall ==
  ASSUME ExactInputs, TypeInv(ExactValues), NEW p \in Procs, HoldInv(p), StartInv(p),
         \/ GetValueRaw(p) \/ GetValue(p) \/ Skip(p) \/ ChangeValue(p)
         \/ WriteBack(p) \/ Truncate(p) \/ Put(p)
  PROVE  StartInv(p)'
<1>1. Made(job'[p], {"raw", "skip", "change"}) /\ Todo(p).op \in {"raw", "skip", "change"}
  BY MadeMoves DEF StartInv
<1>2. GetValueRaw(p) \/ Skip(p) \/ ChangeValue(p) \/ WriteBack(p)
  BY <1>1, JobMoves
<1>3. config' = config /\ clean'[p] = clean[p]
  BY <1>2, CallOthers DEF GetValueRaw, Skip, ChangeValue, WriteBack
<1>4. ASSUME clean[p], NEW t \in Tweaks, FromFile(t)
      PROVE  Settles(p, t, {config[t]})'
  <2>1. Settles(p, t, {config[t]})
    BY <1>4 DEF StartInv
  <2>. DEFINE A == {config[t]}
  <2>2. Settles(p, t, A)'
    <3>. HIDE DEF A
    <3>. SUFFICES \A B : B = A => Settles(p, t, B)'
      BY <1>3 DEF A
    <3>. QED BY <1>2, <1>4, <2>1, SettlesKept DEF A
  <2>. QED BY <1>3, <2>2
<1>5. clean[p] => SettlesAll(p, Profile)'
  <2>1. \A i \in DOMAIN Profile : Profile[i].tweak \in Tweaks
    BY SettingsType, SessionAssumption
  <2>. QED BY <1>2, <2>1, SettlesKept DEF StartInv, SettlesAll
<1>. QED BY <1>1, <1>3, <1>4, <1>5 DEF StartInv, FromFile

LEMMA OpenCall ==
  ASSUME ExactInputs, TypeInv(ExactValues), NEW p \in Procs, HoldInv(p), OpenInv(p),
         \/ GetValueRaw(p) \/ GetValue(p) \/ Skip(p) \/ ChangeValue(p)
         \/ WriteBack(p) \/ Truncate(p) \/ Put(p)
  PROVE  OpenInv(p)'
<1>1. Made(job'[p], {"change"}) /\ Todo(p).op \in {"change"}
  BY MadeMoves DEF OpenInv
<1>2. ChangeValue(p) \/ WriteBack(p)
  BY <1>1, JobMoves
<1>3. clean'[p] = clean[p]
  BY CallOthers
<1>4. \A i \in DOMAIN Opened : Opened[i].tweak \in Tweaks
  BY SettingsType, SessionAssumption
<1>5. clean[p] => SettlesAll(p, Opened)'
  BY <1>2, <1>4, SettlesKept DEF OpenInv, SettlesAll
<1>. QED BY <1>1, <1>3, <1>5 DEF OpenInv

LEMMA ReadCall ==
  ASSUME ExactInputs, TypeInv(ExactValues), NEW p \in Procs, ReadInv(p),
         \/ GetValueRaw(p) \/ GetValue(p) \/ Skip(p) \/ ChangeValue(p)
         \/ WriteBack(p) \/ Truncate(p) \/ Put(p)
  PROVE  ReadInv(p)'
<1>1. Made(job'[p], {"raw", "get"}) /\ Todo(p).op \in {"raw", "get"}
      /\ NoneAfter(job'[p], "get", "raw")
  BY MadeMoves, NoneAfterMoves DEF ReadInv
<1>2. job[p] # <<>> /\ clean'[p] = clean[p]
  BY CallOthers
<1>3. CASE Todo(p).op = "raw"
  <2>1. GetValueRaw(p)
    BY <1>3, JobMoves
  <2>2. \A u \in Tweaks : InEffect(u)' = InEffect(u)
    BY <2>1, RawEffect DEF InEffect
  <2>3. ASSUME clean[p], NEW u \in Tweaks
        PROVE  Asks(job'[p], "raw", u) \/ pvt'[p][u] = InEffect(u)
    BY <1>2, <2>1, <2>3, RawEffect, AsksMoves DEF ReadInv
  <2>4. ASSUME clean[p], NEW u \in Tweaks
        PROVE  Asks(job'[p], "get", u) \/ temp'[p][u] = InEffect(u)
    BY <1>2, <2>1, <2>4, RawEffect, AsksMoves DEF ReadInv
  <2>. QED BY <1>1, <1>2, <2>2, <2>3, <2>4 DEF ReadInv
<1>4. CASE Todo(p).op = "get"
  <2>1. GetValue(p)
    BY <1>4, JobMoves
  <2>2. \A u \in Tweaks : InEffect(u)' = InEffect(u)
    BY <2>1, GetEffect DEF InEffect
  <2>3. \A u \in Tweaks : ~Asks(job[p], "raw", u)
    BY <1>4, NoneAfterMoves DEF ReadInv
  <2>4. ASSUME clean[p], NEW u \in Tweaks
        PROVE  pvt'[p][u] = InEffect(u) /\ pvt[p][u] = InEffect(u)
    BY <2>1, <2>3, <2>4, GetEffect DEF ReadInv
  <2>5. ASSUME clean[p], NEW u \in Tweaks
        PROVE  Asks(job'[p], "get", u) \/ temp'[p][u] = InEffect(u)
    BY <1>2, <2>1, <2>4, <2>5, GetEffect, AsksMoves DEF ReadInv
  <2>. QED BY <1>1, <1>2, <2>2, <2>4, <2>5 DEF ReadInv
<1>. QED BY <1>1, <1>3, <1>4

\* A change of a job that sends the widgets stores what its widget shows.
LEMMA SendWanted ==
  ASSUME NEW G, TypeInv(G), NEW p \in Procs, NEW now, Sends(p, now), job[p] # <<>>,
         Todo(p).op = "change"
  PROVE  Wanted(p) = temp[p][Todo(p).tweak] /\ Todo(p).now = now
<1>1. Todo(p) = job[p][1] /\ 1 \in DOMAIN job[p]
  BY JobSeq, TailIndex DEF Todo
<1>. QED BY <1>1 DEF Sends, Wanted

LEMMA SendCall ==
  ASSUME ExactInputs, TypeInv(ExactValues), NEW p \in Procs, NEW now \in BOOLEAN,
         HoldInv(p), Sends(p, now),
         ChangeValue(p) \/ WriteBack(p)
           \/ (UNCHANGED <<pvt, temp>> /\ job'[p] = Tail(job[p]) /\ Todo(p).op # "change" /\ job[p] # <<>>)
  PROVE  Sends(p, now)'
<1>1. job[p] # <<>> /\ job[p] \in Seq(SafeCalls(ExactValues)) /\ Todo(p).tweak \in Tweaks
  BY JobSeq, CallOthers, JobFacts
<1>2. temp' = temp /\ (job'[p] = job[p] \/ job'[p] = Tail(job[p]))
  BY JobMoves DEF ChangeValue, WriteBack, values
<1>3. ASSUME NEW i \in DOMAIN job'[p], job'[p][i].op = "change"
      PROVE  /\ job'[p][i].value = temp'[p][job'[p][i].tweak]
             /\ job'[p][i].unless = {} /\ job'[p][i].now = now
  <2>1. CASE job'[p] = job[p]
    BY <1>2, <1>3, <2>1 DEF Sends
  <2>2. CASE job'[p] = Tail(job[p])
    <3>1. i + 1 \in DOMAIN job[p] /\ job'[p][i] = job[p][i + 1]
      BY <1>1, <2>2, TailIndex
    <3>. QED BY <1>2, <1>3, <3>1 DEF Sends
  <2>. QED BY <1>2, <2>1, <2>2
<1>4. CASE ChangeValue(p) \/ WriteBack(p)
  <2>1. Todo(p).op = "change"
    BY <1>4 DEF ChangeValue, WriteBack, TypeInv, HoldType, Todo
  <2>2. Wanted(p) = temp[p][Todo(p).tweak]
    BY <1>1, <2>1, SendWanted
  <2>3. \A u \in Tweaks : pvt'[p][u] = IF u = Todo(p).tweak THEN Wanted(p) ELSE pvt[p][u]
    <3>1. CASE ChangeValue(p)
      BY <3>1, ChangeEffect
    <3>2. CASE WriteBack(p)
      BY <1>1, <3>2 DEF WriteBack, HoldInv, values
    <3>. QED BY <1>4, <3>1, <3>2
  <2>4. ASSUME NEW u \in Tweaks
        PROVE  Asks(job'[p], "change", u) \/ pvt'[p][u] = temp'[p][u]
    <3>1. CASE u = Todo(p).tweak
      BY <1>2, <2>2, <2>3, <3>1
    <3>2. CASE u # Todo(p).tweak
      BY <1>1, <1>2, <2>3, <3>2, AsksMoves DEF Sends
    <3>. QED BY <3>1, <3>2
  <2>. QED BY <1>3, <2>4 DEF Sends
<1>5. CASE UNCHANGED <<pvt, temp>> /\ job'[p] = Tail(job[p]) /\ Todo(p).op # "change"
  <2>1. \A u \in Tweaks : Asks(job'[p], "change", u) \/ pvt'[p][u] = temp'[p][u]
    BY <1>1, <1>5, AsksMoves DEF Sends
  <2>. QED BY <1>3, <2>1 DEF Sends
<1>. QED BY <1>4, <1>5

\* Nothing is sent once the values are read back, and they are what was sent.
LEMMA ReadBack ==
  ASSUME ExactInputs, TypeInv(ExactValues), NEW p \in Procs, ApplyInv(p), GetValue(p)
  PROVE  /\ \A u \in Tweaks : temp'[p][u] = temp[p][u]
         /\ Sends(p, TRUE)' /\ \A u \in Tweaks : ~Asks(job[p], "change", u)
<1>1. job'[p] = Tail(job[p]) /\ Todo(p).op = "get" /\ job[p] # <<>> /\ pvt' = pvt
  BY CallOthers, GetEffect
<1>2. \A u \in Tweaks : ~Asks(job[p], "change", u)
  BY <1>1, NoneAfterMoves DEF ApplyInv
<1>3. \A u \in Tweaks : pvt[p][u] = temp[p][u]
  BY <1>2 DEF ApplyInv, Sends
<1>4. \A u \in Tweaks : temp'[p][u] = temp[p][u]
  BY <1>3, GetEffect
<1>5. Made(job'[p], {"get"})
  <2>1. \A i \in DOMAIN job[p] : job[p][i].tweak \in Tweaks
    <3>1. job[p] \in Seq(Calls)
      <4>1. SafeCalls(ExactValues) \subseteq Calls
        BY DEF SafeCalls
      <4>. QED BY <4>1, JobSeq, SeqDef
    <3>2. \A i \in DOMAIN job[p] : job[p][i] \in Calls
      BY <3>1, LenProperties
    <3>. QED BY <3>2 DEF Calls
  <2>2. Made(job[p], {"get"})
    BY <1>2, <2>1 DEF Made, Asks, ApplyInv
  <2>. QED BY <2>2, MadeMoves
<1>6. Sends(p, TRUE)'
  BY <1>1, <1>3, <1>4, <1>5 DEF Sends, Made
<1>. QED BY <1>2, <1>4, <1>6

LEMMA ApplyCall ==
  ASSUME ExactInputs, TypeInv(ExactValues), NEW p \in Procs, HoldInv(p), ApplyInv(p),
         \/ GetValueRaw(p) \/ GetValue(p) \/ Skip(p) \/ ChangeValue(p)
         \/ WriteBack(p) \/ Truncate(p) \/ Put(p)
  PROVE  ApplyInv(p)'
<1>1. Made(job'[p], {"change", "get"}) /\ Todo(p).op \in {"change", "get"}
      /\ NoneAfter(job'[p], "get", "change")
  BY MadeMoves, NoneAfterMoves DEF ApplyInv
<1>2. job[p] # <<>> /\ clean'[p] = clean[p] /\ Todo(p).tweak \in Tweaks
  BY CallOthers, JobFacts
<1>3. GetValue(p) \/ ChangeValue(p) \/ WriteBack(p)
  BY <1>1, JobMoves
<1>4. CASE GetValue(p)
  <2>1. Sends(p, TRUE)' /\ \A u \in Tweaks : temp'[p][u] = temp[p][u] /\ ~Asks(job[p], "change", u)
    BY <1>4, ReadBack
  <2>2. \A u \in Tweaks : InEffect(u)' = InEffect(u)
    BY <1>4, GetEffect DEF InEffect
  <2>3. clean[p] => \A u \in Tweaks : InEffect(u)' = temp'[p][u]
    BY <2>1, <2>2 DEF ApplyInv
  <2>. QED BY <1>1, <1>2, <2>1, <2>3 DEF ApplyInv
<1>5. CASE ChangeValue(p)
  <2>1. Sends(p, TRUE)'
    BY <1>5, SendCall DEF ApplyInv
  <2>2. Todo(p).now
    BY <1>2, <1>5, SendWanted DEF ApplyInv, ChangeValue
  <2>3. job' = job /\ reg' = reg /\ temp' = temp
    BY <1>5, <2>2, ChangeEffect
  <2>. QED BY <1>1, <1>2, <2>1, <2>3 DEF ApplyInv, InEffect
<1>6. CASE WriteBack(p)
  <2>1. Sends(p, TRUE)'
    BY <1>6, SendCall DEF ApplyInv
  <2>2. Todo(p).op = "change" /\ job'[p] = Tail(job[p]) /\ temp' = temp
    BY <1>6, JobMoves DEF WriteBack, TypeInv, HoldType, Todo, values, Drop, JobType
  <2>3. Wanted(p) = temp[p][Todo(p).tweak]
    BY <1>2, <2>2, SendWanted DEF ApplyInv
  <2>4. ASSUME clean[p], NEW u \in Tweaks
        PROVE  Asks(job'[p], "change", u) \/ InEffect(u)' = temp'[p][u]
    <3>1. hold[p] = reg[Here(p)]
      BY <1>6, <2>4 DEF HoldInv, WriteBack
    <3>2. InEffect(u)' = IF u = Todo(p).tweak THEN Wanted(p) ELSE InEffect(u)
      BY <1>6, <3>1, WriteEffect
    <3>3. CASE u = Todo(p).tweak
      BY <2>2, <2>3, <3>2, <3>3
    <3>4. CASE u # Todo(p).tweak
      BY <1>2, <2>2, <2>4, <3>2, <3>4, AsksMoves DEF ApplyInv
    <3>. QED BY <3>3, <3>4
  <2>. QED BY <1>1, <1>2, <2>1, <2>4 DEF ApplyInv
<1>. QED BY <1>3, <1>4, <1>5, <1>6

\* The file is emptied before it is written, and written when every value has
\* been handed over.
LEMMA SaveCall ==
  ASSUME ExactInputs, TypeInv(ExactValues), NEW p \in Procs, HoldInv(p), SaveInv(p),
         \/ GetValueRaw(p) \/ GetValue(p) \/ Skip(p) \/ ChangeValue(p)
         \/ WriteBack(p) \/ Truncate(p) \/ Put(p)
  PROVE  SaveInv(p)'
<1>. DEFINE Opens(calls) == \E t \in Tweaks : Asks(calls, "truncate", t)
<1>1. Made(job'[p], {"change", "truncate", "put"}) /\ Todo(p).op \in {"change", "truncate", "put"}
      /\ NoneAfter(job'[p], "truncate", "change")
      /\ NoneAfter(job'[p], "put", "change") /\ NoneAfter(job'[p], "put", "truncate")
  BY MadeMoves, NoneAfterMoves DEF SaveInv
<1>2. job[p] # <<>> /\ clean'[p] = clean[p] /\ Todo(p).tweak \in Tweaks
      /\ job[p] \in Seq(SafeCalls(ExactValues))
  BY CallOthers, JobFacts, JobSeq
<1>3. ~WriteBack(p)
  BY <1>2, SendWanted DEF WriteBack, HoldInv, SaveInv, TypeInv, HoldType, Todo
<1>4. job'[p] = Tail(job[p])
  <2>1. ChangeValue(p) => ~Todo(p).now
    BY <1>2, SendWanted DEF SaveInv, ChangeValue
  <2>. QED BY <2>1, ChangeEffect, JobMoves
<1>5. Opens(job'[p]) => Opens(job[p]) /\ Todo(p).op # "put"
  <2>1. Opens(job'[p]) => Opens(job[p])
    BY <1>2, <1>4, TailAsks DEF Todo
  <2>2. Todo(p).op = "put" => ~Opens(job[p])
    BY NoneAfterMoves DEF SaveInv
  <2>. QED BY <2>1, <2>2
<1>6. Opens(job'[p]) => \A t \in Tweaks : Asks(job'[p], "put", t)
  <2>. HIDE DEF Opens
  <2>1. Opens(job[p]) => \A t \in Tweaks : Asks(job[p], "put", t)
    BY DEF SaveInv, Opens
  <2>. QED BY <1>2, <1>4, <1>5, <2>1, AsksMoves
<1>7. CASE Todo(p).op = "change"
  <2>1. ChangeValue(p)
    BY <1>3, <1>7, JobMoves
  <2>2. Sends(p, FALSE)'
    BY <2>1, SendCall DEF SaveInv
  <2>3. config' = config /\ temp' = temp
    BY <2>1, ChangeEffect
  <2>4. clean[p] => \A t \in Tweaks : Asks(job'[p], "put", t) \/ config'[t] = temp'[p][t]
    BY <1>2, <1>4, <1>7, <2>3, AsksMoves DEF SaveInv
  <2>. QED BY <1>1, <1>2, <1>6, <2>2, <2>4 DEF SaveInv
<1>8. CASE Todo(p).op \in {"truncate", "put"}
  <2>1. UNCHANGED <<pvt, temp>> /\ (Truncate(p) \/ Put(p))
    BY <1>8, JobMoves DEF Truncate, Put, values
  <2>2. Sends(p, FALSE)'
    BY <1>2, <1>4, <1>8, <2>1, SendCall DEF SaveInv
  <2>3. ASSUME clean[p], NEW t \in Tweaks
        PROVE  Asks(job'[p], "put", t) \/ config'[t] = temp'[p][t]
    <3>1. CASE Todo(p).op = "truncate"
      <4>1. Opens(job[p])
        BY <1>2, <3>1, TailAsks DEF Todo
      <4>2. Asks(job[p], "put", t)
        BY <4>1 DEF SaveInv
      <4>. QED BY <1>2, <1>4, <3>1, <4>2, AsksMoves
    <3>2. CASE Todo(p).op = "put"
      <4>1. Put(p)
        BY <3>2, JobMoves
      <4>2. config' = [config EXCEPT ![Todo(p).tweak] = pvt[p][Todo(p).tweak]]
        BY <4>1 DEF Put
      <4>3. config'[t] = IF t = Todo(p).tweak THEN pvt[p][t] ELSE config[t]
        BY <1>2, <4>2 DEF TypeInv, ConfigType, Configs
      <4>4. pvt[p][t] = temp[p][t]
        <5>1. ~Asks(job[p], "change", t)
          BY <3>2, NoneAfterMoves DEF SaveInv
        <5>. QED BY <5>1 DEF SaveInv, Sends
      <4>. QED BY <1>2, <1>4, <2>1, <2>3, <4>3, <4>4, AsksMoves DEF SaveInv
    <3>. QED BY <1>8, <3>1, <3>2
  <2>. QED BY <1>1, <1>2, <1>6, <2>2, <2>3 DEF SaveInv
<1>. QED BY <1>1, <1>7, <1>8

\* Values that were shown are sent as they are; what they replace is what they
\* were read from.
LEMMA FreshCall ==
  ASSUME ExactInputs, TypeInv(ExactValues), NEW p \in Procs, HoldInv(p), FreshInv(p),
         phase[p] = "applying" => ApplyInv(p),
         phase[p] = "saving" => SaveInv(p),
         \/ GetValueRaw(p) \/ GetValue(p) \/ Skip(p) \/ ChangeValue(p)
         \/ WriteBack(p) \/ Truncate(p) \/ Put(p)
  PROVE  FreshInv(p)'
<1>1. phase' = phase /\ clean'[p] = clean[p] /\ fresh'[p] = fresh[p] /\ job[p] # <<>>
      /\ phase[p] \in Busy /\ Todo(p).tweak \in Tweaks
  BY CallOthers, JobFacts DEF TypeInv, HoldType
<1>2. ASSUME Opened = <<>>, p \in Daemons, phase[p] \in {"ui", "applying", "saving"}, fresh[p],
             NEW t \in Tweaks, t \notin edited'[p]
      PROVE  temp'[p][t] = InEffect(t)'
  <2>1. phase[p] \in {"applying", "saving"}
    BY <1>1, <1>2 DEF Busy
  <2>2. clean[p]
    BY <1>2 DEF FreshInv
  <2>3. CASE GetValue(p)
    <3>1. phase[p] = "applying"
      <4>1. Todo(p).op = "get"
        BY <2>3, GetEffect
      <4>2. phase[p] = "saving" => FALSE
        BY <4>1, MadeMoves DEF SaveInv
      <4>. QED BY <2>1, <4>2
    <3>2. edited'[p] = edited[p]
      BY <2>3, <3>1 DEF GetValue, TypeInv, HistoryType
    <3>3. temp'[p][t] = temp[p][t]
      BY <2>3, <3>1, ReadBack
    <3>4. InEffect(t)' = InEffect(t)
      BY <2>3 DEF GetValue, InEffect
    <3>. QED BY <1>2, <3>2, <3>3, <3>4 DEF FreshInv
  <2>4. CASE WriteBack(p)
    <3>1. Todo(p).op = "change" /\ hold[p] = reg[Here(p)] /\ temp' = temp /\ edited' = edited
      BY <2>2, <2>4 DEF WriteBack, TypeInv, HoldType, HoldInv, Todo, values
    <3>2. \E now \in BOOLEAN : Sends(p, now)
      BY <2>1 DEF ApplyInv, SaveInv
    <3>3. Wanted(p) = temp[p][Todo(p).tweak]
      BY <1>1, <3>1, <3>2, SendWanted
    <3>4. InEffect(t)' = IF t = Todo(p).tweak THEN Wanted(p) ELSE InEffect(t)
      BY <2>4, <3>1, WriteEffect
    <3>. QED BY <1>2, <3>1, <3>3, <3>4 DEF FreshInv
  <2>5. CASE GetValueRaw(p) \/ Skip(p) \/ ChangeValue(p) \/ Truncate(p) \/ Put(p)
    <3>1. temp' = temp /\ reg' = reg /\ edited' = edited
      BY <2>5 DEF GetValueRaw, Skip, ChangeValue, Truncate, Put, values, history
    <3>. QED BY <1>2, <3>1 DEF FreshInv, InEffect
  <2>. QED BY <2>3, <2>4, <2>5
<1>. QED BY <1>1, <1>2 DEF FreshInv

LEMMA CallContract ==
  ASSUME ExactInputs, ContractInv, TypeInv(ExactValues)', NEW p \in Procs,
         \/ GetValueRaw(p) \/ GetValue(p) \/ Skip(p) \/ ChangeValue(p)
         \/ WriteBack(p) \/ Truncate(p) \/ Put(p)
  PROVE  ContractInv'
<1>1. TypeInv(ExactValues) /\ HoldInv(p) /\ WorkInv(p) /\ DoneInv(p) /\ FreshInv(p)
  BY DEF ContractInv, ProcInv
<1>2. phase' = phase /\ done'[p] = done[p] /\ phase[p] \in Busy
  BY <1>1, CallOthers DEF TypeInv, HoldType
<1>3. HoldInv(p)' /\ FreshInv(p)'
  BY <1>1, HoldCall, FreshCall DEF WorkInv
<1>4. WorkInv(p)'
  BY <1>1, <1>2, StartCall, ReadCall, ApplyCall, SaveCall, OpenCall DEF WorkInv
<1>5. DoneInv(p)'
  BY <1>1, <1>2 DEF DoneInv, Promise
<1>6. \A q \in Procs : q # p => ProcInv(q)'
  BY <1>1, CallOthers, BystanderKept DEF ContractInv
<1>. QED BY <1>3, <1>4, <1>5, <1>6 DEF ContractInv, ProcInv

-----------------------------------------------------------------------------
(* The jobs of the operations, before anything has been done of them *)

LEMMA Covers ==
  ASSUME NEW t \in Tweaks
  PROVE  \E i \in DOMAIN Order : Order[i] = t
BY SessionAssumption

LEMMA ForAllJob ==
  ASSUME NEW op
  PROVE  Made(ForAll(op), {op}) /\ \A t \in Tweaks : Asks(ForAll(op), op, t)
BY Covers DEF ForAll, Made, Asks, Call

LEMMA UpdateJob ==
  Made(update_GTK_tree_values, {"get"}) /\ \A t \in Tweaks : Asks(update_GTK_tree_values, "get", t)
<1>1. Len(Order) \in Nat /\ DOMAIN Order = 1..Len(Order)
  BY SessionAssumption, LenProperties
<1>2. \A i \in DOMAIN Order : /\ Len(Order) + 1 - i \in DOMAIN Order
                              /\ Len(Order) + 1 - (Len(Order) + 1 - i) = i
  BY <1>1
<1>3. \A i \in DOMAIN Order : fill_frame[i].op = "get" /\ fill_frame[i].tweak = Order[i]
  BY DEF fill_frame, ForAll, Call
<1>4. \A i \in DOMAIN Order :
        /\ update_GTK_tree_values[i].op = "get"
        /\ update_GTK_tree_values[Len(Order) + 1 - i].op = "get"
        /\ update_GTK_tree_values[Len(Order) + 1 - i].tweak = Order[i]
  BY <1>2, <1>3 DEF update_GTK_tree_values
<1>5. DOMAIN update_GTK_tree_values = DOMAIN Order
  BY DEF update_GTK_tree_values
<1>6. Made(update_GTK_tree_values, {"get"})
  BY <1>4, <1>5 DEF Made
<1>7. ASSUME NEW t \in Tweaks PROVE Asks(update_GTK_tree_values, "get", t)
  BY <1>2, <1>4, <1>5, Covers DEF Asks
<1>. QED BY <1>6, <1>7

LEMMA RefreshJob ==
  ASSUME UniqueNames, NEW p \in Procs
  PROVE  /\ Made(RefreshValuesFromDaemon(p), {"raw"})
         /\ \A t \in Tweaks : Asks(RefreshValuesFromDaemon(p), "raw", t)
BY Covers, ReachesItself, OrderTweaks DEF RefreshValuesFromDaemon, Made, Asks, Call

\* The calls carry the values of vals.
Carries(calls, vals, now) ==
  \A i \in DOMAIN calls : calls[i].op = "change" =>
    calls[i].value = vals[calls[i].tweak] /\ calls[i].unless = {} /\ calls[i].now = now

LEMMA GuiJob ==
  ASSUME UniqueNames, NEW p \in Procs, NEW now
  PROVE  /\ Made(GuiToDaemon(p, now), {"change"})
         /\ \A t \in Tweaks : Asks(GuiToDaemon(p, now), "change", t)
         /\ Carries(GuiToDaemon(p, now), temp[p], now)
<1>. DEFINE calls == GuiToDaemon(p, now)
<1>1. DOMAIN calls = DOMAIN Order
  BY DEF GuiToDaemon
<1>2. \A i \in DOMAIN Order :
        /\ calls[i].op = "change" /\ calls[i].tweak = Order[i] /\ calls[i].value = temp[p][Order[i]]
        /\ calls[i].unless = {} /\ calls[i].now = now
  BY ReachesItself, OrderTweaks DEF GuiToDaemon, Call
<1>. HIDE DEF calls
<1>3. Made(calls, {"change"}) /\ \A t \in Tweaks : Asks(calls, "change", t)
  BY <1>1, <1>2, Covers DEF Made, Asks
<1>4. Carries(calls, temp[p], now)
  BY <1>1, <1>2 DEF Carries
<1>. QED BY <1>3, <1>4 DEF calls

LEMMA MergeJob ==
  ASSUME NEW now
  PROVE  /\ Made(merge_config_in_tree(now), {"skip", "change"})
         /\ \A t \in Tweaks : config[t] # None => Asks(merge_config_in_tree(now), "change", t)
         /\ \A i \in DOMAIN merge_config_in_tree(now) :
              merge_config_in_tree(now)[i].op = "change" =>
                /\ merge_config_in_tree(now)[i].value = config[merge_config_in_tree(now)[i].tweak]
                /\ merge_config_in_tree(now)[i].unless = {}
                /\ merge_config_in_tree(now)[i].now = now
<1>. DEFINE lines == merge_config_in_tree(now)
<1>1. DOMAIN lines = DOMAIN Order
  BY DEF merge_config_in_tree
<1>2. ASSUME NEW i \in DOMAIN Order
      PROVE  /\ lines[i].op = IF config[Order[i]] = None THEN "skip" ELSE "change"
             /\ lines[i].tweak = Order[i] /\ lines[i].unless = {} /\ lines[i].now = now
             /\ config[Order[i]] # None => lines[i].value = config[Order[i]]
  BY DEF merge_config_in_tree, Call
<1>. HIDE DEF lines
<1>3. Made(lines, {"skip", "change"})
  BY <1>1, <1>2 DEF Made
<1>4. ASSUME NEW t \in Tweaks, config[t] # None
      PROVE  Asks(lines, "change", t)
  BY <1>1, <1>2, <1>4, Covers DEF Asks
<1>5. ASSUME NEW i \in DOMAIN lines, lines[i].op = "change"
      PROVE  /\ lines[i].value = config[lines[i].tweak]
             /\ lines[i].unless = {} /\ lines[i].now = now
  BY <1>1, <1>2, <1>5
<1>. QED BY <1>3, <1>4, <1>5 DEF lines

LEMMA ProfileJob ==
  ASSUME NEW settings
  PROVE  /\ Made(merge_profile(settings), {"change"})
         /\ \A i \in DOMAIN settings : Asks(merge_profile(settings), "change", settings[i].tweak)
         /\ \A t : Asks(merge_profile(settings), "change", t)
                     => \E i \in DOMAIN settings : settings[i].tweak = t
         /\ \A i \in DOMAIN merge_profile(settings) :
              /\ i \in DOMAIN settings
              /\ merge_profile(settings)[i].tweak = settings[i].tweak
              /\ merge_profile(settings)[i].now
              /\ merge_profile(settings)[i].unless = settings[i].unless
              /\ merge_profile(settings)[i].value = settings[i].value
BY DEF merge_profile, Made, Asks, Call

\* The last change that the settings make of a tweak is that of its last setting.
LEMMA ProfileLast ==
  ASSUME NEW settings \in Seq(Settings), NEW t, NEW m \in DOMAIN merge_profile(settings),
         LastOn(merge_profile(settings), m, t),
         NEW i \in DOMAIN settings, LastSetting(settings, i), settings[i].tweak = t
  PROVE  i = m
<1>1. m \in DOMAIN settings /\ settings[m].tweak = t /\ m \in Nat /\ i \in Nat
  BY ProfileJob, LenProperties DEF LastOn
<1>2. m <= i
  BY <1>1 DEF LastSetting
<1>3. ~(i > m)
  <2>1. i \in DOMAIN merge_profile(settings) /\ merge_profile(settings)[i].op = "change"
        /\ merge_profile(settings)[i].tweak = t
    BY DEF merge_profile, Call
  <2>. QED BY <2>1 DEF LastOn
<1>. QED BY <1>1, <1>2, <1>3

\* The calls, still to be made, leave t at one of the values A.
Decides(calls, t, A) ==
  /\ Asks(calls, "change", t)
  /\ \A m \in DOMAIN calls : LastOn(calls, m, t) =>
       calls[m].now /\ calls[m].unless \cup {calls[m].value} \subseteq A

\* A profile that is opened.
LEMMA ProfileDecides ==
  ASSUME NEW settings \in Seq(Settings), NEW i \in DOMAIN settings, LastSetting(settings, i)
  PROVE  Decides(merge_profile(settings), settings[i].tweak,
                 settings[i].unless \cup {settings[i].value})
<1>. DEFINE calls == merge_profile(settings)
<1>1. Asks(calls, "change", settings[i].tweak)
  BY ProfileJob
<1>2. ASSUME NEW m \in DOMAIN calls, LastOn(calls, m, settings[i].tweak)
      PROVE  calls[m].now /\ calls[m].unless = settings[i].unless /\ calls[m].value = settings[i].value
  <2>1. i = m
    BY <1>2, ProfileLast
  <2>. QED BY <2>1, ProfileJob
<1>. HIDE DEF calls
<1>3. Decides(calls, settings[i].tweak, settings[i].unless \cup {settings[i].value})
  BY <1>1, <1>2 DEF Decides
<1>. QED BY <1>3 DEF calls

\* The lines of the file decide, unless something comes after them.
LEMMA MergeDecides ==
  ASSUME NEW t \in Tweaks, config[t] # None
  PROVE  Decides(merge_config_in_tree(TRUE), t, {config[t]})
<1>. DEFINE calls == merge_config_in_tree(TRUE)
<1>1. Asks(calls, "change", t)
  BY MergeJob
<1>2. ASSUME NEW m \in DOMAIN calls, LastOn(calls, m, t)
      PROVE  calls[m].now /\ calls[m].unless = {} /\ calls[m].value = config[t]
  <2>1. calls[m].op = "change" /\ calls[m].tweak = t
    BY <1>2 DEF LastOn
  <2>2. /\ calls[m].value = config[calls[m].tweak]
        /\ calls[m].unless = {} /\ calls[m].now = TRUE
    BY <2>1, MergeJob
  <2>. QED BY <2>1, <2>2
<1>. HIDE DEF calls
<1>3. Decides(calls, t, {config[t]})
  BY <1>1, <1>2 DEF Decides
<1>. QED BY <1>3 DEF calls

LEMMA LaterDecides ==
  ASSUME NEW S, NEW s \in Seq(S), NEW u \in Seq(S), NEW t, NEW A, Decides(u, t, A)
  PROVE  Decides(s \o u, t, A)
<1>1. Asks(s \o u, "change", t)
  BY ConcatAsks DEF Decides
<1>2. ASSUME NEW m \in DOMAIN (s \o u), LastOn(s \o u, m, t)
      PROVE  (s \o u)[m].now /\ (s \o u)[m].unless \cup {(s \o u)[m].value} \subseteq A
  <2>1. m - Len(s) \in DOMAIN u /\ LastOn(u, m - Len(s), t) /\ (s \o u)[m] = u[m - Len(s)]
    BY <1>2, ConcatLast DEF Decides
  <2>2. u[m - Len(s)].now /\ u[m - Len(s)].unless \cup {u[m - Len(s)].value} \subseteq A
    BY <2>1 DEF Decides
  <2>. QED BY <2>1, <2>2
<1>. QED BY <1>1, <1>2 DEF Decides

LEMMA EarlierDecides ==
  ASSUME NEW S, NEW s \in Seq(S), NEW u \in Seq(S), NEW t, NEW A, Decides(s, t, A),
         ~Asks(u, "change", t)
  PROVE  Decides(s \o u, t, A)
<1>1. Asks(s \o u, "change", t)
  BY ConcatAsks DEF Decides
<1>2. ASSUME NEW m \in DOMAIN (s \o u), LastOn(s \o u, m, t)
      PROVE  (s \o u)[m].now /\ (s \o u)[m].unless \cup {(s \o u)[m].value} \subseteq A
  <2>1. m \in DOMAIN s /\ LastOn(s, m, t) /\ (s \o u)[m] = s[m]
    BY <1>2, ConcatLast
  <2>2. s[m].now /\ s[m].unless \cup {s[m].value} \subseteq A
    BY <2>1 DEF Decides
  <2>. QED BY <2>1, <2>2
<1>. QED BY <1>1, <1>2 DEF Decides

\* What starts a daemon: the registers, the file, the profiles.
starting_calls == (update_tree_values \o merge_config_in_tree(TRUE)) \o load_profiles

\* The settings of the profiles are the last changes of their tweaks, the lines
\* of the file those of the others.
LEMMA StartJob ==
  ASSUME NEW G, GoodInputs(G), ConfigType(G)
  PROVE  /\ starting_calls \in Seq(SafeCalls(G))
         /\ Made(starting_calls, {"raw", "skip", "change"})
         /\ \A t \in Tweaks : FromFile(t) => Decides(starting_calls, t, {config[t]})
         /\ \A i \in DOMAIN Profile : LastSetting(Profile, i) =>
              Decides(starting_calls, Profile[i].tweak, Profile[i].unless \cup {Profile[i].value})
<1>. DEFINE raws == update_tree_values
            lines == merge_config_in_tree(TRUE)
            S == SafeCalls(G)
            all == {"raw", "skip", "change"}
<1>1. raws \in Seq(S) /\ lines \in Seq(S) /\ load_profiles \in Seq(S)
  BY ForAllSafe, MergeSafe, ProfilesSafe DEF update_tree_values
<1>2. Made(raws, {"raw"}) /\ Made(lines, {"skip", "change"}) /\ Made(load_profiles, {"change"})
  BY ForAllJob, MergeJob, ProfileJob DEF update_tree_values, load_profiles
<1>3. \A t \in Tweaks : FromFile(t) => Decides(lines, t, {config[t]})
  BY MergeDecides DEF FromFile
<1>4. \A t \in Tweaks : FromFile(t) => ~Asks(load_profiles, "change", t)
  BY ProfileJob DEF load_profiles, FromFile
<1>5. \A i \in DOMAIN Profile : LastSetting(Profile, i) =>
        Decides(load_profiles, Profile[i].tweak, Profile[i].unless \cup {Profile[i].value})
  BY ProfileDecides, SessionAssumption DEF load_profiles
<1>6. starting_calls = (raws \o lines) \o load_profiles
  BY DEF starting_calls
<1>. HIDE DEF raws, lines, S
<1>7. raws \o lines \in Seq(S) /\ (raws \o lines) \o load_profiles \in Seq(S)
  BY <1>1, ConcatProperties
<1>8. Made((raws \o lines) \o load_profiles, all)
  <2>1. Made(raws, all) /\ Made(lines, all) /\ Made(load_profiles, all)
    BY <1>2 DEF Made
  <2>2. Made(raws \o lines, all)
    BY <1>1, <2>1, ConcatMade
  <2>. QED BY <1>1, <1>7, <2>1, <2>2, ConcatMade
<1>9. ASSUME NEW t \in Tweaks, FromFile(t)
      PROVE  Decides((raws \o lines) \o load_profiles, t, {config[t]})
  <2>1. Decides(raws \o lines, t, {config[t]})
    BY <1>1, <1>3, <1>9, LaterDecides
  <2>. QED BY <1>1, <1>4, <1>7, <1>9, <2>1, EarlierDecides
<1>10. ASSUME NEW i \in DOMAIN Profile, LastSetting(Profile, i)
       PROVE  Decides((raws \o lines) \o load_profiles, Profile[i].tweak,
                      Profile[i].unless \cup {Profile[i].value})
  BY <1>1, <1>5, <1>7, <1>10, LaterDecides
<1>. QED BY <1>6, <1>7, <1>8, <1>9, <1>10 DEF S

\* Reading: everything from the registers, then everything into the widgets.
LEMMA ReadJob ==
  ASSUME NEW S, NEW raws \in Seq(S), NEW gets \in Seq(S),
         Made(raws, {"raw"}), \A t \in Tweaks : Asks(raws, "raw", t),
         Made(gets, {"get"}), \A t \in Tweaks : Asks(gets, "get", t)
  PROVE  /\ Made(raws \o gets, {"raw", "get"}) /\ NoneAfter(raws \o gets, "get", "raw")
         /\ \A t \in Tweaks : Asks(raws \o gets, "raw", t) /\ Asks(raws \o gets, "get", t)
<1>1. Made(raws, {"raw", "get"}) /\ Made(gets, {"raw", "get"})
  BY DEF Made
<1>2. Made(raws \o gets, {"raw", "get"})
  BY <1>1, ConcatMade
<1>3. NoneAfter(gets, "get", "raw")
  BY MadeNoneAfter
<1>4. NoneAfter(raws \o gets, "get", "raw")
  BY <1>3, ConcatNoneAfter
<1>5. \A t \in Tweaks : Asks(raws \o gets, "raw", t) /\ Asks(raws \o gets, "get", t)
  BY ConcatAsks
<1>. QED BY <1>2, <1>4, <1>5

\* Apply and Save begin by sending the widgets.
LEMMA SendJob ==
  ASSUME NEW S, NEW gui \in Seq(S), NEW rest \in Seq(S), NEW vals, NEW now,
         \A t \in Tweaks : Asks(gui, "change", t), Carries(gui, vals, now),
         NEW ops, Made(rest, ops), "change" \notin ops
  PROVE  Carries(gui \o rest, vals, now) /\ \A t \in Tweaks : Asks(gui \o rest, "change", t)
<1>1. \A t \in Tweaks : Asks(gui \o rest, "change", t)
  BY ConcatAsks
<1>2. ASSUME NEW i \in DOMAIN (gui \o rest), (gui \o rest)[i].op = "change"
      PROVE  i \in DOMAIN gui /\ (gui \o rest)[i] = gui[i]
  BY <1>2, ConcatIndex DEF Made
<1>3. Carries(gui \o rest, vals, now)
  BY <1>2 DEF Carries
<1>. QED BY <1>1, <1>3

LEMMA ApplyJob ==
  ASSUME UniqueNames, NEW S, NEW p \in Procs, GuiToDaemon(p, TRUE) \in Seq(S),
         NEW gets \in Seq(S), Made(gets, {"get"})
  PROVE  /\ Made(GuiToDaemon(p, TRUE) \o gets, {"change", "get"})
         /\ NoneAfter(GuiToDaemon(p, TRUE) \o gets, "get", "change")
         /\ Carries(GuiToDaemon(p, TRUE) \o gets, temp[p], TRUE)
         /\ \A t \in Tweaks : Asks(GuiToDaemon(p, TRUE) \o gets, "change", t)
<1>. DEFINE gui == GuiToDaemon(p, TRUE)
<1>1. gui \in Seq(S) /\ Made(gui, {"change"}) /\ \A t \in Tweaks : Asks(gui, "change", t)
  BY GuiJob
<1>0. Carries(gui, temp[p], TRUE)
  BY GuiJob
<1>. HIDE DEF gui
<1>2. "change" \notin {"get"}
  OBVIOUS
<1>3. Carries(gui \o gets, temp[p], TRUE) /\ \A t \in Tweaks : Asks(gui \o gets, "change", t)
  BY <1>0, <1>1, <1>2, SendJob
<1>4. Made(gui, {"change", "get"}) /\ Made(gets, {"change", "get"})
  BY <1>1 DEF Made
<1>5. Made(gui \o gets, {"change", "get"})
  BY <1>1, <1>4, ConcatMade
<1>6. NoneAfter(gets, "get", "change")
  BY MadeNoneAfter
<1>7. NoneAfter(gui \o gets, "get", "change")
  BY <1>1, <1>6, ConcatNoneAfter
<1>. QED BY <1>3, <1>5, <1>7 DEF gui

\* The file is opened and gets its lines.
LEMMA FileJob ==
  ASSUME NEW G
  PROVE  /\ save_tree_to_config \in Seq(SafeCalls(G))
         /\ Made(save_tree_to_config, {"truncate", "put"})
         /\ NoneAfter(save_tree_to_config, "put", "truncate")
         /\ \A t \in Tweaks : Asks(save_tree_to_config, "put", t)
<1>. DEFINE first == Call("truncate", Order[1], {}, {}, FALSE)
            puts == ForAll("put")
            S == SafeCalls(G)
<1>1. puts \in Seq(S) /\ Made(puts, {"put"}) /\ \A t \in Tweaks : Asks(puts, "put", t)
  BY ForAllSafe, ForAllJob
<1>2. first \in S
  <2>1. \E i \in DOMAIN Order : TRUE
    BY SessionAssumption
  <2>2. 1 \in DOMAIN Order
    BY <2>1, SessionAssumption, LenProperties
  <2>. QED BY <2>2, OrderTweaks, OtherCall
<1>3. Made(<<first>>, {"truncate"})
  BY DEF Made, Call
<1>4. save_tree_to_config = <<first>> \o puts
  BY DEF save_tree_to_config
<1>. HIDE DEF first, puts, S
<1>5. <<first>> \in Seq(S)
  BY <1>2
<1>6. Made(<<first>>, {"truncate", "put"}) /\ Made(puts, {"truncate", "put"})
  BY <1>1, <1>3 DEF Made
<1>7. Made(<<first>> \o puts, {"truncate", "put"})
  BY <1>1, <1>5, <1>6, ConcatMade
<1>8. NoneAfter(puts, "put", "truncate")
  BY <1>1, MadeNoneAfter
<1>9. NoneAfter(<<first>> \o puts, "put", "truncate")
  BY <1>1, <1>3, <1>5, <1>8, ConcatNoneAfter
<1>10. \A t \in Tweaks : Asks(<<first>> \o puts, "put", t)
  BY <1>1, <1>5, ConcatAsks
<1>. QED BY <1>4, <1>7, <1>9, <1>10, SaveSafe

LEMMA SaveJob ==
  ASSUME UniqueNames, NEW G, NEW p \in Procs, GuiToDaemon(p, FALSE) \in Seq(SafeCalls(G))
  PROVE  LET calls == GuiToDaemon(p, FALSE) \o save_tree_to_config IN
         /\ Made(calls, {"change", "truncate", "put"})
         /\ NoneAfter(calls, "truncate", "change") /\ NoneAfter(calls, "put", "change")
         /\ NoneAfter(calls, "put", "truncate")
         /\ Carries(calls, temp[p], FALSE)
         /\ \A t \in Tweaks : Asks(calls, "change", t) /\ Asks(calls, "put", t)
<1>. DEFINE gui == GuiToDaemon(p, FALSE)
            file == save_tree_to_config
            S == SafeCalls(G)
            all == {"change", "truncate", "put"}
<1>1. gui \in Seq(S) /\ Made(gui, {"change"}) /\ \A t \in Tweaks : Asks(gui, "change", t)
  BY GuiJob
<1>0. Carries(gui, temp[p], FALSE)
  BY GuiJob
<1>2. file \in Seq(S) /\ Made(file, {"truncate", "put"}) /\ NoneAfter(file, "put", "truncate")
      /\ \A t \in Tweaks : Asks(file, "put", t)
  BY FileJob
<1>. HIDE DEF gui, file, S
<1>3. "change" \notin {"truncate", "put"}
  OBVIOUS
<1>4. Carries(gui \o file, temp[p], FALSE) /\ \A t \in Tweaks : Asks(gui \o file, "change", t)
  BY <1>0, <1>1, <1>2, <1>3, SendJob
<1>5. Made(gui, all) /\ Made(file, all)
  BY <1>1, <1>2 DEF Made
<1>6. Made(gui \o file, all)
  BY <1>1, <1>2, <1>5, ConcatMade
<1>7. NoneAfter(file, "truncate", "change") /\ NoneAfter(file, "put", "change")
  BY <1>2, MadeNoneAfter
<1>8. NoneAfter(gui \o file, "truncate", "change") /\ NoneAfter(gui \o file, "put", "change")
      /\ NoneAfter(gui \o file, "put", "truncate")
  BY <1>1, <1>2, <1>7, ConcatNoneAfter
<1>9. \A t \in Tweaks : Asks(gui \o file, "put", t)
  BY <1>1, <1>2, ConcatAsks
<1>. QED BY <1>4, <1>6, <1>8, <1>9 DEF gui, file

-----------------------------------------------------------------------------
(* The operations *)

\* A process that begins, ends or leaves something, or is left alone.
LEMMA IdleHolds ==
  ASSUME NEW G, TypeInv(G), NEW p \in Procs, phase[p] \notin Busy
  PROVE  job[p] = <<>> /\ hold[p] = None
BY DEF TypeInv, HoldType

LEMMA BeginEffect ==
  ASSUME NEW G, TypeInv(G), NEW p \in Procs, NEW ph, NEW calls,
         Begin(p, ph, calls), UNCHANGED <<values, edited>>
  PROVE  /\ phase'[p] = ph /\ job'[p] = calls /\ done'[p] = "none" /\ clean'[p]
         /\ ph \notin {"starting", "connecting", "refreshing"} => fresh'[p] = fresh[p]
         /\ UNCHANGED <<reg, config, hold, pvt, temp, edited>>
         /\ \A q \in Procs : q # p => Same(q) /\ Unharmed(q)
<1>1. UNCHANGED <<reg, config, hold, pvt, temp, edited>>
  BY DEF Begin, values
<1>2. \A q \in Procs : /\ phase'[q] = IF q = p THEN ph ELSE phase[q]
                       /\ job'[q] = IF q = p THEN calls ELSE job[q]
                       /\ done'[q] = IF q = p THEN "none" ELSE done[q]
                       /\ clean'[q] = IF q = p THEN TRUE ELSE clean[q]
  BY DEF Begin, TypeInv, HoldType, JobType, HistoryType
<1>3. \A q \in Procs : q # p => fresh'[q] = fresh[q]
  BY DEF Begin, TypeInv, HistoryType
<1>4. ph \notin {"starting", "connecting", "refreshing"} => fresh'[p] = fresh[p]
  BY DEF Begin
<1>. QED BY <1>1, <1>2, <1>3, <1>4 DEF Same, Unharmed

LEMMA BeginContract ==
  ASSUME ExactInputs, ContractInv, TypeInv(ExactValues)', NEW p \in Procs, phase[p] \notin Busy,
         NEW ph \in Busy, NEW calls, Begin(p, ph, calls), UNCHANGED <<values, edited>>,
         Opened = <<>> => ph # "opening", ph \in {"applying", "saving"} => phase[p] = "ui",
         WorkInv(p)'
  PROVE  ContractInv'
<1>1. TypeInv(ExactValues) /\ FreshInv(p) /\ hold[p] = None
  BY IdleHolds DEF ContractInv, ProcInv
<1>2. /\ phase'[p] = ph /\ done'[p] = "none" /\ clean'[p]
      /\ ph \notin {"starting", "connecting", "refreshing"} => fresh'[p] = fresh[p]
      /\ UNCHANGED <<reg, config, hold, pvt, temp, edited>>
      /\ \A q \in Procs : q # p => Same(q) /\ Unharmed(q)
  BY <1>1, BeginEffect
<1>3. HoldInv(p)'
  BY <1>1, <1>2 DEF HoldInv
<1>4. DoneInv(p)'
  BY <1>2 DEF DoneInv, Promise
<1>5. FreshInv(p)'
  <2>1. \A t : InEffect(t)' = InEffect(t)
    BY <1>2 DEF InEffect
  <2>2. phase'[p] \in {"ui", "applying", "saving"} =>
          phase[p] = "ui" /\ fresh'[p] = fresh[p]
    BY <1>2 DEF Busy
  <2>. QED BY <1>1, <1>2, <2>1, <2>2 DEF FreshInv
<1>6. \A q \in Procs : q # p => ProcInv(q)'
  BY <1>2, BystanderKept DEF ContractInv
<1>. QED BY <1>3, <1>4, <1>5, <1>6 DEF ContractInv, ProcInv

LEMMA StartContract ==
  ASSUME ExactInputs, ContractInv, TypeInv(ExactValues)', NEW p \in Procs, Start(p) \/ Reload(p)
  PROVE  ContractInv'
<1>0. TypeInv(ExactValues) /\ GoodInputs(ExactValues) /\ ConfigType(ExactValues)
  BY ExactGood DEF ContractInv, TypeInv
<1>1. PICK calls : Begin(p, "starting", calls) /\ (p \in Daemons => calls = starting_calls)
  <2>1. CASE Start(p)
    <3>. DEFINE all == update_tree_values \o merge_config_in_tree(p \in Daemons)
                         \o load_profiles \o (IF p \in Locals THEN fill_frame ELSE <<>>)
    <3>1. Begin(p, "starting", all)
      BY <2>1 DEF Start
    <3>2. ASSUME p \in Daemons PROVE all = starting_calls
      <4>1. p \notin Locals /\ (p \in Daemons) = TRUE
        BY <3>2, SessionAssumption
      <4>2. all = starting_calls \o <<>>
        BY <4>1 DEF starting_calls
      <4>3. starting_calls \in Seq(SafeCalls(ExactValues))
        BY <1>0, StartJob
      <4>. QED BY <4>2, <4>3, ConcatEmptySeq
    <3>. HIDE DEF all
    <3>. QED BY <3>1, <3>2
  <2>2. CASE Reload(p)
    BY <2>2 DEF Reload, starting_calls
  <2>. QED BY <2>1, <2>2
<1>2. phase[p] \notin Busy /\ UNCHANGED <<values, edited>>
  BY DEF Start, Reload, Busy
<1>3. phase'[p] = "starting" /\ job'[p] = calls /\ config' = config
  BY <1>0, <1>1, <1>2, BeginEffect
<1>4. ASSUME p \in Daemons PROVE StartInv(p)'
  <2>1. job'[p] = starting_calls
    BY <1>1, <1>3, <1>4
  <2>2. Made(job'[p], {"raw", "skip", "change"})
    BY <1>0, <2>1, StartJob
  <2>3. ASSUME NEW t \in Tweaks, FromFile(t)'
        PROVE  Settles(p, t, {config[t]})'
    <3>1. FromFile(t)
      BY <1>3, <2>3 DEF FromFile
    <3>2. Decides(starting_calls, t, {config[t]})
      BY <1>0, <3>1, StartJob
    <3>. QED BY <1>3, <2>1, <3>2 DEF Decides, Settles
  <2>4. SettlesAll(p, Profile)'
    <3>1. ASSUME NEW i \in DOMAIN Profile, LastSetting(Profile, i)
          PROVE  Settles(p, Profile[i].tweak, Profile[i].unless \cup {Profile[i].value})'
      <4>1. Decides(starting_calls, Profile[i].tweak, Profile[i].unless \cup {Profile[i].value})
        BY <1>0, <3>1, StartJob
      <4>. QED BY <2>1, <4>1 DEF Decides, Settles
    <3>. QED BY <3>1 DEF SettlesAll
  <2>. QED BY <2>2, <2>3, <2>4 DEF StartInv
<1>5. WorkInv(p)'
  BY <1>3, <1>4 DEF WorkInv
<1>. QED BY <1>1, <1>2, <1>5, BeginContract DEF Busy

LEMMA ReadContract ==
  ASSUME ExactInputs, ContractInv, TypeInv(ExactValues)', NEW p \in Procs, Connect(p) \/ Refresh(p)
  PROVE  ContractInv'
<1>. DEFINE S == SafeCalls(ExactValues)
<1>0. TypeInv(ExactValues) /\ GoodInputs(ExactValues) /\ UniqueNames
  BY ExactGood DEF ContractInv, ExactInputs
<1>1. PICK ph \in {"connecting", "refreshing"}, raws \in Seq(S), gets \in Seq(S) :
        /\ Begin(p, ph, raws \o gets)
        /\ Made(raws, {"raw"}) /\ \A t \in Tweaks : Asks(raws, "raw", t)
        /\ Made(gets, {"get"}) /\ \A t \in Tweaks : Asks(gets, "get", t)
  <2>1. CASE Connect(p)
    <3>1. Begin(p, "connecting", update_tree_values \o fill_frame)
      BY <2>1 DEF Connect
    <3>2. update_tree_values \in Seq(S) /\ fill_frame \in Seq(S)
      BY ForAllSafe DEF update_tree_values, fill_frame
    <3>3. Made(update_tree_values, {"raw"}) /\ (\A t \in Tweaks : Asks(update_tree_values, "raw", t))
          /\ Made(fill_frame, {"get"}) /\ \A t \in Tweaks : Asks(fill_frame, "get", t)
      BY ForAllJob DEF update_tree_values, fill_frame
    <3>. HIDE DEF S
    <3>. QED BY <3>1, <3>2, <3>3
  <2>2. CASE Refresh(p)
    <3>1. Begin(p, "refreshing", RefreshValuesFromDaemon(p) \o update_GTK_tree_values)
      BY <2>2 DEF Refresh
    <3>2. RefreshValuesFromDaemon(p) \in Seq(S) /\ update_GTK_tree_values \in Seq(S)
      BY <1>0, RefreshSafe, UpdateSafe
    <3>3. Made(RefreshValuesFromDaemon(p), {"raw"})
          /\ (\A t \in Tweaks : Asks(RefreshValuesFromDaemon(p), "raw", t))
          /\ Made(update_GTK_tree_values, {"get"})
          /\ \A t \in Tweaks : Asks(update_GTK_tree_values, "get", t)
      BY <1>0, RefreshJob, UpdateJob
    <3>. HIDE DEF S
    <3>. QED BY <3>1, <3>2, <3>3
  <2>. QED BY <2>1, <2>2
<1>2. phase[p] \notin Busy /\ UNCHANGED <<values, edited>>
  BY DEF Connect, Refresh, Busy
<1>3. phase'[p] = ph /\ job'[p] = raws \o gets
  BY <1>0, <1>1, <1>2, BeginEffect
<1>. HIDE DEF S
<1>4. /\ Made(raws \o gets, {"raw", "get"}) /\ NoneAfter(raws \o gets, "get", "raw")
      /\ \A t \in Tweaks : Asks(raws \o gets, "raw", t) /\ Asks(raws \o gets, "get", t)
  BY <1>1, ReadJob
<1>5. ReadInv(p)'
  BY <1>3, <1>4 DEF ReadInv
<1>6. WorkInv(p)'
  BY <1>3, <1>5 DEF WorkInv
<1>. QED BY <1>1, <1>2, <1>6, BeginContract DEF Busy

LEMMA ApplyContract ==
  ASSUME ExactInputs, ContractInv, TypeInv(ExactValues)', NEW p \in Procs, Apply(p)
  PROVE  ContractInv'
<1>. DEFINE S == SafeCalls(ExactValues)
            gets == IF p \in Textual THEN <<>> ELSE update_GTK_tree_values
<1>0. TypeInv(ExactValues) /\ GoodInputs(ExactValues) /\ UniqueNames
  BY ExactGood DEF ContractInv, ExactInputs
<1>1. Begin(p, "applying", GuiToDaemon(p, TRUE) \o gets) /\ phase[p] = "ui"
      /\ UNCHANGED <<values, edited>>
  BY DEF Apply
<1>2. gets \in Seq(S) /\ Made(gets, {"get"})
  <2>1. <<>> \in Seq(S) /\ Made(<<>>, {"get"})
    BY EmptySeq DEF Made
  <2>. QED BY <2>1, UpdateSafe, UpdateJob
<1>3. GuiToDaemon(p, TRUE) \in Seq(S)
  BY <1>0, GuiSafe DEF TypeInv
<1>. HIDE DEF S, gets
<1>4. phase'[p] = "applying" /\ job'[p] = GuiToDaemon(p, TRUE) \o gets /\ temp' = temp
  BY <1>0, <1>1, BeginEffect
<1>5. /\ Made(job'[p], {"change", "get"}) /\ NoneAfter(job'[p], "get", "change")
      /\ Carries(job'[p], temp[p], TRUE)
      /\ \A t \in Tweaks : Asks(job'[p], "change", t)
  BY <1>0, <1>2, <1>3, <1>4, ApplyJob
<1>6. Sends(p, TRUE)'
  BY <1>4, <1>5 DEF Sends, Carries
<1>7. ApplyInv(p)'
  BY <1>5, <1>6 DEF ApplyInv
<1>8. WorkInv(p)'
  BY <1>4, <1>7 DEF WorkInv
<1>. QED BY <1>1, <1>8, BeginContract DEF Busy

LEMMA SaveContract ==
  ASSUME ExactInputs, ContractInv, TypeInv(ExactValues)', NEW p \in Procs, Save(p)
  PROVE  ContractInv'
<1>. DEFINE calls == GuiToDaemon(p, FALSE) \o save_tree_to_config
<1>0. TypeInv(ExactValues) /\ GoodInputs(ExactValues) /\ UniqueNames
  BY ExactGood DEF ContractInv, ExactInputs
<1>1. Begin(p, "saving", calls) /\ phase[p] = "ui" /\ UNCHANGED <<values, edited>>
  BY DEF Save
<1>2. GuiToDaemon(p, FALSE) \in Seq(SafeCalls(ExactValues))
  BY <1>0, GuiSafe DEF TypeInv
<1>3. /\ Made(calls, {"change", "truncate", "put"})
      /\ NoneAfter(calls, "truncate", "change") /\ NoneAfter(calls, "put", "change")
      /\ NoneAfter(calls, "put", "truncate")
      /\ Carries(calls, temp[p], FALSE)
      /\ \A t \in Tweaks : Asks(calls, "change", t) /\ Asks(calls, "put", t)
  BY <1>0, <1>2, SaveJob
<1>. HIDE DEF calls
<1>4. phase'[p] = "saving" /\ job'[p] = calls /\ temp' = temp
  BY <1>0, <1>1, BeginEffect
<1>5. Sends(p, FALSE)'
  BY <1>3, <1>4 DEF Sends, Carries
<1>6. SaveInv(p)'
  BY <1>3, <1>4, <1>5 DEF SaveInv
<1>7. WorkInv(p)'
  BY <1>4, <1>6 DEF WorkInv
<1>. QED BY <1>1, <1>7, BeginContract DEF Busy

LEMMA OpenContract ==
  ASSUME ExactInputs, ContractInv, TypeInv(ExactValues)', NEW p \in Procs, OpenProfile(p)
  PROVE  ContractInv'
<1>. DEFINE calls == merge_profile(Opened)
<1>0. TypeInv(ExactValues)
  BY DEF ContractInv
<1>1. Begin(p, "opening", calls) /\ phase[p] = "ui" /\ Opened # <<>> /\ UNCHANGED <<values, edited>>
  BY DEF OpenProfile
<1>2. Made(calls, {"change"})
  BY ProfileJob
<1>3. \A i \in DOMAIN Opened : LastSetting(Opened, i) =>
        Decides(calls, Opened[i].tweak, Opened[i].unless \cup {Opened[i].value})
  BY ProfileDecides, SessionAssumption
<1>. HIDE DEF calls
<1>4. phase'[p] = "opening" /\ job'[p] = calls
  BY <1>0, <1>1, BeginEffect
<1>5. SettlesAll(p, Opened)'
  <2>1. ASSUME NEW i \in DOMAIN Opened, LastSetting(Opened, i)
        PROVE  Settles(p, Opened[i].tweak, Opened[i].unless \cup {Opened[i].value})'
    BY <1>3, <1>4, <2>1 DEF Decides, Settles
  <2>. QED BY <2>1 DEF SettlesAll
<1>6. OpenInv(p)'
  BY <1>2, <1>4, <1>5 DEF OpenInv
<1>7. WorkInv(p)'
  BY <1>4, <1>6 DEF WorkInv
<1>. QED BY <1>1, <1>7, BeginContract DEF Busy

\* A handler that has nothing left to do has kept its promise.
LEMMA FinishKeeps ==
  ASSUME NEW p \in Procs, WorkInv(p), clean[p], job[p] = <<>>
  PROVE  Promise(p, phase[p])
<1>1. \A op, t : ~Asks(job[p], op, t)
  BY DEF Asks
<1>2. \A t, A : Settles(p, t, A) => InEffect(t) \in A
  BY <1>1 DEF Settles
<1>3. \A settings : SettlesAll(p, settings) => LastSettingsHold(settings)
  BY <1>2 DEF SettlesAll, LastSetting, LastSettingsHold, InEffect
<1>4. phase[p] = "starting" /\ p \in Daemons =>
        (\A t \in Tweaks : FromFile(t) => InEffect(t) = config[t]) /\ LastSettingsHold(Profile)
  BY <1>2, <1>3 DEF WorkInv, StartInv
<1>5. phase[p] \in {"connecting", "refreshing", "applying"} => \A t \in Tweaks : InEffect(t) = temp[p][t]
  BY <1>1 DEF WorkInv, ReadInv, ApplyInv
<1>6. phase[p] = "saving" => \A t \in Tweaks : config[t] = temp[p][t]
  BY <1>1 DEF WorkInv, SaveInv
<1>7. phase[p] = "opening" => LastSettingsHold(Opened)
  BY <1>3 DEF WorkInv, OpenInv
<1>. QED BY <1>4, <1>5, <1>6, <1>7 DEF Promise

LEMMA FinishContract ==
  ASSUME ExactInputs, ContractInv, TypeInv(ExactValues)', NEW p \in Procs, Finish(p)
  PROVE  ContractInv'
<1>1. TypeInv(ExactValues) /\ FreshInv(p) /\ WorkInv(p) /\ job[p] = <<>> /\ phase[p] \in Busy
  BY DEF ContractInv, ProcInv, Finish
<1>2. hold[p] = None
  BY <1>1 DEF TypeInv, HoldType
<1>3. /\ \A q \in Procs : q # p => phase'[q] = phase[q] /\ done'[q] = done[q]
      /\ phase'[p] = (IF phase[p] = "starting" /\ p \in Daemons THEN "serving" ELSE "ui")
      /\ done'[p] = (IF clean[p] THEN phase[p] ELSE "none")
      /\ UNCHANGED <<reg, config, job, hold, pvt, temp, clean, fresh, edited>>
  BY <1>1 DEF Finish, TypeInv, HoldType, HistoryType, values
<1>4. phase'[p] \notin Busy /\ phase'[p] \in {"serving", "ui"}
  BY <1>3 DEF Busy
<1>5. HoldInv(p)'
  BY <1>2, <1>3 DEF HoldInv
<1>6. WorkInv(p)'
  BY <1>4 DEF WorkInv
<1>7. \A t : InEffect(t)' = InEffect(t)
  BY <1>3 DEF InEffect
<1>8. DoneInv(p)'
  <2>1. CASE clean[p]
    <3>1. Promise(p, phase[p])
      BY <1>1, <2>1, FinishKeeps
    <3>2. done'[p] = phase[p]
      BY <1>3, <2>1
    <3>3. LastSettingsHold(Profile)' = LastSettingsHold(Profile)
          /\ LastSettingsHold(Opened)' = LastSettingsHold(Opened)
          /\ \A t : FromFile(t)' = FromFile(t)
      BY <1>3 DEF LastSettingsHold, FromFile
    <3>4. Promise(p, done[p])'
      BY <1>3, <1>7, <3>1, <3>2, <3>3 DEF Promise
    <3>. QED BY <1>4, <3>4 DEF DoneInv
  <2>2. CASE ~clean[p]
    BY <1>3, <2>2 DEF DoneInv, Promise
  <2>. QED BY <2>1, <2>2
<1>9. FreshInv(p)'
  <2>1. ASSUME Opened = <<>>, p \in Daemons, phase'[p] \in {"ui", "applying", "saving"}, fresh'[p],
               NEW t \in Tweaks, t \notin edited'[p]
        PROVE  temp'[p][t] = InEffect(t)'
    <3>1. fresh[p] /\ clean[p] /\ t \notin edited[p]
      BY <1>1, <1>3, <2>1 DEF FreshInv
    <3>2. phase[p] \in {"connecting", "refreshing", "applying", "saving"}
      BY <1>1, <1>3, <2>1 DEF FreshInv, Busy
    <3>3. CASE phase[p] \in {"connecting", "refreshing"}
      <4>1. InEffect(t) = temp[p][t]
        BY <1>1, <3>1, <3>3, FinishKeeps DEF Promise
      <4>. QED BY <1>3, <1>7, <4>1
    <3>4. CASE phase[p] \in {"applying", "saving"}
      BY <1>1, <1>3, <1>7, <2>1, <3>1, <3>4 DEF FreshInv
    <3>. QED BY <3>2, <3>3, <3>4
  <2>. QED BY <1>1, <1>3, <1>4, <2>1 DEF FreshInv, Busy
<1>10. \A q \in Procs : q # p => ProcInv(q)'
  BY <1>3, BystanderKept DEF ContractInv, Same, Unharmed
<1>. QED BY <1>5, <1>6, <1>8, <1>9, <1>10 DEF ContractInv, ProcInv

LEMMA LeaveContract ==
  ASSUME ExactInputs, ContractInv, TypeInv(ExactValues)', NEW p \in Procs, Quit(p) \/ Die(p)
  PROVE  ContractInv'
<1>1. TypeInv(ExactValues) /\ FreshInv(p)
  BY DEF ContractInv, ProcInv
<1>2. /\ \A q \in Procs : q # p =>
           UNCHANGED <<phase[q], job[q], hold[q], done[q], edited[q]>>
      /\ phase'[p] \in {"serving", "down"} /\ done'[p] = "none"
      /\ UNCHANGED <<reg, config, pvt, temp, clean, fresh>>
  BY <1>1 DEF Quit, Die, TypeInv, HoldType, JobType, HistoryType, values
<1>3. hold'[p] = None
  <2>1. CASE Quit(p)
    BY <1>1, <2>1, IdleHolds DEF Quit, Busy
  <2>2. CASE Die(p)
    BY <1>1, <2>2 DEF Die, TypeInv, HoldType
  <2>. QED BY <2>1, <2>2
<1>4. HoldInv(p)' /\ WorkInv(p)' /\ DoneInv(p)'
  BY <1>2, <1>3 DEF HoldInv, WorkInv, DoneInv, Promise
<1>5. FreshInv(p)'
  BY <1>1, <1>2 DEF FreshInv
<1>6. \A q \in Procs : q # p => ProcInv(q)'
  BY <1>2, BystanderKept DEF ContractInv, Same, Unharmed
<1>. QED BY <1>4, <1>5, <1>6 DEF ContractInv, ProcInv

LEMMA EditContract ==
  ASSUME ExactInputs, ContractInv, TypeInv(ExactValues)', NEW p \in Procs, Edit(p)
  PROVE  ContractInv'
<1>1. TypeInv(ExactValues) /\ FreshInv(p) /\ hold[p] = None /\ phase[p] = "ui"
  BY IdleHolds DEF ContractInv, ProcInv, Edit, Busy
<1>2. PICK t \in Tweaks : \E v : /\ temp' = [temp EXCEPT ![p][t] = v]
                                  /\ edited' = [edited EXCEPT ![p] = @ \cup {t}]
  BY DEF Edit
<1>3. /\ \A q \in Procs : q # p => temp'[q] = temp[q] /\ edited'[q] = edited[q]
      /\ edited'[p] = edited[p] \cup {t}
      /\ \A u \in Tweaks : u # t => temp'[p][u] = temp[p][u]
  BY <1>1, <1>2 DEF TypeInv, TreeType, HistoryType
<1>4. /\ \A q \in Procs : q # p => done'[q] = done[q]
      /\ done'[p] = "none"
      /\ UNCHANGED <<reg, config, phase, job, hold, pvt, clean, fresh>>
  BY <1>1 DEF Edit, TypeInv, HistoryType
<1>5. HoldInv(p)' /\ WorkInv(p)' /\ DoneInv(p)'
  BY <1>1, <1>4 DEF HoldInv, WorkInv, DoneInv, Promise
<1>6. FreshInv(p)'
  BY <1>1, <1>3, <1>4 DEF FreshInv, InEffect
<1>7. \A q \in Procs : q # p => ProcInv(q)'
  BY <1>3, <1>4, BystanderKept DEF ContractInv, Same, Unharmed
<1>. QED BY <1>5, <1>6, <1>7 DEF ContractInv, ProcInv

LEMMA ContractInit ==
  ASSUME ExactInputs, Init
  PROVE  ContractInv
<1>1. TypeInv(ExactValues)
  BY ExactGood, TypeInit
<1>2. ASSUME NEW p \in Procs PROVE ProcInv(p)
  <2>1. phase[p] = "down" /\ hold[p] = None /\ done[p] = "none" /\ clean[p] /\ fresh[p]
    BY DEF Init
  <2>. QED BY <2>1 DEF ProcInv, HoldInv, WorkInv, DoneInv, Promise, FreshInv
<1>. QED BY <1>1, <1>2 DEF ContractInv

LEMMA ContractStep ==
  ASSUME ExactInputs, ContractInv, [Next]_vars
  PROVE  ContractInv'
<1>0. TypeInv(ExactValues)'
  BY ExactGood, TypeStep DEF ContractInv
<1>1. CASE UNCHANGED vars \/ Elsewhere
  <2>1. ASSUME NEW q \in Procs PROVE Same(q) /\ Unharmed(q)
    BY <1>1 DEF vars, values, history, Elsewhere, Same, Unharmed
  <2>. QED BY <1>0, <2>1, BystanderKept DEF ContractInv
<1>2. ASSUME NEW p \in Procs,
             \/ GetValueRaw(p) \/ GetValue(p) \/ Skip(p) \/ ChangeValue(p)
             \/ WriteBack(p) \/ Truncate(p) \/ Put(p)
      PROVE  ContractInv'
  BY <1>0, <1>2, CallContract
<1>3. ASSUME NEW p \in Procs,
             \/ Start(p) \/ Reload(p) \/ Connect(p) \/ Refresh(p) \/ Apply(p) \/ Save(p)
             \/ OpenProfile(p)
      PROVE  ContractInv'
  BY <1>0, <1>3, StartContract, ReadContract, ApplyContract, SaveContract, OpenContract
<1>4. ASSUME NEW p \in Procs, Edit(p) \/ Finish(p) \/ Quit(p) \/ Die(p)
      PROVE  ContractInv'
  BY <1>0, <1>4, EditContract, FinishContract, LeaveContract
<1>. QED BY <1>1, <1>2, <1>3, <1>4, Zenon DEF Next, Step

LEMMA ContractAlways ==
  ASSUME ExactInputs
  PROVE  Spec => []ContractInv
<1>1. Init => ContractInv
  BY ContractInit
<1>2. ContractInv /\ [Next]_vars => ContractInv'
  BY ContractStep
<1>. QED BY <1>1, <1>2, PTL DEF Spec

\* When Apply is over and nobody has interfered, every widget's value is in
\* effect, whatever the registers held before, also where several tweaks share
\* a register and the writes of one went through it after those of another.
THEOREM AppliedIsInEffectAlways ==
  ASSUME ExactInputs
  PROVE  Spec => []AppliedIsInEffect
<1>1. ContractInv => AppliedIsInEffect
  BY DEF ContractInv, ProcInv, DoneInv, Promise, AppliedIsInEffect, InEffect
<1>. QED BY <1>1, ContractAlways, PTL

\* A GUI that has connected or refreshed shows the system.
THEOREM WidgetsShowSystemAlways ==
  ASSUME ExactInputs
  PROVE  Spec => []WidgetsShowSystem
<1>1. ContractInv => WidgetsShowSystem
  BY DEF ContractInv, ProcInv, DoneInv, Promise, WidgetsShowSystem, InEffect
<1>. QED BY <1>1, ContractAlways, PTL

\* A daemon that has started or reloaded has put the file in effect, and over it
\* the profiles, the last setting of a tweak being the one that counts.
THEOREM StartAppliesConfigAlways ==
  ASSUME ExactInputs
  PROVE  Spec => []StartAppliesConfig
<1>1. ContractInv => StartAppliesConfig
  BY DEF ContractInv, ProcInv, DoneInv, Promise, StartAppliesConfig, FromFile, InEffect, Procs
<1>. QED BY <1>1, ContractAlways, PTL

\* When Save is over the file has the value of every widget and nothing else,
\* whichever of them had been handed over before.
THEOREM SaveStoresWidgetsAlways ==
  ASSUME ExactInputs
  PROVE  Spec => []SaveStoresWidgets
<1>1. ASSUME ContractInv PROVE SaveStoresWidgets
  <2>1. ASSUME NEW p \in Procs, done[p] = "saving"
        PROVE  config = temp[p]
    <3>1. \A t \in Tweaks : config[t] = temp[p][t]
      BY <1>1, <2>1 DEF ContractInv, ProcInv, DoneInv, Promise
    <3>2. config \in [Tweaks -> {None} \cup Values] /\ temp[p] \in [Tweaks -> Values]
      BY <1>1 DEF ContractInv, TypeInv, ConfigType, Configs, TreeType
    <3>. QED BY <3>1, <3>2
  <2>. QED BY <2>1 DEF SaveStoresWidgets
<1>. QED BY <1>1, ContractAlways, PTL

\* When a profile has been opened its settings are in effect, also those that a
\* stored value already satisfied that the system no longer had.
THEOREM OpenedProfileIsInEffectAlways ==
  ASSUME ExactInputs
  PROVE  Spec => []OpenedProfileIsInEffect
<1>1. Textual \subseteq Procs
  BY SessionAssumption
<1>2. ContractInv => OpenedProfileIsInEffect
  BY <1>1 DEF ContractInv, ProcInv, DoneInv, Promise, OpenedProfileIsInEffect
<1>. QED BY <1>2, ContractAlways, PTL

\* Apply sends every widget of the tree, but what it writes for a tweak that the
\* user has not touched is what the register has, as long as nobody interferes.
\* A text interface that opens a profile leaves its widgets as they are, and the
\* next Apply takes the profile back: none is opened here.
THEOREM ApplyKeepsUneditedAlways ==
  ASSUME ExactInputs, Opened = <<>>
  PROVE  Spec => ApplyKeepsUnedited
<1>. DEFINE Keeps(p) ==
       phase[p] = "applying" /\ hold[p] # None /\ hold'[p] = None
         /\ phase'[p] # "down" /\ fresh[p] /\ p \in Daemons
         /\ Todo(p).tweak \notin edited[p] /\ Legal(Todo(p).tweak, hold[p])
       => reg' = reg
<1>1. ASSUME ContractInv, Next, NEW p \in Procs PROVE Keeps(p)
  <2>. SUFFICES ASSUME phase[p] = "applying", hold[p] # None, hold'[p] = None,
                       phase'[p] # "down", fresh[p], p \in Daemons,
                       Todo(p).tweak \notin edited[p], Legal(Todo(p).tweak, hold[p])
                PROVE  reg' = reg
    OBVIOUS
  <2>1. TypeInv(ExactValues) /\ HoldInv(p) /\ ApplyInv(p) /\ FreshInv(p)
    BY <1>1 DEF ContractInv, ProcInv, WorkInv
  <2>2. job[p] # <<>> /\ Todo(p).op = "change" /\ hold[p] \in Values
    BY <2>1 DEF TypeInv, HoldType, Todo
  <2>3. Todo(p).tweak \in Tweaks
    BY <2>1, <2>2, JobFacts
  <2>4. hold[p] = reg[Here(p)]
    BY <2>1 DEF HoldInv, FreshInv
  <2>5. Wanted(p) = temp[p][Todo(p).tweak]
    BY <2>1, <2>2, SendWanted DEF ApplyInv
  <2>6. temp[p][Todo(p).tweak] = InEffect(Todo(p).tweak)
    BY <2>1, <2>3 DEF FreshInv
  <2>7. Wanted(p) = Shown(Todo(p).tweak, hold[p])
    BY <2>4, <2>5, <2>6 DEF InEffect, Here
  <2>8. NewValue(Todo(p).tweak, hold[p], Wanted(p)) = hold[p]
    BY <2>2, <2>3, <2>7, WriteShownKeeps
  <2>9. CASE WriteBack(p)
    <3>1. reg' = reg \/ reg' = [reg EXCEPT ![Here(p)] = hold[p]]
      BY <2>8, <2>9 DEF WriteBack
    <3>. QED BY <2>1, <2>4, <3>1 DEF TypeInv, Machine
  <2>10. CASE \E q \in Procs : q # p /\ WriteBack(q)
    <3>1. hold'[p] = hold[p]
      BY <2>1, <2>10 DEF WriteBack, TypeInv, HoldType
    <3>. QED BY <3>1
  <2>11. CASE UNCHANGED reg
    BY <2>11
  <2>12. CASE Elsewhere
    BY <2>12 DEF Elsewhere
  <2>13. WriteBack(p) \/ (\E q \in Procs : q # p /\ WriteBack(q)) \/ UNCHANGED reg \/ Elsewhere
    BY <1>1 DEF Next, Step, Start, Reload, Connect, Edit, Apply, Save, Refresh, OpenProfile,
                Begin, Quit, Die, GetValueRaw, GetValue, Skip, ChangeValue, Truncate, Put, Finish
  <2>. QED BY <2>9, <2>10, <2>11, <2>12, <2>13
<1>2. ContractInv /\ [Next]_vars => [\A p \in Procs : Keeps(p)]_vars
  BY <1>1
<1>. QED BY <1>2, ContractAlways, PTL DEF Spec, ApplyKeepsUnedited
=============================================================================
