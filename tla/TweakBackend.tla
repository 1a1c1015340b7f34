---------------------------- MODULE TweakBackend ----------------------------
(***************************************************************************)
(* What the methods of a tweak do to the register behind it, for the       *)
(* backends whose tweaks share registers: /proc files, PCI configuration   *)
(* space and the elevator of a disk (src/backends/proc/methods.c, proc.c,  *)
(* src/backends/PCI/pci.c, src/backends/Elevator/elevatortweaks.c).        *)
(*                                                                         *)
(* An integer is the set of its one bits: 0 is {}, 1 is One, & is \cap, |  *)
(* is \cup and & ~ is set difference.  A register is a configuration byte, *)
(* a /proc file or the elevator's parameters; the elements of a file and   *)
(* the fields of the elevator are disjoint masks of their register.        *)
(***************************************************************************)
CONSTANTS
  Tweaks,     \* the tweaks that have a value
  Registers,
  Bits,
  One,        \* the integer 1
  Backend,    \* "proc", "PCI" or "elevator", of each tweak
  Widget,     \* "checkbox", "radio", "slider" or "spinbox", of each tweak
  Register,   \* where the value of each tweak is
  Mask,       \* the bits of the register that are the tweak's
  On, Off     \* what a checkbox puts into its field

Values == SUBSET Bits

ASSUME BackendAssumption ==
  /\ One \in Values /\ One # {}
  /\ Backend \in [Tweaks -> {"proc", "PCI", "elevator"}]
  /\ Widget \in [Tweaks -> {"checkbox", "radio", "slider", "spinbox"}]
  /\ Register \in [Tweaks -> Registers]
  /\ Mask \in [Tweaks -> Values]
  /\ \A t \in Tweaks : Backend[t] = "elevator" => Widget[t] = "slider"

\* What the shipped descriptions respect: fields do not overlap, and the two
\* patterns of a checkbox are inside its field and differ.
ASSUME DescriptionAssumption ==
  /\ On \in [Tweaks -> Values] /\ Off \in [Tweaks -> Values]
  /\ \A t \in Tweaks : On[t] \subseteq Mask[t] /\ Off[t] \subseteq Mask[t]
  /\ \A t \in Tweaks : On[t] # Off[t]
  /\ \A t, u \in Tweaks :
       t # u /\ Register[t] = Register[u] => Mask[t] \cap Mask[u] = {}

Field(t, r) == r \cap Mask[t]

-----------------------------------------------------------------------------
(* ChangeValue, the part that runs when immediate # 0 *)

\* Variant: the neighbours of the field are not kept.
SwitchedAlone(t, r, on) == IF on THEN On[t] ELSE Off[t]

\* Variant: the field gets the value of the widget, not the pattern for it.
SwitchedToValue(t, r, on) == (r \ Mask[t]) \cup (IF on THEN One ELSE {})

\* The register with the field of t switched on or off.
Switched(t, r, on) == (r \ Mask[t]) \cup (IF on THEN On[t] ELSE Off[t])

\* "0 values for combo/radio-elements should _NOT_ be set"
NotSet(t, v) == Backend[t] = "proc" /\ Widget[t] = "radio" /\ v = {}

ProcValue(t, r, v) ==
  IF Widget[t] = "checkbox" THEN Switched(t, r, v # {})
                            ELSE (r \ Mask[t]) \cup v

\* PCI_change_value leaves dest_value 0 for a widget it does not support.
PCIValue(t, r, v) ==
  CASE Widget[t] = "checkbox" -> Switched(t, r, v = One)
    [] Widget[t] = "slider"   -> (r \ Mask[t]) \cup (v \cap Mask[t])
    [] OTHER                  -> {}

\* Variant: the other settings of the disk are not read before they are set.
ElevatorValueAlone(t, r, v) == v

\* The settings of a disk come and go together, in one structure.
ElevatorValue(t, r, v) == (r \ Mask[t]) \cup v

\* The value written back when the register read r.
NewValue(t, r, v) ==
  CASE Backend[t] = "proc"     -> ProcValue(t, r, v)
    [] Backend[t] = "PCI"      -> PCIValue(t, r, v)
    [] Backend[t] = "elevator" -> ElevatorValue(t, r, v)

\* GetValueRaw collapses the field of these to 0 or 1.
Boolean(t) == Widget[t] = "checkbox" \/ (Backend[t] = "proc" /\ Widget[t] = "radio")

\* Variant: the field is not cut out of the register.
ShownUnmasked(t, r) ==
  IF Boolean(t) THEN IF r = On[t] THEN One ELSE {} ELSE r

\* GetValueRaw: the value a tweak takes from the register.
Shown(t, r) ==
  IF Boolean(t) THEN IF Field(t, r) = On[t] THEN One ELSE {} ELSE Field(t, r)

\* The field of t holds one of the patterns its description knows.
Legal(t, r) == Widget[t] = "checkbox" => Field(t, r) \in {On[t], Off[t]}

=============================================================================
