--------------------------- MODULE MCTweakSession ---------------------------
(***************************************************************************)
(* Machines for TLC, from the shipped descriptions:                        *)
(*                                                                         *)
(*   hda  read and write latency of a disk's elevator (elevatortweaks.c):  *)
(*        two sliders in one structure, the rest of which is no tweak's.   *)
(*   64h, 65h of the VIA 82C598 (xml/pci/VIA/82C598-0.xml): a switch and a *)
(*        two-bit pattern (10 on, 00 off) in one byte, and the same again  *)
(*        under the same configuration names in the next.                  *)
(*   rp_filter (xml/proc/proc.xml): a /proc checkbox which knows the       *)
(*        values 0 and 1 only and has the file to itself.                  *)
(***************************************************************************)
EXTENDS TweakSession

MCBits == 0..2
MCOne == {0}
WE == "SDRAM_DDR_WE 64h"
WE2 == "SDRAM_DDR_WE 65h"
FourWay == "4_WAY_INTERLEAVE"
Filter == "rp_filter"

Read == "hda_ELEVATOR_READ_LATENCY"
Write == "hda_ELEVATOR_WRITE_LATENCY"

\* One daemon: two sliders of a disk and a file.
MixedTweaks == {Filter, Read, Write}
MixedOrder == <<Filter, Read, Write>>
\* Two processes: switch and pattern.
PCITweaks == {WE, FourWay}
PCIOrder == <<WE, FourWay>>
NamesakeTweaks == {WE, WE2}
NamesakeOrder == <<WE, WE2>>

MCBackend == [t \in Tweaks |->
  CASE t = Filter -> "proc" [] t \in {Read, Write} -> "elevator" [] OTHER -> "PCI"]
MCWidget == [t \in Tweaks |->
  IF t \in {Read, Write} THEN "slider" ELSE "checkbox"]
MCRegister == [t \in Tweaks |->
  CASE t \in {WE, FourWay} -> "64h"
    [] t = WE2 -> "65h" [] t = Filter -> "file" [] OTHER -> "hda"]
MCMask == [t \in Tweaks |->
  CASE t \in {WE, WE2, Write} -> {2} [] t = Read -> {1}
    [] t = FourWay -> {0, 1} [] t = Filter -> MCBits]
MCOn == [t \in Tweaks |->
  CASE t \in {WE, WE2, Write} -> {2} [] t \in {FourWay, Read} -> {1}
    [] t = Filter -> {0}]
MCOff == [t \in Tweaks |-> {}]
MCRegisters == {MCRegister[t] : t \in Tweaks}
MCConfigName == [t \in Tweaks |-> IF t = WE2 THEN WE ELSE t]
MCChoices == [t \in Tweaks |->
  IF t \in {Read, Write} THEN {{}, Mask[t]} ELSE {{}, MCOne}]

\* A file that was never written, and one with settings.
NoConfig == [t \in Tweaks |-> None]
SomeConfig == [t \in Tweaks |-> IF t = Read THEN {1} ELSE {}]
MCConfigs == {NoConfig, SomeConfig}
OneConfig == {SomeConfig}

\* A profile that asks for one write latency, or none.
MCProfile == <<[tweak |-> Write, value |-> {2}, unless |-> {{2}}]>>
NoProfile == <<>>
\* One that is opened asks for the switch to be off and the pattern to be on.
MCOpened ==
  <<[tweak |-> WE, value |-> {}, unless |-> {{}}],
    [tweak |-> FourWay, value |-> MCOne, unless |-> {MCOne}]>>

AllOff == [r \in Registers |-> {}]
AllOn == [r \in Registers |-> IF r \in {"4Ch", "hda"} THEN {0, 1, 2} ELSE
                              IF r = "file" THEN {0} ELSE {1, 2}]
\* Bits that belong to no tweak are on, and rp_filter is 2.
Odd == [r \in Registers |-> IF r = "hda" THEN {0, 1} ELSE {1}]
Apart == {[r \in Registers |-> IF r = "64h" THEN {2} ELSE {}]}
LegalStates == {AllOff, AllOn}
SomeStates == LegalStates \cup {Odd}
NoStates == {}
=============================================================================
