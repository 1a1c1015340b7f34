----------------------------- MODULE ValueDevices -----------------------------
(***************************************************************************)
(* The tweaks whose value is a number of another unit than the device's:   *)
(* the speed of a CD-ROM, the brightness of a Vaio, the limit of shared    *)
(* memory, the clock of an AMD K6 and the switch for S.M.A.R.T. of a disk  *)
(* (backends/CDROM, sonypi, proc/misc/shm.c, CPU/x86/PowerNow, hdparm).    *)
(*                                                                         *)
(* None of them shares a register with another tweak, so that every call   *)
(* of a method is one step; what can go wrong is what TweakBackend leaves  *)
(* out: the way from the value through the widget to the device and back,  *)
(* values of one unit taken for the other, descriptors, and devices that   *)
(* are not there.                                                          *)
(***************************************************************************)
EXTENDS Integers, FiniteSets

CONSTANTS
  Processes,      \* the processes that have a tree
  Devices,
  Kind,       \* "cdrom", "sonypi", "shm", "powernow" or "smart"
  Holds,      \* what each device can be set to
  Asks,       \* what users, files and profiles ask for
  Char,       \* how many values a char has (256)
  Word,       \* how many values an unsigned int has (2^32)
  Memory,     \* get_memory_size(), in bytes
  Fastest,    \* the greatest speed in the settings file of a drive
  MaxLeak,    \* bound on the descriptors a process loses
  MaxChanges  \* bound on what others do to the devices

ASSUME DeviceAssumption ==
  /\ Kind \in [Devices -> {"cdrom", "sonypi", "shm", "powernow", "smart"}]
  /\ DOMAIN Holds = Devices /\ DOMAIN Asks = Devices
  /\ \A d \in Devices : Holds[d] \subseteq Nat /\ Asks[d] \subseteq Int
  /\ \A d \in Devices :
       /\ Kind[d] = "sonypi"   => Holds[d] \subseteq 0 .. Char - 1
       /\ Kind[d] = "powernow" => Holds[d] \subseteq 0 .. 7 /\ Asks[d] \subseteq 200 .. 600
       /\ Kind[d] = "smart"    => Holds[d] \subseteq {0, 1}
  /\ {Char, Word, Memory} \subseteq Nat \ {0} /\ Word > 1000 /\ Fastest \in Nat
  /\ MaxLeak \in Nat /\ MaxChanges \in Nat

VARIABLES
  device,   \* what each device is set to; of the CPU the bits of its ratio
  there,    \* the devices whose file can be opened
  silent,   \* drives whose settings file has no line for the speed
  tweaks,   \* the tweaks of each process
  stored,   \* private->value
  leaked,   \* descriptors each process has opened and lost
  changes,
  \* History, read by no guard:
  fresh,    \* what is stored is what reading the device gave, which is unchanged
  asked,    \* what a CPU was asked for, if nobody has changed it since
  switches, \* switches for S.M.A.R.T. that each process has registered
  unsaid    \* values of theirs that it only stored

machine == <<device, there, silent, changes>>
process == <<tweaks, stored, leaked>>
deviceHistory == <<fresh, asked, switches, unsaid>>
deviceVars == <<machine, process, deviceHistory>>

-----------------------------------------------------------------------------
(* From the value to the device and back *)

\* A byte as a char, which is signed, and an int as a byte.
ToChar(b) == IF b >= Char \div 2 THEN b - Char ELSE b
ToByte(v) == v % Char

\* The clock ratios times ten, by the three bits that select them.
ClockRatio == [i \in 0 .. 7 |-> <<45, 50, 40, 55, 20, 30, 60, 35>>[i + 1]]

\* busfreq is 100 on every machine.
Clock(i) == (ClockRatio[i] * 100) \div 10

\* The ratios that are not faster than asked for, give or take 1 MHz.
NotFaster(v) == {i \in 0 .. 7 : Clock(i) > 200 /\ Clock(i) <= (v + 1) % Word}

\* Variant: the first ratio that fits is taken.
FirstRatio(v) ==
  IF NotFaster(v) = {} THEN 4 ELSE CHOOSE i \in NotFaster(v) : \A j \in NotFaster(v) : i <= j

set_cpu_frequency_K6(v) ==
  IF NotFaster(v) = {} THEN 4
  ELSE CHOOSE i \in NotFaster(v) : \A j \in NotFaster(v) : Clock(j) <= Clock(i)

\* (int)((100.0 * bytes + 1) / memorysize)
Percent(bytes) == (100 * bytes + 1) \div Memory

\* The value GetValueRaw stores: of shared memory in bytes.
ReadValue(d) ==
  CASE Kind[d] = "cdrom"  -> IF d \in silent THEN 0 ELSE device[d]
    [] Kind[d] = "sonypi" -> ToChar(device[d])
    [] OTHER              -> device[d]

\* The values a tweak may start with; the kernel measures the clock of a CPU.
FirstValues(d) ==
  CASE Kind[d] = "shm"      -> {Percent(device[d])}
    [] Kind[d] = "powernow" -> Clock(device[d]) - 1 .. Clock(device[d]) + 1
    [] OTHER                -> {ReadValue(d)}

\* Variant: the byte that is written is cut from the number as a char.
SetToChar(d, v) == IF Kind[d] = "sonypi" THEN ToByte(v) % (Char \div 2) ELSE v

\* What ChangeValue sets a device to.
SetTo(d, v) ==
  CASE Kind[d] = "cdrom"    -> v
    [] Kind[d] = "sonypi"   -> ToByte(v)
    [] Kind[d] = "shm"      -> ((v * Memory) \div 100) % Word
    [] Kind[d] = "powernow" -> set_cpu_frequency_K6(v)
    [] Kind[d] = "smart"    -> IF v # 0 THEN 1 ELSE 0

\* The range of the widget; that of a drive comes from its settings file.
Least(d) == IF Kind[d] = "powernow" THEN 200 ELSE 0
Greatest(d) ==
  CASE Kind[d] = "cdrom"    -> IF d \in silent THEN 0 ELSE Fastest
    [] Kind[d] = "sonypi"   -> Char - 1
    [] Kind[d] = "shm"      -> 200
    [] Kind[d] = "powernow" -> 600
    [] Kind[d] = "smart"    -> 1

\* What a widget that was given v may hand to ChangeValue untouched: v, if it
\* was never told to change, or else what its range, or its two states, make
\* of v.  (GTK does not limit the value a widget is created with, but every
\* later one, which is then sent to TempValue; the text interface limits none.)
Drawn(d, v) ==
  {v, IF Kind[d] = "smart" THEN IF v # 0 THEN 1 ELSE 0
      ELSE IF v < Least(d) THEN Least(d)
      ELSE IF v > Greatest(d) THEN Greatest(d) ELSE v}

-----------------------------------------------------------------------------

deviceInit ==
  /\ device \in [Devices -> UNION {Holds[d] : d \in Devices}]
  /\ \A d \in Devices : device[d] \in Holds[d]
  /\ there \in SUBSET Devices
  /\ silent \in SUBSET {d \in Devices : Kind[d] = "cdrom"}
  /\ changes = 0
  /\ tweaks = [p \in Processes |-> {}]
  /\ stored = [p \in Processes |-> [d \in Devices |-> 0]]
  /\ leaked = [p \in Processes |-> 0]
  /\ fresh = [p \in Processes |-> {}]
  /\ asked = [d \in Devices |-> {}]
  /\ switches = [p \in Processes |-> 0]
  /\ unsaid = [p \in Processes |-> 0]

\* A value taken from the device; without a line in the settings file it is 0.
Stores(p, d, v) ==
  /\ stored' = [stored EXCEPT ![p][d] = v]
  /\ fresh' = [fresh EXCEPT ![p] = @ \cup {d}]

\* InitPlugin.  The switch of a disk keeps the copy of a descriptor open.
InitPlugin(p, d) ==
  /\ d \in there \ tweaks[p]
  /\ Kind[d] = "smart" => leaked[p] < MaxLeak
  /\ tweaks' = [tweaks EXCEPT ![p] = @ \cup {d}]
  /\ \E v \in FirstValues(d) : Stores(p, d, v)
  /\ IF Kind[d] = "smart"
     THEN /\ leaked' = [leaked EXCEPT ![p] = @ + 1]
          /\ switches' = [switches EXCEPT ![p] = @ + 1]
     ELSE UNCHANGED <<leaked, switches>>
  /\ UNCHANGED <<machine, asked, unsaid>>

\* DestroyAllTweaks of a reload, after which InitPlugin runs again: what a
\* descriptor was copied for is gone, the copy is not.
DestroyTweaks(p) ==
  /\ tweaks[p] # {}
  /\ tweaks' = [tweaks EXCEPT ![p] = {}]
  /\ stored' = [stored EXCEPT ![p] = [d \in Devices |-> 0]]
  /\ fresh' = [fresh EXCEPT ![p] = {}]
  /\ UNCHANGED <<machine, leaked, asked, switches, unsaid>>

\* The CPU's clock and the switch of a disk have no GetValueRaw.
GetValueRaw(p, d) ==
  /\ d \in tweaks[p] \cap there /\ Kind[d] \in {"cdrom", "sonypi", "shm"}
  /\ Stores(p, d, ReadValue(d))
  /\ UNCHANGED <<machine, tweaks, leaked, asked, switches, unsaid>>

\* Variant: the descriptor is closed on neither way out.
ChangeValueNotClosing(p, d, v) ==
  /\ d \in tweaks[p]
  /\ Kind[d] = "smart" => d \in there /\ leaked[p] < MaxLeak
  /\ stored' = [stored EXCEPT ![p][d] = v]
  /\ leaked' = [leaked EXCEPT ![p] = IF Kind[d] = "smart" THEN @ + 1 ELSE @]
  /\ IF d \in there
     THEN /\ device' = [device EXCEPT ![d] = SetTo(d, v)]
          /\ asked' = [asked EXCEPT ![d] = IF Kind[d] = "powernow" THEN {v} ELSE {}]
          /\ fresh' = [q \in Processes |-> fresh[q] \ {d}]
     ELSE fresh' = [fresh EXCEPT ![p] = @ \ {d}] /\ UNCHANGED <<device, asked>>
  /\ UNCHANGED <<there, silent, changes, tweaks, switches, unsaid>>

\* ChangeValue with immediate # 0.  A device that cannot be opened leaves the
\* value stored, of a disk it does not.
ChangeValue(p, d, v) ==
  /\ d \in tweaks[p] /\ (Kind[d] = "smart" => d \in there)
  /\ stored' = [stored EXCEPT ![p][d] = v]
  /\ IF d \in there
     THEN /\ device' = [device EXCEPT ![d] = SetTo(d, v)]
          /\ asked' = [asked EXCEPT ![d] = IF Kind[d] = "powernow" THEN {v} ELSE {}]
          /\ fresh' = [q \in Processes |-> fresh[q] \ {d}]
     ELSE fresh' = [fresh EXCEPT ![p] = @ \ {d}] /\ UNCHANGED <<device, asked>>
  /\ UNCHANGED <<there, silent, changes, tweaks, leaked, switches, unsaid>>

\* ChangeValue with immediate = 0.  That of a disk has opened the device before
\* it looks at immediate, and does not close it.
StoreValue(p, d, v) ==
  /\ d \in tweaks[p]
  /\ Kind[d] = "smart" => d \in there /\ leaked[p] < MaxLeak
  /\ stored' = [stored EXCEPT ![p][d] = v]
  /\ fresh' = [fresh EXCEPT ![p] = @ \ {d}]
  /\ IF Kind[d] = "smart"
     THEN /\ leaked' = [leaked EXCEPT ![p] = @ + 1]
          /\ unsaid' = [unsaid EXCEPT ![p] = @ + 1]
     ELSE UNCHANGED <<leaked, unsaid>>
  /\ UNCHANGED <<machine, tweaks, asked, switches>>

\* Somebody else sets a device, or it comes or goes.
SetElsewhere(d) ==
  /\ changes < MaxChanges /\ changes' = changes + 1
  /\ \/ /\ d \in there
        /\ \E b \in Holds[d] \ {device[d]} : device' = [device EXCEPT ![d] = b]
        /\ UNCHANGED there
     \/ /\ there' = (there \ {d}) \cup ({d} \ there)
        /\ UNCHANGED device
  /\ asked' = [asked EXCEPT ![d] = {}]
  /\ fresh' = [q \in Processes |-> fresh[q] \ {d}]
  /\ UNCHANGED <<silent, process, switches, unsaid>>

deviceNext ==
  \/ \E d \in Devices :
       \/ SetElsewhere(d)
       \/ \E p \in Processes :
            \/ InitPlugin(p, d) \/ GetValueRaw(p, d)
            \/ \E v \in Asks[d] \cup Drawn(d, stored[p][d]) :
                 ChangeValue(p, d, v) \/ StoreValue(p, d, v)
  \/ \E p \in Processes : DestroyTweaks(p)

deviceSpec == deviceInit /\ [][deviceNext]_deviceVars

-----------------------------------------------------------------------------
(* Properties *)

DeviceTypeOK ==
  /\ DOMAIN device = Devices /\ there \subseteq Devices /\ silent \subseteq Devices
  /\ tweaks \in [Processes -> SUBSET Devices] /\ fresh \in [Processes -> SUBSET Devices]
  /\ \A p \in Processes, d \in Devices : stored[p][d] \in Int
  /\ {leaked, switches} \subseteq [Processes -> Nat] /\ unsaid \in [Processes -> Nat]

\* Apply hands every value of the tree to ChangeValue, edited or not.  Where
\* nobody has edited it and the device is still as it was read, the device stays
\* as it is, with three exceptions: the shared memory, whose widget shows a
\* percentage and whose stored value may be bytes; a drive whose settings file
\* names no speed, which is stored as 0; and a speed or a brightness that its
\* widget cannot show and has limited, as it does the brightness of the upper
\* half of the slider, which the signed char makes negative.  A brightness the
\* widget leaves alone survives its way through the char; a clock that was
\* measured 1 MHz too low or too high, and limited, is still that of its ratio.
UneditedApplyChangesOnly ==
  [][\A p \in Processes, d \in Devices : \A v \in Drawn(d, stored[p][d]) :
       d \in fresh[p] /\ ChangeValue(p, d, v) /\ device'[d] # device[d]
       => \/ Kind[d] = "shm"
          \/ d \in silent
          \/ Kind[d] \in {"cdrom", "sonypi"} /\ v # stored[p][d]]_deviceVars

\* powernow.c:119, "The actual value will be rounded downwards to a the closest
\* achievable frequency": after a request in the range of its slider no ratio
\* that is slow enough would be faster.
ClockIsClosest ==
  \A d \in Devices : Kind[d] = "powernow" => \A mhz \in asked[d] :
    /\ Clock(device[d]) <= mhz + 1
    /\ \A i \in 0 .. 7 : Clock(i) <= mhz => Clock(i) <= Clock(device[d])

\* The descriptors a process has lost are one for every switch of a disk it has
\* ever registered, at the start or by a reload, and one for each of their values
\* that was only stored (smart.c:162, 254): nothing else that is done to a
\* device, with it or without it, costs one, and none is ever given back.
DescriptorsAccounted ==
  \A p \in Processes : leaked[p] = unsaid[p] + switches[p]

\* ChangeLog:27, "SMART code doesn't keep device fd open anymore."
NoDescriptorKept == \A p \in Processes : leaked[p] = 0

=============================================================================
