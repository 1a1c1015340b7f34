-------------------------- MODULE ValueDeviceProofs --------------------------
(***************************************************************************)
(* Proofs about module ValueDevices, for any number of processes and of    *)
(* devices of each kind, chars and ints of any width and any order of      *)
(* calls, devices that come and go and others that set them.               *)
(***************************************************************************)
EXTENDS ValueDevices, TLAPS

-----------------------------------------------------------------------------
(* The ratios of the K6 *)

LEMMA Clocks ==
  /\ Clock(0) = 450 /\ Clock(1) = 500 /\ Clock(2) = 400 /\ Clock(3) = 550
  /\ Clock(4) = 200 /\ Clock(5) = 300 /\ Clock(6) = 600 /\ Clock(7) = 350
<1>1. /\ ClockRatio[0] = 45 /\ ClockRatio[1] = 50 /\ ClockRatio[2] = 40 /\ ClockRatio[3] = 55
      /\ ClockRatio[4] = 20 /\ ClockRatio[5] = 30 /\ ClockRatio[6] = 60 /\ ClockRatio[7] = 35
  BY DEF ClockRatio
<1>. QED BY <1>1 DEF Clock

LEMMA Wide == Word \in Nat /\ Word > 1000 /\ Char \in Nat \ {0}
BY DeviceAssumption

LEMMA SlowEnough ==
  ASSUME NEW v \in 199 .. 601
  PROVE  NotFaster(v) = {i \in 0 .. 7 : Clock(i) > 200 /\ Clock(i) <= v + 1}
<1>1. (v + 1) % Word = v + 1
  BY Wide
<1>. QED BY <1>1 DEF NotFaster

\* The ratio that is chosen, without CHOOSE.
LEMMA Ratio ==
  ASSUME NEW v \in 199 .. 601
  PROVE  LET c == set_cpu_frequency_K6(v) IN
         /\ c \in 0 .. 7
         /\ Clock(c) <= v + 1
         /\ \A i \in 0 .. 7 : Clock(i) <= v + 1 => Clock(i) <= Clock(c)
<1>. DEFINE c == set_cpu_frequency_K6(v)
            S == NotFaster(v)
<1>1. S = {i \in 0 .. 7 : Clock(i) > 200 /\ Clock(i) <= v + 1}
  BY SlowEnough
<1>2. CASE S = {}
  <2>1. c = 4
    BY <1>2 DEF set_cpu_frequency_K6
  <2>. QED BY <1>1, <1>2, <2>1, Clocks
<1>3. CASE S # {}
  <2>1. \E i \in S : \A j \in S : Clock(j) <= Clock(i)
    <3>. DEFINE Best(i) == i \in S /\ \A j \in S : Clock(j) <= Clock(i)
    <3>1. S \subseteq {0, 1, 2, 3, 5, 6, 7}
      BY <1>1, Clocks
    <3>2. \/ 6 \in S \/ (3 \in S /\ 6 \notin S) \/ (1 \in S /\ 3 \notin S) \/ (0 \in S /\ 1 \notin S)
          \/ (2 \in S /\ 0 \notin S) \/ (7 \in S /\ 2 \notin S) \/ (5 \in S /\ 7 \notin S)
      BY <1>3, <3>1
    <3>3. \A i, j \in 0 .. 7 : j \in S /\ Clock(i) > 200 /\ Clock(i) <= Clock(j) => i \in S
      BY <1>1, Clocks
    <3>. QED BY <3>1, <3>2, <3>3, Clocks
  <2>2. c \in S /\ \A j \in S : Clock(j) <= Clock(c)
    BY <1>3, <2>1 DEF set_cpu_frequency_K6
  <2>3. \A i \in 0 .. 7 : Clock(i) <= v + 1 => i \in S \/ Clock(i) = 200
    BY <1>1, Clocks
  <2>. QED BY <1>1, <2>2, <2>3, Clocks
<1>. QED BY <1>2, <1>3

\* A clock that was measured 1 MHz too low or too high is the clock of its ratio.
LEMMA RatioOfMeasured ==
  ASSUME NEW i \in 0 .. 7, NEW v \in Clock(i) - 1 .. Clock(i) + 1
  PROVE  v \in 199 .. 601 /\ set_cpu_frequency_K6(v) = i
<1>1. v \in 199 .. 601
  BY Clocks
<1>. DEFINE c == set_cpu_frequency_K6(v)
<1>2. /\ c \in 0 .. 7
      /\ Clock(c) <= v + 1
      /\ Clock(i) <= v + 1 => Clock(i) <= Clock(c)
  BY <1>1, Ratio
<1>. HIDE DEF c
<1>3. c = i
  BY <1>2, Clocks
<1>. QED BY <1>1, <1>3 DEF c

\* A byte survives the char.
LEMMA ByteOfChar ==
  ASSUME NEW b \in 0 .. Char - 1
  PROVE  ToByte(ToChar(b)) = b
<1>1. Char \in Nat \ {0}
  BY Wide
<1>2. (b - Char) % Char = b
  BY <1>1
<1>3. b % Char = b
  BY <1>1
<1>. QED BY <1>1, <1>2, <1>3 DEF ToByte, ToChar

-----------------------------------------------------------------------------
(* Types *)

Types ==
  /\ there \subseteq Devices /\ silent \subseteq Devices
  /\ tweaks \in [Processes -> SUBSET Devices]
  /\ fresh \in [Processes -> SUBSET Devices]
  /\ DOMAIN device = Devices /\ DOMAIN asked = Devices
  /\ DOMAIN stored = Processes /\ \A p \in Processes : DOMAIN stored[p] = Devices
  /\ leaked \in [Processes -> Nat] /\ unsaid \in [Processes -> Nat]
  /\ switches \in [Processes -> Nat]

LEMMA TypesInit == deviceInit => Types
BY DEF deviceInit, Types

LEMMA TypesNext == Types /\ [deviceNext]_deviceVars => Types'
<1>. SUFFICES ASSUME Types, [deviceNext]_deviceVars
              PROVE  Types'
  OBVIOUS
<1>. USE DEF Types
<1>1. ASSUME NEW d \in Devices, SetElsewhere(d)
      PROVE  Types'
  BY <1>1 DEF SetElsewhere, process
<1>2. ASSUME NEW d \in Devices, NEW p \in Processes, InitPlugin(p, d)
      PROVE  Types'
  BY <1>2 DEF InitPlugin, Stores, machine
<1>3. ASSUME NEW d \in Devices, NEW p \in Processes, GetValueRaw(p, d)
      PROVE  Types'
  BY <1>3 DEF GetValueRaw, Stores, machine
<1>4. ASSUME NEW d \in Devices, NEW p \in Processes, NEW v \in Asks[d] \cup Drawn(d, stored[p][d]),
             ChangeValue(p, d, v)
      PROVE  Types'
  BY <1>4 DEF ChangeValue
<1>5. ASSUME NEW d \in Devices, NEW p \in Processes, NEW v \in Asks[d] \cup Drawn(d, stored[p][d]),
             StoreValue(p, d, v)
      PROVE  Types'
  BY <1>5 DEF StoreValue, machine
<1>6. ASSUME NEW p \in Processes, DestroyTweaks(p)
      PROVE  Types'
  BY <1>6 DEF DestroyTweaks, machine
<1>7. CASE UNCHANGED deviceVars
  BY <1>7 DEF deviceVars, machine, process, deviceHistory
<1>. QED BY <1>1, <1>2, <1>3, <1>4, <1>5, <1>6, <1>7 DEF deviceNext

-----------------------------------------------------------------------------
(* Descriptors *)

LEMMA DescriptorsInit == deviceInit => DescriptorsAccounted
BY DEF deviceInit, DescriptorsAccounted

LEMMA DescriptorsNext ==
  Types /\ DescriptorsAccounted /\ [deviceNext]_deviceVars => DescriptorsAccounted'
<1>. SUFFICES ASSUME Types, DescriptorsAccounted, [deviceNext]_deviceVars
              PROVE  DescriptorsAccounted'
  OBVIOUS
<1>1. UNCHANGED <<leaked, unsaid, switches>> => DescriptorsAccounted'
  BY DEF DescriptorsAccounted
<1>2. ASSUME NEW d \in Devices, NEW p \in Processes, InitPlugin(p, d)
      PROVE  DescriptorsAccounted'
  BY <1>1, <1>2 DEF InitPlugin, DescriptorsAccounted, Types
<1>3. ASSUME NEW d \in Devices, NEW p \in Processes, NEW v \in Asks[d] \cup Drawn(d, stored[p][d]),
             StoreValue(p, d, v)
      PROVE  DescriptorsAccounted'
  BY <1>1, <1>3 DEF StoreValue, DescriptorsAccounted, Types
<1>4. ASSUME NEW d \in Devices, SetElsewhere(d)
      PROVE  DescriptorsAccounted'
  BY <1>1, <1>4 DEF SetElsewhere, process
<1>5. ASSUME NEW d \in Devices, NEW p \in Processes, GetValueRaw(p, d)
      PROVE  DescriptorsAccounted'
  BY <1>1, <1>5 DEF GetValueRaw
<1>6. ASSUME NEW d \in Devices, NEW p \in Processes, NEW v \in Asks[d] \cup Drawn(d, stored[p][d]),
             ChangeValue(p, d, v)
      PROVE  DescriptorsAccounted'
  BY <1>1, <1>6 DEF ChangeValue
<1>7. ASSUME NEW p \in Processes, DestroyTweaks(p)
      PROVE  DescriptorsAccounted'
  BY <1>1, <1>7 DEF DestroyTweaks
<1>8. CASE UNCHANGED deviceVars
  BY <1>1, <1>8 DEF deviceVars, process, deviceHistory
<1>. QED BY <1>2, <1>3, <1>4, <1>5, <1>6, <1>7, <1>8 DEF deviceNext

\* For any number of disks, of calls and of reloads, a process loses a descriptor
\* for every switch it has registered and for every value of one that it only
\* stored: no other call loses one, and no reload gives one back.
THEOREM DescriptorsAlwaysAccounted == deviceSpec => []DescriptorsAccounted
BY TypesInit, TypesNext, DescriptorsInit, DescriptorsNext, PTL DEF deviceSpec

-----------------------------------------------------------------------------
(* Values *)

\* What a device of a kind is set to.
Setting(d, b) ==
  /\ Kind[d] = "sonypi"   => b \in 0 .. Char - 1
  /\ Kind[d] = "powernow" => b \in 0 .. 7
  /\ Kind[d] = "smart"    => b \in {0, 1}

\* What a tweak of a kind stores.
Storable(d, v) ==
  /\ Kind[d] = "sonypi"   => v \in Int
  /\ Kind[d] = "powernow" => v \in 199 .. 601

\* The value v is what is read of a device that is set to b.
Agrees(d, v, b) ==
  /\ Kind[d] \in {"cdrom", "smart"} => v = b
  /\ Kind[d] = "sonypi"   => v = ToChar(b)
  /\ Kind[d] = "powernow" => v \in Clock(b) - 1 .. Clock(b) + 1

LEMMA Kinds ==
  \A d \in Devices : /\ Kind[d] \in {"cdrom", "sonypi", "shm", "powernow", "smart"}
                     /\ \A b \in Holds[d] : Setting(d, b)
                     /\ \A v \in Asks[d] : Storable(d, v)
BY DeviceAssumption DEF Setting, Storable

LEMMA Neutral ==
  ASSUME NEW d \in Devices, Kind[d] # "shm", NEW b, NEW v, Setting(d, b), Agrees(d, v, b)
  PROVE  SetTo(d, v) = b
<1>1. CASE Kind[d] = "cdrom"
  BY <1>1 DEF SetTo, Agrees
<1>2. CASE Kind[d] = "sonypi"
  BY <1>2, ByteOfChar DEF SetTo, Agrees, Setting
<1>3. CASE Kind[d] = "powernow"
  <2>1. b \in 0 .. 7 /\ v \in Clock(b) - 1 .. Clock(b) + 1
    BY <1>3 DEF Agrees, Setting
  <2>2. SetTo(d, v) = set_cpu_frequency_K6(v)
    BY <1>3 DEF SetTo
  <2>. QED BY <2>1, <2>2, RatioOfMeasured
<1>4. CASE Kind[d] = "smart"
  BY <1>4 DEF SetTo, Agrees, Setting
<1>. QED BY <1>1, <1>2, <1>3, <1>4, Kinds

\* A clock that was measured and then limited by its slider is still one that
\* was measured; a check box shows the switch of a disk as it is.
LEMMA DrawnAgrees ==
  ASSUME NEW d \in Devices, Kind[d] \in {"powernow", "smart"}, NEW b, NEW w, NEW v \in Drawn(d, w),
         Setting(d, b), Agrees(d, w, b)
  PROVE  Agrees(d, v, b)
<1>1. CASE Kind[d] = "powernow"
  <2>1. b \in 0 .. 7 /\ w \in Clock(b) - 1 .. Clock(b) + 1
    BY <1>1 DEF Agrees, Setting
  <2>2. v \in {w, IF w < 200 THEN 200 ELSE IF w > 600 THEN 600 ELSE w}
    BY <1>1 DEF Drawn, Least, Greatest
  <2>3. Clock(b) \in 200 .. 600
    BY <2>1, Clocks
  <2>4. v \in Clock(b) - 1 .. Clock(b) + 1
    BY <2>1, <2>2, <2>3
  <2>. QED BY <1>1, <2>4 DEF Agrees
<1>2. CASE Kind[d] = "smart"
  BY <1>2 DEF Agrees, Setting, Drawn
<1>. QED BY <1>1, <1>2

LEMMA Set ==
  ASSUME NEW d \in Devices, NEW v, Storable(d, v)
  PROVE  Setting(d, SetTo(d, v))
<1>1. CASE Kind[d] = "sonypi"
  <2>1. v \in Int /\ Char \in Nat \ {0}
    BY <1>1, Wide DEF Storable
  <2>2. v % Char \in 0 .. Char - 1
    BY <2>1
  <2>. QED BY <1>1, <2>2 DEF Setting, SetTo, ToByte
<1>2. CASE Kind[d] = "powernow"
  <2>1. v \in 199 .. 601
    BY <1>2 DEF Storable
  <2>2. SetTo(d, v) = set_cpu_frequency_K6(v)
    BY <1>2 DEF SetTo
  <2>3. SetTo(d, v) \in 0 .. 7
    BY <2>1, <2>2, Ratio
  <2>. QED BY <1>2, <2>3 DEF Setting
<1>3. CASE Kind[d] = "smart"
  BY <1>3 DEF Setting, SetTo
<1>4. CASE Kind[d] \in {"cdrom", "shm"}
  BY <1>4 DEF Setting
<1>. QED BY <1>1, <1>2, <1>3, <1>4, Kinds

LEMMA First ==
  ASSUME NEW d \in Devices, Setting(d, device[d]), NEW v \in FirstValues(d)
  PROVE  Storable(d, v) /\ (d \notin silent => Agrees(d, v, device[d]))
<1>1. CASE Kind[d] = "sonypi"
  <2>1. v = ToChar(device[d]) /\ device[d] \in 0 .. Char - 1 /\ Char \in Nat
    BY <1>1, Wide DEF FirstValues, ReadValue, Setting
  <2>2. v \in Int
    BY <2>1 DEF ToChar
  <2>. QED BY <1>1, <2>1, <2>2 DEF Storable, Agrees
<1>2. CASE Kind[d] = "powernow"
  <2>1. device[d] \in 0 .. 7 /\ v \in Clock(device[d]) - 1 .. Clock(device[d]) + 1
    BY <1>2 DEF FirstValues, Setting
  <2>. QED BY <1>2, <2>1, RatioOfMeasured DEF Storable, Agrees
<1>3. CASE Kind[d] \in {"cdrom", "smart"}
  BY <1>3 DEF FirstValues, ReadValue, Storable, Agrees
<1>4. CASE Kind[d] = "shm"
  BY <1>4 DEF Storable, Agrees
<1>. QED BY <1>1, <1>2, <1>3, <1>4, Kinds

LEMMA Read ==
  ASSUME NEW d \in Devices, Setting(d, device[d]), Kind[d] \in {"cdrom", "sonypi", "shm"}
  PROVE  Storable(d, ReadValue(d)) /\ (d \notin silent => Agrees(d, ReadValue(d), device[d]))
<1>1. CASE Kind[d] = "sonypi"
  <2>1. ReadValue(d) = ToChar(device[d]) /\ device[d] \in 0 .. Char - 1 /\ Char \in Nat
    BY <1>1, Wide DEF ReadValue, Setting
  <2>2. ReadValue(d) \in Int
    BY <2>1 DEF ToChar
  <2>. QED BY <1>1, <2>1, <2>2 DEF Storable, Agrees
<1>2. CASE Kind[d] = "cdrom"
  BY <1>2 DEF ReadValue, Storable, Agrees
<1>3. CASE Kind[d] = "shm"
  BY <1>3 DEF Storable, Agrees
<1>. QED BY <1>1, <1>2, <1>3

\* Settings and values are of their kinds; a fresh value is what would be read
\* now; a clock that was asked for and not changed since is the one chosen.
ValuesInv ==
  /\ \A d \in Devices : Setting(d, device[d])
  /\ \A p \in Processes : \A d \in tweaks[p] : Storable(d, stored[p][d])
  /\ \A p \in Processes : \A d \in fresh[p] :
       d \in tweaks[p] /\ (d \notin silent => Agrees(d, stored[p][d], device[d]))
  /\ \A d \in Devices : Kind[d] = "powernow" =>
       \A mhz \in asked[d] : mhz \in 199 .. 601 /\ device[d] = set_cpu_frequency_K6(mhz)

LEMMA ValuesInit == deviceInit => ValuesInv
<1>. SUFFICES ASSUME deviceInit
              PROVE  ValuesInv
  OBVIOUS
<1>1. \A d \in Devices : Setting(d, device[d])
  BY Kinds DEF deviceInit
<1>2. \A p \in Processes : tweaks[p] = {} /\ fresh[p] = {}
  BY DEF deviceInit
<1>3. \A d \in Devices : asked[d] = {}
  BY DEF deviceInit
<1>. QED BY <1>1, <1>2, <1>3 DEF ValuesInv

\* The invariant of the next state.
LEMMA ValuesPrime ==
  ASSUME \A d \in Devices : Setting(d, device'[d]),
         \A p \in Processes : \A d \in tweaks'[p] : Storable(d, stored'[p][d]),
         \A p \in Processes : \A d \in fresh'[p] :
            d \in tweaks'[p] /\ (d \notin silent' => Agrees(d, stored'[p][d], device'[d])),
         \A d \in Devices : Kind[d] = "powernow" =>
            \A mhz \in asked'[d] : mhz \in 199 .. 601 /\ device'[d] = set_cpu_frequency_K6(mhz)
  PROVE  ValuesInv'
BY DEF ValuesInv

\* A value that is taken from the device.
LEMMA StoresKeeps ==
  ASSUME Types, ValuesInv, NEW p \in Processes, NEW d \in Devices, NEW v,
         Storable(d, v), d \notin silent => Agrees(d, v, device[d]), Stores(p, d, v),
         UNCHANGED <<device, asked, silent>>, tweaks' = [tweaks EXCEPT ![p] = @ \cup {d}]
  PROVE  ValuesInv'
<1>1. /\ stored'[p][d] = v
      /\ \A q \in Processes, e \in Devices : q # p \/ e # d => stored'[q][e] = stored[q][e]
      /\ tweaks'[p] = tweaks[p] \cup {d}
      /\ fresh'[p] = fresh[p] \cup {d}
      /\ \A q \in Processes \ {p} : tweaks'[q] = tweaks[q] /\ fresh'[q] = fresh[q]
  BY DEF Stores, Types
<1>2. \A q \in Processes : tweaks[q] \subseteq Devices /\ fresh[q] \subseteq Devices
  BY DEF Types
<1>3. \A e \in Devices : Setting(e, device'[e])
  BY DEF ValuesInv
<1>4. \A q \in Processes : \A e \in tweaks'[q] : Storable(e, stored'[q][e])
  BY <1>1, <1>2 DEF ValuesInv
<1>5. \A q \in Processes : \A e \in fresh'[q] :
         e \in tweaks'[q] /\ (e \notin silent' => Agrees(e, stored'[q][e], device'[e]))
  BY <1>1, <1>2 DEF ValuesInv
<1>6. \A e \in Devices : Kind[e] = "powernow" =>
         \A mhz \in asked'[e] : mhz \in 199 .. 601 /\ device'[e] = set_cpu_frequency_K6(mhz)
  BY DEF ValuesInv
<1>. QED BY <1>3, <1>4, <1>5, <1>6, ValuesPrime

\* A value that comes from somewhere else, or from a widget.
LEMMA AsksKeep ==
  ASSUME Types, ValuesInv, NEW p \in Processes, NEW d \in tweaks[p],
         NEW v \in Asks[d] \cup Drawn(d, stored[p][d])
  PROVE  Storable(d, v)
<1>. DEFINE w == stored[p][d]
<1>1. d \in Devices /\ Storable(d, w)
  BY DEF Types, ValuesInv
<1>2. CASE v \in Asks[d]
  BY <1>1, <1>2, Kinds
<1>. HIDE DEF w
<1>3. CASE v \in Drawn(d, w) /\ Kind[d] = "sonypi"
  <2>1. w \in Int /\ Char \in Int
    BY <1>1, <1>3, Wide DEF Storable
  <2>2. v \in {w, IF w < 0 THEN 0 ELSE IF w > Char - 1 THEN Char - 1 ELSE w}
    BY <1>3 DEF Drawn, Least, Greatest
  <2>3. v \in Int
    BY <2>1, <2>2
  <2>. QED BY <1>3, <2>3 DEF Storable
<1>4. CASE v \in Drawn(d, w) /\ Kind[d] = "powernow"
  <2>1. w \in 199 .. 601
    BY <1>1, <1>4 DEF Storable
  <2>2. v \in {w, IF w < 200 THEN 200 ELSE IF w > 600 THEN 600 ELSE w}
    BY <1>4 DEF Drawn, Least, Greatest
  <2>3. v \in 199 .. 601
    BY <2>1, <2>2
  <2>. QED BY <1>4, <2>3 DEF Storable
<1>5. CASE Kind[d] \notin {"sonypi", "powernow"}
  BY <1>5 DEF Storable
<1>. QED BY <1>2, <1>3, <1>4, <1>5 DEF w

LEMMA ValuesNext ==
  Types /\ ValuesInv /\ [deviceNext]_deviceVars => ValuesInv'
<1>. SUFFICES ASSUME Types, ValuesInv, [deviceNext]_deviceVars
              PROVE  ValuesInv'
  OBVIOUS
<1>0. \A q \in Processes : tweaks[q] \subseteq Devices /\ fresh[q] \subseteq Devices
  BY DEF Types
<1>1. ASSUME NEW d \in Devices, SetElsewhere(d)
      PROVE  ValuesInv'
  <2>1. /\ stored' = stored /\ tweaks' = tweaks /\ silent' = silent
        /\ \A e \in Devices \ {d} : device'[e] = device[e] /\ asked'[e] = asked[e]
        /\ device'[d] \in Holds[d] \cup {device[d]} /\ asked'[d] = {}
        /\ \A q \in Processes : fresh'[q] = fresh[q] \ {d}
    BY <1>1 DEF SetElsewhere, process, Types
  <2>2. \A e \in Devices : Setting(e, device'[e])
    BY <2>1, Kinds DEF ValuesInv
  <2>3. \A q \in Processes : \A e \in tweaks'[q] : Storable(e, stored'[q][e])
    BY <2>1 DEF ValuesInv
  <2>4. \A q \in Processes : \A e \in fresh'[q] :
           e \in tweaks'[q] /\ (e \notin silent' => Agrees(e, stored'[q][e], device'[e]))
    BY <1>0, <2>1 DEF ValuesInv
  <2>5. \A e \in Devices : Kind[e] = "powernow" =>
           \A mhz \in asked'[e] : mhz \in 199 .. 601 /\ device'[e] = set_cpu_frequency_K6(mhz)
    BY <2>1 DEF ValuesInv
  <2>. QED BY <2>2, <2>3, <2>4, <2>5, ValuesPrime
<1>2. ASSUME NEW d \in Devices, NEW p \in Processes, InitPlugin(p, d)
      PROVE  ValuesInv'
  <2>1. PICK v \in FirstValues(d) : Stores(p, d, v)
    BY <1>2 DEF InitPlugin
  <2>2. /\ UNCHANGED <<device, asked, silent>> /\ tweaks' = [tweaks EXCEPT ![p] = @ \cup {d}]
    BY <1>2 DEF InitPlugin, machine
  <2>3. Setting(d, device[d])
    BY DEF ValuesInv
  <2>4. Storable(d, v) /\ (d \notin silent => Agrees(d, v, device[d]))
    BY <2>3, First
  <2>. QED BY <2>1, <2>2, <2>4, StoresKeeps
<1>3. ASSUME NEW d \in Devices, NEW p \in Processes, GetValueRaw(p, d)
      PROVE  ValuesInv'
  <2>1. /\ d \in tweaks[p] /\ Kind[d] \in {"cdrom", "sonypi", "shm"} /\ Stores(p, d, ReadValue(d))
        /\ UNCHANGED <<device, asked, silent>> /\ tweaks' = tweaks
    BY <1>3 DEF GetValueRaw, machine
  <2>2. tweaks' = [tweaks EXCEPT ![p] = @ \cup {d}]
    BY <2>1 DEF Types
  <2>3. Setting(d, device[d])
    BY DEF ValuesInv
  <2>4. Storable(d, ReadValue(d)) /\ (d \notin silent => Agrees(d, ReadValue(d), device[d]))
    BY <2>1, <2>3, Read
  <2>. QED BY <2>1, <2>2, <2>4, StoresKeeps
<1>4. ASSUME NEW d \in Devices, NEW p \in Processes, NEW v \in Asks[d] \cup Drawn(d, stored[p][d]),
             ChangeValue(p, d, v) \/ StoreValue(p, d, v)
      PROVE  ValuesInv'
  <2>1. /\ d \in tweaks[p] /\ tweaks' = tweaks /\ silent' = silent
        /\ stored'[p][d] = v
        /\ \A q \in Processes, e \in Devices : q # p \/ e # d => stored'[q][e] = stored[q][e]
    BY <1>4 DEF ChangeValue, StoreValue, Types, machine
  <2>2. /\ \A e \in Devices \ {d} : device'[e] = device[e] /\ asked'[e] = asked[e]
        /\ \/ device'[d] = SetTo(d, v) /\ asked'[d] \subseteq {v} /\ \A q \in Processes : d \notin fresh'[q]
           \/ device'[d] = device[d] /\ asked'[d] = asked[d] /\ d \notin fresh'[p]
    BY <1>4 DEF ChangeValue, StoreValue, Types, machine
  <2>3. \A q \in Processes : fresh'[q] \subseteq fresh[q]
    BY <1>4 DEF ChangeValue, StoreValue, Types
  <2>4. Storable(d, v)
    BY <2>1, AsksKeep
  <2>5. \A e \in Devices : Setting(e, device'[e])
    BY <2>2, <2>4, Set DEF ValuesInv
  <2>6. \A q \in Processes : \A e \in tweaks'[q] : Storable(e, stored'[q][e])
    BY <1>0, <2>1, <2>4 DEF ValuesInv
  <2>7. \A q \in Processes : \A e \in fresh'[q] :
           e \in tweaks'[q] /\ (e \notin silent' => Agrees(e, stored'[q][e], device'[e]))
    BY <1>0, <2>1, <2>2, <2>3 DEF ValuesInv
  <2>8. \A e \in Devices : Kind[e] = "powernow" =>
           \A mhz \in asked'[e] : mhz \in 199 .. 601 /\ device'[e] = set_cpu_frequency_K6(mhz)
    <3>1. Kind[d] = "powernow" => v \in 199 .. 601 /\ SetTo(d, v) = set_cpu_frequency_K6(v)
      BY <2>4 DEF Storable, SetTo
    <3>. QED BY <2>2, <3>1 DEF ValuesInv
  <2>. QED BY <2>5, <2>6, <2>7, <2>8, ValuesPrime
<1>5. ASSUME NEW p \in Processes, DestroyTweaks(p)
      PROVE  ValuesInv'
  <2>1. /\ tweaks'[p] = {} /\ fresh'[p] = {} /\ UNCHANGED <<device, asked, silent>>
        /\ \A q \in Processes \ {p} :
             tweaks'[q] = tweaks[q] /\ fresh'[q] = fresh[q] /\ stored'[q] = stored[q]
    BY <1>5 DEF DestroyTweaks, machine, Types
  <2>2. \A q \in Processes : \A e \in tweaks'[q] : Storable(e, stored'[q][e])
    BY <2>1 DEF ValuesInv
  <2>3. \A q \in Processes : \A e \in fresh'[q] :
           e \in tweaks'[q] /\ (e \notin silent' => Agrees(e, stored'[q][e], device'[e]))
    BY <2>1 DEF ValuesInv
  <2>. QED BY <2>1, <2>2, <2>3, ValuesPrime DEF ValuesInv
<1>6. CASE UNCHANGED deviceVars
  BY <1>6 DEF deviceVars, machine, process, deviceHistory, ValuesInv
<1>. QED BY <1>1, <1>2, <1>3, <1>4, <1>5, <1>6 DEF deviceNext

LEMMA ValuesAlways == deviceSpec => [](Types /\ ValuesInv)
BY TypesInit, TypesNext, ValuesInit, ValuesNext, PTL DEF deviceSpec

\* Whatever the widths of char and int, an Apply of widgets nobody has edited
\* leaves alone every CPU and every disk, and every brightness and drive whose
\* value its widget can show, if the drive names its speed.
THEOREM UneditedApplyAlwaysChangesOnly == deviceSpec => UneditedApplyChangesOnly
<1>. DEFINE ChangesOnly == \A p \in Processes, d \in Devices : \A v \in Drawn(d, stored[p][d]) :
       d \in fresh[p] /\ ChangeValue(p, d, v) /\ device'[d] # device[d]
       => \/ Kind[d] = "shm"
          \/ d \in silent
          \/ Kind[d] \in {"cdrom", "sonypi"} /\ v # stored[p][d]
<1>1. Types /\ ValuesInv => ChangesOnly
  <2>. SUFFICES ASSUME Types, ValuesInv, NEW p \in Processes, NEW d \in Devices, d \in fresh[p],
                       NEW v \in Drawn(d, stored[p][d]), ChangeValue(p, d, v),
                       Kind[d] # "shm", d \notin silent,
                       Kind[d] \in {"cdrom", "sonypi"} => v = stored[p][d]
                PROVE  device'[d] = device[d]
    OBVIOUS
  <2>1. device'[d] = device[d] \/ device'[d] = SetTo(d, v)
    BY DEF ChangeValue, Types
  <2>2. Setting(d, device[d]) /\ Agrees(d, stored[p][d], device[d])
    BY DEF ValuesInv
  <2>3. Agrees(d, v, device[d])
    BY <2>2, DrawnAgrees, Kinds
  <2>. QED BY <2>1, <2>2, <2>3, Neutral
<1>2. Types /\ ValuesInv => [ChangesOnly]_deviceVars
  BY <1>1
<1>. HIDE DEF ChangesOnly
<1>3. deviceSpec => [][ChangesOnly]_deviceVars
  BY <1>2, ValuesAlways, PTL
<1>. QED BY <1>3 DEF ChangesOnly, UneditedApplyChangesOnly

\* The clock of a K6 is the fastest one that is not faster than what was asked
\* for, from any ratio and through any number of requests of its slider.
THEOREM ClockIsAlwaysClosest == deviceSpec => []ClockIsClosest
<1>1. ValuesInv => ClockIsClosest
  <2>. SUFFICES ASSUME ValuesInv, NEW d \in Devices, Kind[d] = "powernow", NEW mhz \in asked[d]
                PROVE  /\ Clock(device[d]) <= mhz + 1
                       /\ \A i \in 0 .. 7 : Clock(i) <= mhz => Clock(i) <= Clock(device[d])
    BY DEF ClockIsClosest
  <2>1. mhz \in 199 .. 601 /\ device[d] = set_cpu_frequency_K6(mhz)
    BY DEF ValuesInv
  <2>2. /\ Clock(device[d]) <= mhz + 1
        /\ \A i \in 0 .. 7 : Clock(i) <= mhz + 1 => Clock(i) <= Clock(device[d])
    BY <2>1, Ratio
  <2>3. \A i \in 0 .. 7 : Clock(i) <= mhz => Clock(i) <= mhz + 1
    BY <2>1, Clocks
  <2>. QED BY <2>2, <2>3
<1>. QED BY <1>1, ValuesAlways, PTL

=============================================================================
