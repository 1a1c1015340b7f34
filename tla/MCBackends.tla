------------------------------ MODULE MCBackends ------------------------------
(***************************************************************************)
(* Five specifications that share nothing, checked in one run: every       *)
(* behaviour is one of a part, the others keep one initial state.          *)
(*                                                                         *)
(* ProcFile: a file of up to two numbers, as the kernel has it, with a     *)
(* tweak for each of two (printk), and a file of one number, a switch.     *)
(* ValueDevices: one device of every kind, of which a machine has one at a *)
(* time: chars of three bits, 200 bytes of memory, a limit of half of it.  *)
(* Descriptions: buses with devices that are alike, and two wildcards with *)
(* two directory entries and a hidden one.                                 *)
(* Profile: as MCProfile has it.                                           *)
(* Plugins: two plugins on the PCI bus, of which one stays without         *)
(* hardware, one that may register a tweak and fail, and one of neither.   *)
(***************************************************************************)
EXTENDS ProcFile, ValueDevices, Descriptions, MCProfile, Plugins, TLC

CONSTANTS
  printk, forwarding, console, default, forward,
  hdc, lcd, shmmax, cpu, hda,
  bridge, nic

MCFile == [t \in Tweaks |-> IF t = forward THEN forwarding ELSE printk]
MCElement ==
  [t \in Tweaks |-> CASE t = console -> 0 [] t = default -> 1 [] t = forward -> -1]
MCOrder ==
  [t \in Tweaks |-> CASE t = console -> 0 [] t = default -> 1 [] t = forward -> 2]
MCWidget == [t \in Tweaks |-> IF t = forward THEN "checkbox" ELSE "number"]
MCSizes == [f \in Files |-> IF f = printk THEN 0 .. 2 ELSE {1}]
MCReach == [f \in Files |-> IF f = printk THEN 2 ELSE 1]
MCLegal ==
  [f \in Files |-> [i \in 0 .. 61 |-> IF i = 0 THEN {0, 1} ELSE {1, 2}]]

MCKind ==
  [d \in Devices |-> CASE d = hdc -> "cdrom" [] d = lcd -> "sonypi" [] d = shmmax -> "shm"
                       [] d = cpu -> "powernow" [] d = hda -> "smart"]
MCHolds ==
  [d \in Devices |-> CASE d = hdc -> {0, 8, 40} [] d = lcd -> 0 .. Char - 1 [] d = shmmax -> {100}
                       [] d = cpu -> 0 .. 7 [] d = hda -> {0, 1}]
MCAsks ==
  [d \in Devices |-> CASE d = hdc -> {0, 8} [] d = lcd -> {0, Char - 1} [] d = shmmax -> {0, 200}
                       [] d = cpu -> {249, 349, 599} [] d = hda -> {0, 1}]

\* All buses with up to three devices.
MCBuses ==
  UNION {[1 .. n -> [id : {bridge, nic}, master : BOOLEAN]] : n \in 0 .. 3}
MCName == [i \in {bridge, nic} |-> i]
MCRegisters == [i \in {bridge, nic} |-> IF i = bridge THEN {"caching", "bursts"} ELSE {}]
MCWildcards ==
  {[menu |-> "TCP", tab |-> "*", frame |-> NULL, text |-> "RP Filter"],
   [menu |-> "ARP", tab |-> "*", frame |-> "ARP cache size", text |-> "Minimum number"]}

-----------------------------------------------------------------------------

VARIABLE part
MCvars == <<part, vars, deviceVars, descriptionVars, profileVars, pluginVars>>

\* The one initial state of a part that is not active.
ProcAsleep ==
  /\ size = [f \in Files |-> 1] /\ element = [f \in Files |-> [i \in {0} |-> 0]]
  /\ access = [f \in Files |-> "none"]
DevicesAsleep ==
  there = {} /\ silent = {} /\ device = [d \in Devices |-> CHOOSE b \in Holds[d] : TRUE]
DescriptionsAsleep == bus = <<>> /\ present = {}
ProfilesAsleep == value = [t \in Known |-> 0]
PluginsAsleep == hardware = {}

\* Devices do not interact: a machine has one of them, which is its part.
OneDevice ==
  /\ there \in {{}, {part}} /\ silent \in {{}, {part}}
  /\ \E b \in Holds[part] :
       device = [d \in Devices |-> IF d = part THEN b ELSE CHOOSE c \in Holds[d] : TRUE]

MCInit ==
  /\ part \in {"proc", "descriptions", "profiles", "plugins"} \cup Devices
  /\ part = "proc" \/ ProcAsleep
  /\ IF part \in Devices THEN OneDevice ELSE DevicesAsleep
  /\ part = "descriptions" \/ DescriptionsAsleep
  /\ part = "profiles" \/ ProfilesAsleep
  /\ part = "plugins" \/ PluginsAsleep
  /\ Init /\ deviceInit /\ descriptionInit /\ profileInit /\ pluginInit

MCNext ==
  /\ UNCHANGED part
  /\ \/ part = "proc" /\ Next
     \/ part # "proc" /\ UNCHANGED vars
  /\ \/ part \in Devices /\ deviceNext /\ there' \subseteq {part}
     \/ part \notin Devices /\ UNCHANGED deviceVars
  /\ \/ part = "descriptions" /\ descriptionNext
     \/ part # "descriptions" /\ UNCHANGED descriptionVars
  /\ \/ part = "profiles" /\ profileNext
     \/ part # "profiles" /\ UNCHANGED profileVars
  /\ \/ part = "plugins" /\ pluginNext
     \/ part # "plugins" /\ UNCHANGED pluginVars

MCSpec == MCInit /\ [][MCNext]_MCvars

Interchangeable == Permutations(Procs)
=============================================================================
