----------------------------- MODULE Descriptions -----------------------------
(***************************************************************************)
(* Which tweaks a machine gets and where in the tree they are: the PCI     *)
(* devices of the bus (backends/PCI/pci.c, latency.c, xml.c) and the       *)
(* wildcards of the /proc descriptions (backends/proc/xml.c).              *)
(*                                                                         *)
(* RegisterTweak keeps one tweak in a place and destroys any other that is *)
(* registered there (Catalogue), so that places have to tell apart         *)
(* everything the machine has.  Plugins are initialised in any order.      *)
(***************************************************************************)
EXTENDS Naturals, Sequences, FiniteSets

CONSTANTS
  Buses,      \* sequences of devices: vendor and device id, bus master or not
  Name,       \* what pci.ids calls the devices with an id
  Registers,  \* the tweaks in the description file of an id
  Wildcards,  \* the /proc descriptions with "/*" in their file name
  Entries,    \* what may be in the directory where the wildcard is
  Hidden      \* those of them whose name begins with a dot

NULL == "NULL"

\* Names tell the ids of a machine apart, the text of a wildcard tells it from
\* others of its menu, and it goes into a tab or a frame of the name of the
\* entry: pci.ids and the shipped files agree.
ASSUME DescriptionsAssumption ==
  /\ Buses \subseteq Seq([id : DOMAIN Name, master : BOOLEAN])
  /\ \A b \in Buses : \A i, j \in DOMAIN b : b[i].id # b[j].id => Name[b[i].id] # Name[b[j].id]
  /\ \A w \in Wildcards : w.tab \in {NULL, "*"} \/ w.frame \in {NULL, "*"}
  /\ \A v, w \in Wildcards : v # w => v.menu # w.menu \/ v.text # w.text

VARIABLES
  bus,       \* pacc->devices
  present,   \* the files that exist: a description and an entry
  toLoad,    \* the plugins that have not been initialised
  offered,   \* tweaks the plugin is about to register
  tree       \* the tweaks that are registered

machineHas == <<bus, present>>
descriptionVars == <<machineHas, toLoad, offered, tree>>

\* Variant: the second of two devices gets the number of the first.
find_devicenameOffByOne(i) ==
  LET same == {j \in DOMAIN bus : bus[j].id = bus[i].id}
      seen == Cardinality({j \in same : j < i})
  IN <<Name[bus[i].id], IF seen # 0 THEN seen ELSE IF same # {i} THEN 1 ELSE 0>>

\* The name of a device, and its number if the bus has others of its id.
find_devicename(i) ==
  LET same == {j \in DOMAIN bus : bus[j].id = bus[i].id}
      seen == Cardinality({j \in same : j < i})
  IN <<Name[bus[i].id], IF seen # 0 THEN seen + 1 ELSE IF same # {i} THEN 1 ELSE 0>>

\* The place of a tweak of a PCI device.
AddTo_PCI_tree(i, frame, text) == <<"PCI", find_devicename(i), "Tweaks", frame, text>>

\* The texts of latencies; no description has a frame of that name.
FrameName == "PCI Latency"
WidgetText == "Latency"
Frame == "Registers"

add_latency_tweak(i) ==
  [place |-> AddTo_PCI_tree(i, FrameName, WidgetText), drives |-> [latency |-> i]]

\* The description of an id is for the first device that has it.
parse_file(i) ==
  {[place |-> AddTo_PCI_tree(i, Frame, r), drives |-> [register |-> r, device |-> i]] :
     r \in IF \E j \in 1 .. i - 1 : bus[j].id = bus[i].id THEN {} ELSE Registers[bus[i].id]}

\* Where the tweak goes that a wildcard is expanded to.
NewTab(w, e) == IF w.tab \in {NULL, "*"} THEN e ELSE w.tab
NewFrame(w, e) ==
  IF w.tab \notin {NULL, "*"} /\ w.frame \in {NULL, "*"} THEN e ELSE w.frame

expand_wildcard_tweak(w, e) ==
  [place |-> <<w.menu, NewTab(w, e), NewFrame(w, e), w.text>>, drives |-> [wildcard |-> w, entry |-> e]]

\* The tweaks that the InitPlugin of a plugin registers.
Offers(plugin) ==
  CASE plugin = "latency" -> {add_latency_tweak(i) : i \in {j \in DOMAIN bus : bus[j].master}}
    [] plugin = "PCI"     -> UNION {parse_file(i) : i \in DOMAIN bus}
    [] plugin = "proc"    -> {expand_wildcard_tweak(f[1], f[2]) : f \in {g \in present : g[2] \notin Hidden}}

-----------------------------------------------------------------------------

descriptionInit ==
  /\ bus \in Buses
  /\ present \in SUBSET (Wildcards \X Entries)
  /\ toLoad = {"latency", "PCI", "proc"}
  /\ offered = {} /\ tree = {}

LoadDescriptions(plugin) ==
  /\ offered = {} /\ plugin \in toLoad
  /\ toLoad' = toLoad \ {plugin}
  /\ offered' = Offers(plugin)
  /\ UNCHANGED <<machineHas, tree>>

\* RegisterTweak: whoever comes first keeps the place.
RegisterOffered(t) ==
  /\ t \in offered
  /\ offered' = offered \ {t}
  /\ tree' = IF \E u \in tree : u.place = t.place THEN tree ELSE tree \cup {t}
  /\ UNCHANGED <<machineHas, toLoad>>

descriptionNext ==
  \/ \E plugin \in toLoad : LoadDescriptions(plugin)
  \/ \E t \in offered : RegisterOffered(t)

descriptionSpec == descriptionInit /\ [][descriptionNext]_descriptionVars

-----------------------------------------------------------------------------
(* Properties *)

\* What the machine has to drive: the bus masters, the described registers of
\* the first device of each id, the files that a wildcard matches.
Latencies == {[latency |-> i] : i \in {j \in DOMAIN bus : bus[j].master}}
First == {j \in DOMAIN bus : \A k \in 1 .. j - 1 : bus[k].id # bus[j].id}
Described == UNION {{[register |-> r, device |-> i] : r \in Registers[bus[i].id]} : i \in First}
Matched == {[wildcard |-> f[1], entry |-> f[2]] : f \in {g \in present : g[2] \notin Hidden}}

\* In whatever order plugins and directories are read, in the end everything
\* the machine has is driven by a tweak of its own, also when several devices
\* have the same id and name, and nothing else is in the tree.
TreeIsTheMachine ==
  toLoad = {} /\ offered = {} =>
    {t.drives : t \in tree} = Latencies \cup Described \cup Matched

=============================================================================
