-------------------------- MODULE DescriptionsProofs --------------------------
(***************************************************************************)
(* Proofs about module Descriptions, for any bus, any description files,   *)
(* any wildcards and any order of plugins and directories.                 *)
(***************************************************************************)
EXTENDS Descriptions, FiniteSetTheorems, TLAPS

Machine == bus \in Buses /\ present \subseteq Wildcards \X Entries
Plugins == {"latency", "PCI", "proc"}

\* The devices of i's id in front of it.
Seen(i) == {j \in {k \in DOMAIN bus : bus[k].id = bus[i].id} : j < i}

-----------------------------------------------------------------------------
(* Names *)

LEMMA Bus ==
  ASSUME Machine
  PROVE  /\ bus \in Seq([id : DOMAIN Name, master : BOOLEAN])
         /\ DOMAIN bus \subseteq Nat
         /\ \A i \in DOMAIN bus : IsFiniteSet(Seen(i)) /\ Cardinality(Seen(i)) \in Nat
<1>1. bus \in Seq([id : DOMAIN Name, master : BOOLEAN])
  BY DescriptionsAssumption DEF Machine
<1>2. DOMAIN bus = 1 .. Len(bus) /\ Len(bus) \in Nat
  BY <1>1
<1>3. IsFiniteSet(DOMAIN bus)
  BY <1>2, FS_Interval
<1>4. ASSUME NEW i \in DOMAIN bus
      PROVE  IsFiniteSet(Seen(i)) /\ Cardinality(Seen(i)) \in Nat
  <2>1. Seen(i) \subseteq DOMAIN bus
    BY DEF Seen
  <2>. QED BY <2>1, <1>3, FS_Subset, FS_CardinalityType
<1>. QED BY <1>1, <1>2, <1>4

\* A device has seen all that one of its id in front of it has, and that one.
LEMMA SeenMore ==
  ASSUME Machine, NEW i \in DOMAIN bus, NEW j \in DOMAIN bus,
         i < j, bus[i].id = bus[j].id
  PROVE  Cardinality(Seen(i)) + 1 <= Cardinality(Seen(j))
<1>1. /\ IsFiniteSet(Seen(i)) /\ Cardinality(Seen(i)) \in Nat
      /\ IsFiniteSet(Seen(j)) /\ Cardinality(Seen(j)) \in Nat
      /\ DOMAIN bus \subseteq Nat
  BY Bus
<1>2. i \notin Seen(i)
  BY <1>1 DEF Seen
<1>3. Cardinality(Seen(i) \cup {i}) = Cardinality(Seen(i)) + 1
  BY <1>1, <1>2, FS_AddElement
<1>4. Seen(i) \cup {i} \subseteq Seen(j)
  BY <1>1 DEF Seen
<1>. QED BY <1>1, <1>3, <1>4, FS_Subset

\* The number behind the name.
Number(i) ==
  IF Cardinality(Seen(i)) # 0 THEN Cardinality(Seen(i)) + 1
  ELSE IF {j \in DOMAIN bus : bus[j].id = bus[i].id} # {i} THEN 1 ELSE 0

LEMMA NumberedName == \A i : find_devicename(i) = <<Name[bus[i].id], Number(i)>>
BY DEF find_devicename, Number, Seen

LEMMA NumbersDiffer ==
  ASSUME Machine, NEW i \in DOMAIN bus, NEW j \in DOMAIN bus,
         i < j, bus[i].id = bus[j].id
  PROVE  Number(i) # Number(j)
<1>1. Cardinality(Seen(i)) \in Nat /\ Cardinality(Seen(j)) \in Nat
  BY Bus
<1>2. Cardinality(Seen(i)) + 1 <= Cardinality(Seen(j))
  BY SeenMore
<1>3. Number(j) = Cardinality(Seen(j)) + 1
  BY <1>1, <1>2 DEF Number
<1>4. Number(i) \in {Cardinality(Seen(i)) + 1, 1, 0}
  BY DEF Number
<1>. QED BY <1>1, <1>2, <1>3, <1>4

\* No two devices of a machine have one name.
LEMMA NamesDiffer ==
  ASSUME Machine, NEW i \in DOMAIN bus, NEW j \in DOMAIN bus,
         find_devicename(i) = find_devicename(j)
  PROVE  i = j
<1>1. Name[bus[i].id] = Name[bus[j].id] /\ Number(i) = Number(j)
  BY NumberedName
<1>2. bus[i].id = bus[j].id
  BY <1>1, DescriptionsAssumption DEF Machine
<1>3. i \in Nat /\ j \in Nat
  BY Bus
<1>4. ~(i < j) /\ ~(j < i)
  BY <1>1, <1>2, NumbersDiffer
<1>. QED BY <1>3, <1>4

-----------------------------------------------------------------------------
(* Places *)

Everything == UNION {Offers(p) : p \in Plugins}

LEMMA Kinds ==
  ASSUME NEW t \in Everything
  PROVE  \/ \E i \in DOMAIN bus : t = add_latency_tweak(i)
         \/ \E i \in DOMAIN bus : \E r :
              t = [place |-> AddTo_PCI_tree(i, Frame, r), drives |-> [register |-> r, device |-> i]]
         \/ \E f \in present : t = expand_wildcard_tweak(f[1], f[2])
<1>1. \/ t \in Offers("latency")
      \/ t \in Offers("PCI")
      \/ t \in Offers("proc")
  BY DEF Everything, Plugins
<1>2. CASE t \in Offers("latency")
  BY <1>2 DEF Offers
<1>3. CASE t \in Offers("PCI")
  <2>1. PICK i \in DOMAIN bus : t \in parse_file(i)
    BY <1>3 DEF Offers
  <2>. QED BY <2>1 DEF parse_file
<1>4. CASE t \in Offers("proc")
  BY <1>4 DEF Offers
<1>. QED BY <1>1, <1>2, <1>3, <1>4

\* What the places of tweaks of devices and of files have in common.
LEMMA DevicePlaces ==
  \A i, j, f, g, r, q :
    AddTo_PCI_tree(i, f, r) = AddTo_PCI_tree(j, g, q)
    => find_devicename(i) = find_devicename(j) /\ f = g /\ r = q
BY DEF AddTo_PCI_tree

LEMMA FramesDiffer == FrameName # Frame
BY DEF FrameName, Frame

LEMMA FilePlaces ==
  ASSUME NEW v \in Wildcards, NEW w \in Wildcards, NEW d, NEW e,
         expand_wildcard_tweak(v, d).place = expand_wildcard_tweak(w, e).place
  PROVE  v = w /\ d = e
<1>1. /\ v.menu = w.menu /\ v.text = w.text
      /\ NewTab(v, d) = NewTab(w, e) /\ NewFrame(v, d) = NewFrame(w, e)
  BY DEF expand_wildcard_tweak
<1>2. v = w
  BY <1>1, DescriptionsAssumption
<1>3. v.tab \in {NULL, "*"} \/ v.frame \in {NULL, "*"}
  BY DescriptionsAssumption
<1>4. d = e
  BY <1>1, <1>2, <1>3 DEF NewTab, NewFrame
<1>. QED BY <1>2, <1>4

LEMMA PlacesApart ==
  ASSUME NEW i, NEW f, NEW r, NEW w, NEW e
  PROVE  AddTo_PCI_tree(i, f, r) # expand_wildcard_tweak(w, e).place
<1>1. Len(AddTo_PCI_tree(i, f, r)) = 5
  BY DEF AddTo_PCI_tree
<1>2. Len(expand_wildcard_tweak(w, e).place) = 4
  BY DEF expand_wildcard_tweak
<1>. QED BY <1>1, <1>2

\* Nothing that a plugin offers has the place of anything else.
LEMMA PlacesTellApart ==
  ASSUME Machine, NEW t \in Everything, NEW u \in Everything, t.place = u.place
  PROVE  t = u
<1>1. CASE \E f \in present : t = expand_wildcard_tweak(f[1], f[2])
  <2>1. PICK f \in present : t = expand_wildcard_tweak(f[1], f[2])
    BY <1>1
  <2>3. \A i, h, r : u.place # AddTo_PCI_tree(i, h, r)
    BY <2>1, PlacesApart
  <2>4. \A i : add_latency_tweak(i).place = AddTo_PCI_tree(i, FrameName, WidgetText)
    BY DEF add_latency_tweak
  <2>5. PICK g \in present : u = expand_wildcard_tweak(g[1], g[2])
    BY <2>3, <2>4, Kinds
  <2>6. f[1] \in Wildcards /\ g[1] \in Wildcards
    BY DEF Machine
  <2>. QED BY <2>1, <2>5, <2>6, FilePlaces
<1>2. CASE \A f \in present : t # expand_wildcard_tweak(f[1], f[2])
  <2>1. PICK i \in DOMAIN bus :
          \/ t = add_latency_tweak(i)
          \/ \E r : t = [place |-> AddTo_PCI_tree(i, Frame, r), drives |-> [register |-> r, device |-> i]]
    BY <1>2, Kinds
  <2>2. PICK h, r : t.place = AddTo_PCI_tree(i, h, r)
    BY <2>1 DEF add_latency_tweak
  <2>3. \A f \in present : u # expand_wildcard_tweak(f[1], f[2])
    BY <2>2, PlacesApart
  <2>4. PICK j \in DOMAIN bus :
          \/ u = add_latency_tweak(j)
          \/ \E q : u = [place |-> AddTo_PCI_tree(j, Frame, q), drives |-> [register |-> q, device |-> j]]
    BY <2>3, Kinds
  <2>5. PICK g, q : u.place = AddTo_PCI_tree(j, g, q)
    BY <2>4 DEF add_latency_tweak
  <2>6. i = j
    <3>1. AddTo_PCI_tree(i, h, r) = AddTo_PCI_tree(j, g, q)
      BY <2>2, <2>5
    <3>2. find_devicename(i) = find_devicename(j)
      BY <3>1, DevicePlaces
    <3>. QED BY <3>2, NamesDiffer
  <2>7. \A k : add_latency_tweak(k).place = AddTo_PCI_tree(k, FrameName, WidgetText)
    BY DEF add_latency_tweak
  <2>8. \A s, z : AddTo_PCI_tree(i, FrameName, s) # AddTo_PCI_tree(j, Frame, z)
    BY DevicePlaces, FramesDiffer
  <2>9. \A s, z : AddTo_PCI_tree(i, Frame, s) # AddTo_PCI_tree(j, FrameName, z)
    BY DevicePlaces, FramesDiffer
  <2>10. CASE t = add_latency_tweak(i)
    <3>1. \A z : u.place # AddTo_PCI_tree(j, Frame, z)
      BY <2>7, <2>8, <2>10
    <3>. QED BY <2>4, <2>6, <2>10, <3>1
  <2>11. ASSUME NEW s, t = [place |-> AddTo_PCI_tree(i, Frame, s), drives |-> [register |-> s, device |-> i]]
         PROVE  t = u
    <3>1. t.place = AddTo_PCI_tree(i, Frame, s)
      BY <2>11
    <3>2. u # add_latency_tweak(j)
      BY <2>7, <2>9, <3>1
    <3>3. PICK z : u = [place |-> AddTo_PCI_tree(j, Frame, z), drives |-> [register |-> z, device |-> j]]
      BY <2>4, <3>2
    <3>4. u.place = AddTo_PCI_tree(j, Frame, z)
      BY <3>3
    <3>5. AddTo_PCI_tree(i, Frame, s) = AddTo_PCI_tree(j, Frame, z)
      BY <3>1, <3>4
    <3>6. s = z
      BY <3>5, DevicePlaces
    <3>. QED BY <2>6, <2>11, <3>3, <3>6
  <2>. QED BY <2>1, <2>10, <2>11
<1>. QED BY <1>1, <1>2

-----------------------------------------------------------------------------
(* The tree *)

\* What plugins that were initialised have offered is in the tree or about to
\* be: nothing was refused but what is there already.
IInv ==
  /\ Machine
  /\ toLoad \subseteq Plugins
  /\ \A t : t \in tree \cup offered <=> \E p \in Plugins \ toLoad : t \in Offers(p)

LEMMA InvInit == descriptionInit => IInv
<1>. SUFFICES ASSUME descriptionInit PROVE IInv
  OBVIOUS
<1>1. Machine
  BY DEF descriptionInit, Machine
<1>2. toLoad = Plugins /\ tree \cup offered = {}
  BY DEF descriptionInit, Plugins
<1>. QED BY <1>1, <1>2 DEF IInv

LEMMA InvNext == IInv /\ [descriptionNext]_descriptionVars => IInv'
<1>. SUFFICES ASSUME IInv, [descriptionNext]_descriptionVars
              PROVE  IInv'
  OBVIOUS
<1>. USE DEF IInv
<1>1. UNCHANGED machineHas => \A p : Offers(p)' = Offers(p)
  BY DEF machineHas, Offers, add_latency_tweak, parse_file, expand_wildcard_tweak,
         AddTo_PCI_tree, find_devicename
<1>2. UNCHANGED machineHas => Machine'
  BY DEF machineHas, Machine
<1>3. ASSUME NEW plugin \in toLoad, LoadDescriptions(plugin)
      PROVE  IInv'
  <2>1. /\ toLoad' = toLoad \ {plugin} /\ offered = {} /\ offered' = Offers(plugin)
        /\ UNCHANGED machineHas /\ tree' = tree
    BY <1>3 DEF LoadDescriptions
  <2>2. \A p : p \in Plugins \ toLoad' <=> p = plugin \/ p \in Plugins \ toLoad
    BY <2>1
  <2>3. \A t : t \in tree' \cup offered' <=> t \in tree \cup offered \/ t \in Offers(plugin)
    BY <2>1
  <2>4. \A t : t \in tree' \cup offered' <=> \E p \in Plugins \ toLoad' : t \in Offers(p)
    BY <2>2, <2>3
  <2>5. \A t : t \in tree' \cup offered' <=> \E p \in Plugins \ toLoad' : t \in Offers(p)'
    BY <1>1, <2>1, <2>4
  <2>. QED BY <1>2, <2>1, <2>5
<1>4. ASSUME NEW t \in offered, RegisterOffered(t)
      PROVE  IInv'
  <2>1. /\ offered' = offered \ {t} /\ toLoad' = toLoad /\ UNCHANGED machineHas
        /\ tree' = IF \E u \in tree : u.place = t.place THEN tree ELSE tree \cup {t}
    BY <1>4 DEF RegisterOffered
  <2>2. tree \cup offered \subseteq Everything
    BY DEF Everything
  <2>3. CASE \E u \in tree : u.place = t.place
    <3>1. t \in tree
      BY <2>2, <2>3, PlacesTellApart
    <3>. QED BY <1>1, <1>2, <2>1, <2>3, <3>1
  <2>4. CASE ~\E u \in tree : u.place = t.place
    BY <1>1, <1>2, <2>1, <2>4
  <2>. QED BY <2>3, <2>4
<1>5. CASE UNCHANGED descriptionVars
  BY <1>1, <1>2, <1>5 DEF descriptionVars
<1>. QED BY <1>3, <1>4, <1>5 DEF descriptionNext

\* In the end the tweaks in the tree drive what the machine has.
LEMMA InvImplies == IInv => TreeIsTheMachine
<1>. DEFINE Masters == {j \in DOMAIN bus : bus[j].master}
            Present == {g \in present : g[2] \notin Hidden}
<1>. SUFFICES ASSUME IInv, toLoad = {}, offered = {}
              PROVE  {t.drives : t \in tree} = Latencies \cup Described \cup Matched
  BY DEF TreeIsTheMachine
<1>1. \A t : t \in tree <=> t \in Offers("latency") \/ t \in Offers("PCI") \/ t \in Offers("proc")
  BY DEF IInv, Plugins
<1>2. \A d : d \in Latencies <=> \E t \in Offers("latency") : d = t.drives
  <2>. DEFINE Drive(i) == [latency |-> i]
  <2>1. \A i : add_latency_tweak(i).drives = Drive(i)
    BY DEF add_latency_tweak
  <2>2. \A t : t \in Offers("latency") <=> \E i \in Masters : t = add_latency_tweak(i)
    BY DEF Offers
  <2>3. \A d : d \in Latencies <=> \E i \in Masters : d = Drive(i)
    BY DEF Latencies
  <2>. HIDE DEF Drive, Masters
  <2>. QED BY <2>1, <2>2, <2>3
<1>3. \A d : d \in Described <=> \E t \in Offers("PCI") : d = t.drives
  <2>. DEFINE Drive(i, r) == [register |-> r, device |-> i]
              Tweak(i, r) == [place |-> AddTo_PCI_tree(i, Frame, r), drives |-> Drive(i, r)]
  <2>1. \A i, r : Tweak(i, r).drives = Drive(i, r)
    OBVIOUS
  <2>2. \A t : t \in Offers("PCI") <=> \E i \in DOMAIN bus : t \in parse_file(i)
    BY DEF Offers
  <2>3. \A i \in DOMAIN bus : \A t :
          t \in parse_file(i) <=> i \in First /\ \E r \in Registers[bus[i].id] : t = Tweak(i, r)
    BY DEF parse_file, First
  <2>4. \A d : d \in Described <=> \E i \in First : \E r \in Registers[bus[i].id] : d = Drive(i, r)
    BY DEF Described
  <2>5. First \subseteq DOMAIN bus
    BY DEF First
  <2>. HIDE DEF Tweak, Drive
  <2>6. \A t : t \in Offers("PCI") <=> \E i \in First : \E r \in Registers[bus[i].id] : t = Tweak(i, r)
    BY <2>2, <2>3, <2>5
  <2>. QED BY <2>1, <2>4, <2>6
<1>4. \A d : d \in Matched <=> \E t \in Offers("proc") : d = t.drives
  <2>. DEFINE Drive(f) == [wildcard |-> f[1], entry |-> f[2]]
              Tweak(f) == expand_wildcard_tweak(f[1], f[2])
  <2>1. \A f : Tweak(f).drives = Drive(f)
    BY DEF expand_wildcard_tweak
  <2>2. \A t : t \in Offers("proc") <=> \E f \in Present : t = Tweak(f)
    BY DEF Offers
  <2>3. \A d : d \in Matched <=> \E f \in Present : d = Drive(f)
    BY DEF Matched
  <2>. HIDE DEF Tweak, Drive, Present
  <2>. QED BY <2>1, <2>2, <2>3
<1>. QED BY <1>1, <1>2, <1>3, <1>4

\* Whatever is on the bus and in the directories, however often a device
\* occurs and in whatever order plugins and files are read, every device and
\* every file has the tweak it is to have and no tweak takes another's place.
THEOREM TreeIsTheMachineAlways == descriptionSpec => []TreeIsTheMachine
BY InvInit, InvNext, InvImplies, PTL DEF descriptionSpec
=============================================================================
