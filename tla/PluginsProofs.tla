---------------------------- MODULE PluginsProofs ----------------------------
(***************************************************************************)
(* Proofs about module Plugins, for any set of plugins and any number of   *)
(* reloads and changes of the machine.                                     *)
(***************************************************************************)
EXTENDS Plugins, TLAPS, SequenceTheorems

CoreTime == pc \in {"loadcore", "initcore"}

\* No entry occurs twice, every entry is mapped and nothing that is still to
\* be loaded is; the core plugin is alone until it has its own list.
ListsInv ==
  /\ \A i \in DOMAIN initfunctions : initfunctions[i] \in loaded
  /\ \A i \in DOMAIN coreinitfunctions : coreinitfunctions[i] \in loaded
  /\ unread \cap loaded = {}
  /\ \A i, j \in DOMAIN initfunctions :
       initfunctions[i] = initfunctions[j] => i = j
  /\ CoreTime => /\ loaded \subseteq {Pcilib} /\ unread \subseteq {Pcilib}
                 /\ coreinitfunctions = <<>>
  /\ ~CoreTime => /\ unread \subseteq Normal
                  /\ \A i \in DOMAIN initfunctions : initfunctions[i] \in Normal

\* A plugin owns tweaks only if it was initialised, and the entries before entry
\* have been, those from entry on have not.
RunsInv ==
  /\ \A p \in PluginFiles : runs[p] \in {0, 1}
  /\ \A p \in owners : runs[p] = 1 /\ (p \in loaded \/ p \in Partial)
  /\ pc \in {"loadcore", "initcore", "loadnormal"} => \A p \in Normal : runs[p] = 0
  /\ pc = "loadcore" => runs[Pcilib] = 0
  /\ pc \in {"loadcore", "loadnormal"} => entry = 1
  /\ pc \in {"initcore", "initnormal"} =>
       \A i \in DOMAIN initfunctions :
         runs[initfunctions[i]] = IF i < entry THEN 1 ELSE 0
  /\ pc = "shutdown" /\ mode = "reload" => \A p \in PluginFiles : runs[p] = 0
  /\ pc = "serving" => \A i \in DOMAIN initfunctions : runs[initfunctions[i]] = 1

\* The devices are there exactly while their callback is registered.
BusInv ==
  /\ callbacks \in {<<>>, <<Pcilib>>}
  /\ pacc <=> callbacks = <<Pcilib>>
  /\ callbacks = <<Pcilib>> => Pcilib \in loaded
  /\ CoreTime => owners = {} /\ (runs[Pcilib] = 0 => callbacks = <<>>)
  /\ pc \in {"shutdown", "freelists", "gone", "abort"} => owners = {}
  /\ pc \in {"freelists", "gone"} => callbacks = <<>>
  /\ owners \cap OnBus # {} => pacc

IInv == PluginTypeOK /\ ListsInv /\ RunsInv /\ BusInv

-----------------------------------------------------------------------------
(* The lists *)

LEMMA Removed ==
  ASSUME NEW S, NEW s \in Seq(S), NEW i \in 1 .. Len(s)
  PROVE  /\ RemoveAt(s, i) \in Seq(S)
         /\ Len(RemoveAt(s, i)) = Len(s) - 1
         /\ \A k \in 1 .. Len(s) - 1 :
              RemoveAt(s, i)[k] = IF k < i THEN s[k] ELSE s[k + 1]
<1>. DEFINE a == SubSeq(s, 1, i - 1)
            b == SubSeq(s, i + 1, Len(s))
<1>1. a \in Seq(S) /\ Len(a) = i - 1 /\ \A k \in 1 .. i - 1 : a[k] = s[k]
  OBVIOUS
<1>2. b \in Seq(S) /\ Len(b) = Len(s) - i /\ \A k \in 1 .. Len(s) - i : b[k] = s[k + i]
  OBVIOUS
<1>3. RemoveAt(s, i) = a \o b
  BY DEF RemoveAt
<1>. HIDE DEF a, b
<1>4. a \o b \in Seq(S) /\ Len(a \o b) = Len(s) - 1
  <2>1. Len(s) \in Nat /\ i \in Nat
    OBVIOUS
  <2>2. a \o b \in Seq(S) /\ Len(a \o b) = Len(a) + Len(b)
    BY <1>1, <1>2, ConcatProperties
  <2>. QED BY <1>1, <1>2, <2>1, <2>2
<1>5. ASSUME NEW k \in 1 .. Len(s) - 1
      PROVE  (a \o b)[k] = IF k < i THEN s[k] ELSE s[k + 1]
  <2>1. CASE k < i
    BY <1>1, <1>2, <2>1
  <2>2. CASE ~(k < i)
    <3>1. (a \o b)[k] = b[k - (i - 1)] /\ k - (i - 1) \in 1 .. Len(s) - i
      BY <1>1, <1>2, <2>2
    <3>. QED BY <1>2, <2>2, <3>1
  <2>. QED BY <2>1, <2>2
<1>. QED BY <1>3, <1>4, <1>5

LEMMA Pushed ==
  ASSUME NEW S, NEW s \in Seq(S), NEW e \in S
  PROVE  /\ <<e>> \o s \in Seq(S)
         /\ Len(<<e>> \o s) = Len(s) + 1
         /\ \A k \in 1 .. Len(s) + 1 :
              (<<e>> \o s)[k] = IF k = 1 THEN e ELSE s[k - 1]
OBVIOUS

LEMMA Elements ==
  ASSUME NEW S, NEW T, NEW s \in Seq(S), \A i \in DOMAIN s : s[i] \in T
  PROVE  s \in Seq(T)
BY SeqDef

-----------------------------------------------------------------------------
(* The invariant *)

LEMMA InvInit == pluginInit => IInv
<1>. SUFFICES ASSUME pluginInit PROVE IInv
  OBVIOUS
<1>1. PluginTypeOK
  <2>1. initfunctions \in Seq(PluginFiles) /\ coreinitfunctions \in Seq({Pcilib})
        /\ callbacks \in Seq({Pcilib}) /\ Len(initfunctions) = 0
    BY DEF pluginInit
  <2>2. entry \in 1 .. Len(initfunctions) + 1 /\ entry \in Nat
    BY <2>1 DEF pluginInit
  <2>3. hardware \subseteq PluginFiles /\ unread \subseteq PluginFiles /\ runs \in [PluginFiles -> Nat]
    BY DEF pluginInit, PluginFiles
  <2>. QED BY <2>1, <2>2, <2>3 DEF pluginInit, PluginTypeOK, Pcs
<1>2. ListsInv
  BY DEF pluginInit, ListsInv, CoreTime
<1>3. RunsInv
  BY PluginAssumption DEF pluginInit, RunsInv, PluginFiles
<1>4. BusInv
  BY DEF pluginInit, BusInv, CoreTime
<1>. QED BY <1>1, <1>2, <1>3, <1>4 DEF IInv

\* Steps that neither load, initialise nor unload a plugin.
LEMMA InvQuiet ==
  ASSUME IInv,
         \/ DirectoryRead \/ DirectoryMissing \/ Segfault \/ NormalInitialised
         \/ restart \/ Exit \/ DestroyAllTweaks \/ AfterShutdown
         \/ ShutdownPlugins \/ DestroyInitFuncList
         \/ (\E p \in PluginFiles : Plug(p)) \/ UNCHANGED pluginVars
  PROVE  IInv'
<1>1. CASE DirectoryRead
  <2>1. PluginTypeOK'
    BY <1>1 DEF IInv, PluginTypeOK, Pcs, PluginFiles, DirectoryRead, loading, built, world
  <2>2. ListsInv'
    BY <1>1 DEF IInv, ListsInv, CoreTime, DirectoryRead, loading, built, world
  <2>3. RunsInv'
    BY <1>1 DEF IInv, PluginTypeOK, ListsInv, CoreTime, RunsInv, PluginFiles, DirectoryRead, loading, built, world
  <2>4. BusInv'
    BY <1>1 DEF IInv, PluginTypeOK, BusInv, CoreTime, DirectoryRead, loading, built, world
  <2>. QED BY <2>1, <2>2, <2>3, <2>4 DEF IInv
<1>2. CASE DirectoryMissing
  <2>1. PluginTypeOK'
    BY <1>2 DEF IInv, PluginTypeOK, Pcs, PluginFiles, DirectoryMissing, loading, built, world
  <2>2. ListsInv'
    BY <1>2 DEF IInv, ListsInv, CoreTime, DirectoryMissing, loading, built, world
  <2>3. RunsInv'
    BY <1>2 DEF IInv, PluginTypeOK, ListsInv, CoreTime, RunsInv, PluginFiles, DirectoryMissing, loading, built, world
  <2>4. BusInv'
    BY <1>2 DEF IInv, PluginTypeOK, RunsInv, BusInv, CoreTime, DirectoryMissing, loading, built, world
  <2>. QED BY <2>1, <2>2, <2>3, <2>4 DEF IInv
<1>3. CASE Segfault
  <2>1. PluginTypeOK'
    BY <1>3 DEF IInv, PluginTypeOK, Pcs, PluginFiles, Segfault, loading, built, world
  <2>2. ListsInv'
    BY <1>3 DEF IInv, ListsInv, CoreTime, Segfault, loading, built, world
  <2>3. RunsInv'
    BY <1>3 DEF IInv, PluginTypeOK, RunsInv, Segfault, loading, built, world
  <2>4. BusInv'
    BY <1>3 DEF IInv, PluginTypeOK, BusInv, CoreTime, Segfault, loading, built, world
  <2>. QED BY <2>1, <2>2, <2>3, <2>4 DEF IInv
<1>4. CASE NormalInitialised
  <2>1. PluginTypeOK'
    BY <1>4 DEF IInv, PluginTypeOK, Pcs, PluginFiles, NormalInitialised, loading, built, world
  <2>2. ListsInv'
    BY <1>4 DEF IInv, ListsInv, CoreTime, NormalInitialised, loading, built, world
  <2>3. RunsInv'
    BY <1>4 DEF IInv, PluginTypeOK, RunsInv, NormalInitialised, loading, built, world
  <2>4. BusInv'
    BY <1>4 DEF IInv, PluginTypeOK, BusInv, CoreTime, NormalInitialised, loading, built, world
  <2>. QED BY <2>1, <2>2, <2>3, <2>4 DEF IInv
<1>5. CASE restart
  <2>1. PluginTypeOK'
    BY <1>5 DEF IInv, PluginTypeOK, Pcs, PluginFiles, restart, loading, built, world
  <2>2. ListsInv'
    BY <1>5 DEF IInv, ListsInv, CoreTime, restart, loading, built, world
  <2>3. RunsInv'
    BY <1>5 DEF IInv, PluginTypeOK, RunsInv, restart, loading, built, world
  <2>4. BusInv'
    BY <1>5 DEF IInv, PluginTypeOK, BusInv, CoreTime, restart, loading, built, world
  <2>. QED BY <2>1, <2>2, <2>3, <2>4 DEF IInv
<1>6. CASE Exit
  <2>1. PluginTypeOK'
    BY <1>6 DEF IInv, PluginTypeOK, Pcs, PluginFiles, Exit, loading, built, world
  <2>2. ListsInv'
    BY <1>6 DEF IInv, ListsInv, CoreTime, Exit, loading, built, world
  <2>3. RunsInv'
    BY <1>6 DEF IInv, PluginTypeOK, RunsInv, Exit, loading, built, world
  <2>4. BusInv'
    BY <1>6 DEF IInv, PluginTypeOK, BusInv, CoreTime, Exit, loading, built, world
  <2>. QED BY <2>1, <2>2, <2>3, <2>4 DEF IInv
<1>7. CASE DestroyAllTweaks
  <2>1. PluginTypeOK'
    BY <1>7 DEF IInv, PluginTypeOK, Pcs, PluginFiles, DestroyAllTweaks, loading, built, world
  <2>2. ListsInv'
    BY <1>7 DEF IInv, ListsInv, CoreTime, DestroyAllTweaks, loading, built, world
  <2>3. RunsInv'
    BY <1>7 DEF IInv, PluginTypeOK, RunsInv, DestroyAllTweaks, loading, built, world
  <2>4. BusInv'
    BY <1>7 DEF IInv, PluginTypeOK, BusInv, CoreTime, DestroyAllTweaks, loading, built, world
  <2>. QED BY <2>1, <2>2, <2>3, <2>4 DEF IInv
<1>8. CASE AfterShutdown
  <2>1. PluginTypeOK'
    BY <1>8 DEF IInv, PluginTypeOK, Pcs, PluginFiles, AfterShutdown, loading, built, world
  <2>2. ListsInv'
    BY <1>8 DEF IInv, ListsInv, CoreTime, AfterShutdown, loading, built, world
  <2>3. RunsInv'
    BY <1>8 DEF IInv, PluginTypeOK, RunsInv, AfterShutdown, loading, built, world
  <2>4. BusInv'
    BY <1>8 DEF IInv, PluginTypeOK, BusInv, CoreTime, AfterShutdown, loading, built, world
  <2>. QED BY <2>1, <2>2, <2>3, <2>4 DEF IInv
<1>9. CASE ShutdownPlugins
  <2>. Front(<<Pcilib>>) = <<>> /\ Last(<<Pcilib>>) = Pcilib /\ <<>> \in Seq({Pcilib})
    BY DEF Front, Last
  <2>. callbacks = <<Pcilib>>
    BY <1>9 DEF IInv, BusInv, ShutdownPlugins
  <2>1. PluginTypeOK'
    BY <1>9 DEF IInv, PluginTypeOK, Pcs, PluginFiles, ShutdownPlugins, loading, built, world
  <2>2. ListsInv'
    BY <1>9 DEF IInv, ListsInv, CoreTime, ShutdownPlugins, loading, built, world
  <2>3. RunsInv'
    BY <1>9 DEF IInv, PluginTypeOK, RunsInv, ShutdownPlugins, loading, built, world
  <2>4. BusInv'
    BY <1>9 DEF IInv, PluginTypeOK, BusInv, CoreTime, ShutdownPlugins, loading, built, world
  <2>. QED BY <2>1, <2>2, <2>3, <2>4 DEF IInv
<1>10. CASE DestroyInitFuncList
  <2>1. PluginTypeOK'
    BY <1>10, EmptySeq DEF IInv, PluginTypeOK, Pcs, PluginFiles, DestroyInitFuncList, loading, built, world
  <2>2. ListsInv'
    BY <1>10 DEF IInv, ListsInv, CoreTime, DestroyInitFuncList, loading, built, world
  <2>3. RunsInv'
    BY <1>10 DEF IInv, PluginTypeOK, RunsInv, DestroyInitFuncList, loading, built, world
  <2>4. BusInv'
    BY <1>10 DEF IInv, PluginTypeOK, BusInv, CoreTime, DestroyInitFuncList, loading, built, world
  <2>. QED BY <2>1, <2>2, <2>3, <2>4 DEF IInv
<1>11. CASE \E p \in PluginFiles : Plug(p)
  <2>1. PluginTypeOK'
    BY <1>11 DEF IInv, PluginTypeOK, Pcs, PluginFiles, Plug, loading, built, world
  <2>2. ListsInv'
    BY <1>11 DEF IInv, ListsInv, CoreTime, Plug, loading, built, world
  <2>3. RunsInv'
    BY <1>11 DEF IInv, PluginTypeOK, RunsInv, Plug, loading, built, world
  <2>4. BusInv'
    BY <1>11 DEF IInv, PluginTypeOK, BusInv, CoreTime, Plug, loading, built, world
  <2>. QED BY <2>1, <2>2, <2>3, <2>4 DEF IInv
<1>12. CASE UNCHANGED pluginVars
  <2>1. PluginTypeOK'
    BY <1>12 DEF IInv, PluginTypeOK, Pcs, PluginFiles, pluginVars, loading, built, world
  <2>2. ListsInv'
    BY <1>12 DEF IInv, ListsInv, CoreTime, pluginVars, loading, built, world
  <2>3. RunsInv'
    BY <1>12 DEF IInv, PluginTypeOK, RunsInv, pluginVars, loading, built, world
  <2>4. BusInv'
    BY <1>12 DEF IInv, PluginTypeOK, BusInv, CoreTime, pluginVars, loading, built, world
  <2>. QED BY <2>1, <2>2, <2>3, <2>4 DEF IInv
<1>. QED BY <1>1, <1>2, <1>3, <1>4, <1>5, <1>6, <1>7, <1>8, <1>9, <1>10, <1>11, <1>12

\* A file that is loaded is new to the lists.
LEMMA InvLoad ==
  ASSUME IInv, NEW p \in PluginFiles, load_plugin(p)
  PROVE  IInv'
<1>. initfunctions \in Seq(PluginFiles) /\ Len(initfunctions) \in Nat
  BY DEF IInv, PluginTypeOK
<1>1. CASE initfunctions' = <<p>> \o initfunctions /\ loaded' = loaded \cup {p}
  <2>0. /\ initfunctions' \in Seq(PluginFiles)
        /\ Len(initfunctions') = Len(initfunctions) + 1
        /\ \A k \in 1 .. Len(initfunctions) + 1 :
             initfunctions'[k] = IF k = 1 THEN p ELSE initfunctions[k - 1]
        /\ DOMAIN initfunctions' = 1 .. Len(initfunctions) + 1
    BY <1>1, Pushed
  <2>1. PluginTypeOK'
    BY <1>1, <2>0 DEF IInv, PluginTypeOK, RunsInv, load_plugin, built, world, Pcs
  <2>2. ListsInv'
    BY <1>1, <2>0, PluginAssumption DEF IInv, ListsInv, CoreTime, load_plugin, built, world, PluginFiles
  <2>3. RunsInv'
    BY <1>1, <2>0 DEF IInv, RunsInv, load_plugin, built, world
  <2>4. BusInv'
    BY <1>1 DEF IInv, BusInv, CoreTime, load_plugin, built, world
  <2>. QED BY <2>1, <2>2, <2>3, <2>4 DEF IInv
<1>2. CASE UNCHANGED <<initfunctions, loaded>>
  <2>1. PluginTypeOK'
    BY <1>2 DEF IInv, PluginTypeOK, load_plugin, built, world
  <2>2. ListsInv'
    BY <1>2 DEF IInv, ListsInv, CoreTime, load_plugin, built, world
  <2>3. RunsInv'
    BY <1>2 DEF IInv, RunsInv, load_plugin, built, world
  <2>4. BusInv'
    BY <1>2 DEF IInv, BusInv, CoreTime, load_plugin, built, world
  <2>. QED BY <2>1, <2>2, <2>3, <2>4 DEF IInv
<1>. QED BY <1>1, <1>2 DEF load_plugin

LEMMA InvCore ==
  ASSUME IInv, CoreInitialised
  PROVE  IInv'
<1>1. coreinitfunctions' \in Seq({Pcilib})
  BY Elements DEF IInv, PluginTypeOK, ListsInv, CoreTime, CoreInitialised
<1>2. PluginTypeOK'
  BY <1>1, EmptySeq DEF IInv, PluginTypeOK, Pcs, PluginFiles, CoreInitialised, built, world
<1>3. ListsInv'
  BY PluginAssumption, EmptySeq DEF IInv, PluginTypeOK, ListsInv, CoreTime, CoreInitialised, built, world
<1>4. RunsInv'
  BY DEF IInv, RunsInv, CoreInitialised, built, world
<1>5. BusInv'
  BY DEF IInv, BusInv, CoreTime, CoreInitialised, built, world
<1>. QED BY <1>2, <1>3, <1>4, <1>5 DEF IInv

\* The plugin at entry was not initialised yet, so it owns nothing, and once it
\* is out of the list nothing leads to it.
LEMMA InvInitialise ==
  ASSUME IInv, InitialisePlugins
  PROVE  IInv'
<1>. DEFINE p == initfunctions[entry]
<1>1. /\ initfunctions \in Seq(PluginFiles) /\ Len(initfunctions) \in Nat
      /\ DOMAIN initfunctions = 1 .. Len(initfunctions)
      /\ entry \in 1 .. Len(initfunctions) /\ p \in PluginFiles /\ p \in loaded
      /\ runs[p] = 0 /\ p \notin owners
  BY DEF IInv, PluginTypeOK, ListsInv, RunsInv, InitialisePlugins
<1>2. runs' = [runs EXCEPT ![p] = 1] /\ runs' \in [PluginFiles -> Nat]
  BY <1>1 DEF IInv, PluginTypeOK, InitialisePlugins
<1>3. /\ \A q \in PluginFiles : runs'[q] = IF q = p THEN 1 ELSE runs[q]
      /\ \A i \in DOMAIN initfunctions : initfunctions[i] = p => i = entry
  BY <1>1, <1>2 DEF IInv, PluginTypeOK, ListsInv
<1>4. ASSUME Unload(p)
      PROVE  /\ initfunctions' \in Seq(PluginFiles) /\ Len(initfunctions') = Len(initfunctions) - 1
             /\ DOMAIN initfunctions' = 1 .. Len(initfunctions) - 1
             /\ \A k \in 1 .. Len(initfunctions) - 1 :
                  initfunctions'[k] = IF k < entry THEN initfunctions[k] ELSE initfunctions[k + 1]
             /\ loaded' = loaded \ {p} /\ entry' = entry
  <2>1. initfunctions' = RemoveAt(initfunctions, entry) /\ loaded' = loaded \ {p} /\ entry' = entry
    BY <1>4 DEF Unload
  <2>2. /\ RemoveAt(initfunctions, entry) \in Seq(PluginFiles)
        /\ Len(RemoveAt(initfunctions, entry)) = Len(initfunctions) - 1
        /\ \A k \in 1 .. Len(initfunctions) - 1 :
             RemoveAt(initfunctions, entry)[k]
               = IF k < entry THEN initfunctions[k] ELSE initfunctions[k + 1]
    BY <1>1, Removed
  <2>. QED BY <2>1, <2>2
<1>. HIDE DEF p
<1>5. CASE pc = "initcore"
  <2>1. p = Pcilib /\ owners = {} /\ callbacks = <<>> /\ ~pacc /\ coreinitfunctions = <<>>
    BY <1>1, <1>5 DEF IInv, ListsInv, BusInv, CoreTime
  <2>1a. p = initfunctions[entry]
    BY DEF p
  <2>2. CASE InitPcilib(TRUE) /\ entry' = entry + 1 /\ UNCHANGED <<initfunctions, loaded>>
    <3>1. callbacks' = <<Pcilib>> /\ pacc' /\ owners' = {}
      <4>1. <<Pcilib>> \in Seq({Pcilib}) /\ <<Pcilib>> \o <<>> = <<Pcilib>>
        OBVIOUS
      <4>. QED BY <2>1, <2>2, <4>1 DEF InitPcilib
    <3>2. PluginTypeOK'
      BY <1>1, <1>2, <2>2, <3>1 DEF IInv, PluginTypeOK, InitialisePlugins, world
    <3>3. ListsInv'
      BY <2>2 DEF IInv, ListsInv, CoreTime, InitialisePlugins, world
    <3>4. RunsInv'
      BY <1>1, <1>3, <1>5, <2>1, <2>2, <3>1, PluginAssumption
      DEF IInv, RunsInv, InitialisePlugins, world, PluginFiles
    <3>5. BusInv'
      BY <1>1, <1>3, <1>5, <2>1, <2>2, <3>1
      DEF IInv, BusInv, CoreTime, InitialisePlugins, world
    <3>. QED BY <3>2, <3>3, <3>4, <3>5 DEF IInv
  <2>3. CASE InitPcilib(FALSE) /\ Unload(p)
    <3>1. callbacks' = <<>> /\ ~pacc' /\ pacc' \in BOOLEAN /\ owners' = {}
      BY <2>1, <2>3 DEF InitPcilib, IInv, PluginTypeOK
    <3>2. PluginTypeOK'
      BY <1>1, <1>2, <1>4, <2>3, <3>1 DEF IInv, PluginTypeOK, InitialisePlugins, world
    <3>3. ListsInv'
      BY <1>1, <1>3, <1>4, <1>5, <2>1, <2>3
      DEF IInv, ListsInv, CoreTime, InitialisePlugins, world
    <3>4. RunsInv'
      <4>1. \A k \in DOMAIN initfunctions : k = entry
        BY <1>3, <1>5, <2>1 DEF IInv, ListsInv, CoreTime
      <4>2. DOMAIN initfunctions' = {}
        BY <1>1, <1>4, <2>3, <4>1
      <4>. QED BY <1>1, <1>3, <1>4, <1>5, <2>1, <2>3, <3>1, <4>2, PluginAssumption
      DEF IInv, RunsInv, InitialisePlugins, world, PluginFiles
    <3>5. BusInv'
      BY <1>1, <1>3, <1>5, <2>1, <2>3, <3>1
      DEF IInv, BusInv, CoreTime, InitialisePlugins, world
    <3>. QED BY <3>2, <3>3, <3>4, <3>5 DEF IInv
  <2>. QED BY <1>5, <2>1, <2>1a, <2>2, <2>3 DEF InitialisePlugins, initfunc
<1>6. CASE pc = "initnormal"
  <2>1. p \in Normal /\ p # Pcilib
    BY <1>1, <1>6, PluginAssumption DEF IInv, ListsInv, CoreTime, p
  <2>2. ASSUME NEW result \in BOOLEAN, initfunc(p, result)
        PROVE  /\ UNCHANGED <<pacc, callbacks>> /\ owners' \in {owners, owners \cup {p}}
               /\ owners' # owners => (result \/ p \in Partial)
               /\ owners' # owners => (p \in OnBus => have_core_plugin)
    BY <2>1, <2>2, PluginAssumption DEF initfunc, InitNormal, InitPartial
  <2>3. p \in OnBus /\ have_core_plugin => pacc
    BY DEF InitialisePlugins, NullBus, p
  <2>4. CASE initfunc(p, TRUE) /\ entry' = entry + 1 /\ UNCHANGED <<initfunctions, loaded>>
    <3>0. /\ UNCHANGED <<pacc, callbacks>> /\ owners' \in {owners, owners \cup {p}}
          /\ owners' # owners => (p \in OnBus => have_core_plugin)
      BY <2>2, <2>4
    <3>1. PluginTypeOK'
      BY <1>1, <1>2, <2>1, <2>4, <3>0 DEF IInv, PluginTypeOK, InitialisePlugins, world
    <3>2. ListsInv'
      BY <2>4 DEF IInv, ListsInv, CoreTime, InitialisePlugins, world
    <3>3. RunsInv'
      <4>1. \A i \in DOMAIN initfunctions' :
              runs'[initfunctions'[i]] = IF i < entry' THEN 1 ELSE 0
        <5>. SUFFICES ASSUME NEW i \in DOMAIN initfunctions
                      PROVE  runs'[initfunctions[i]] = IF i < entry + 1 THEN 1 ELSE 0
          BY <2>4
        <5>1. initfunctions[i] \in PluginFiles /\ i \in Nat /\ entry \in Nat
          BY <1>1
        <5>2. runs[initfunctions[i]] = IF i < entry THEN 1 ELSE 0
          BY <1>6 DEF IInv, RunsInv
        <5>3. initfunctions[entry] = p
          BY DEF p
        <5>. QED BY <1>3, <5>1, <5>2, <5>3
      <4>. QED BY <1>1, <1>3, <1>6, <2>1, <2>4, <3>0, <4>1
      DEF IInv, RunsInv, InitialisePlugins, world, PluginFiles
    <3>4. BusInv'
      BY <1>1, <1>6, <2>1, <2>2, <2>3, <2>4
      DEF IInv, BusInv, CoreTime, InitialisePlugins, world
    <3>. QED BY <3>1, <3>2, <3>3, <3>4 DEF IInv
  <2>5. CASE initfunc(p, FALSE) /\ Unload(p)
    <3>0. /\ UNCHANGED <<pacc, callbacks>> /\ owners' \in {owners, owners \cup {p}}
          /\ owners' # owners => p \in Partial /\ p \notin OnBus
      <4>1. p \in Partial => p \notin OnBus
        BY PluginAssumption
      <4>2. initfunc(p, FALSE)
        BY <2>5
      <4>3. /\ UNCHANGED <<pacc, callbacks>> /\ owners' \in {owners, owners \cup {p}}
            /\ owners' # owners => p \in Partial
        BY <2>1, <4>2 DEF initfunc, InitNormal, InitPartial
      <4>. QED BY <4>1, <4>3
    <3>1. PluginTypeOK'
      BY <1>1, <2>1, <1>2, <1>4, <2>5, <3>0 DEF IInv, PluginTypeOK, InitialisePlugins, world
    <3>2. ListsInv'
      <4>0. UNCHANGED <<unread, coreinitfunctions>> /\ ~CoreTime /\ ~CoreTime'
        BY <1>6 DEF InitialisePlugins, CoreTime
      <4>1. \A i \in DOMAIN coreinitfunctions : coreinitfunctions[i] = Pcilib
        <5>. coreinitfunctions \in Seq({Pcilib})
          BY DEF IInv, PluginTypeOK
        <5>. QED OBVIOUS
      <4>2. \A i \in DOMAIN initfunctions' : \E k \in DOMAIN initfunctions :
              /\ initfunctions'[i] = initfunctions[k] /\ k # entry
              /\ k = IF i < entry THEN i ELSE i + 1
        BY <1>1, <1>4, <2>5
      <4>3. \A i \in DOMAIN initfunctions' :
              initfunctions'[i] \in loaded' /\ initfunctions'[i] \in Normal
        BY <1>3, <1>4, <2>5, <4>0, <4>2 DEF IInv, ListsInv
      <4>4. \A i, j \in DOMAIN initfunctions' :
              initfunctions'[i] = initfunctions'[j] => i = j
        BY <1>1, <1>4, <2>5, <4>2 DEF IInv, ListsInv
      <4>. QED BY <1>4, <2>1, <2>5, <4>0, <4>1, <4>3, <4>4 DEF IInv, ListsInv
    <3>3. RunsInv'
      <4>1. \A i \in DOMAIN initfunctions' :
              runs'[initfunctions'[i]] = IF i < entry' THEN 1 ELSE 0
        <5>. SUFFICES ASSUME NEW i \in 1 .. Len(initfunctions) - 1
                      PROVE  runs'[initfunctions'[i]] = IF i < entry THEN 1 ELSE 0
          BY <1>4, <2>5
        <5>. DEFINE k == IF i < entry THEN i ELSE i + 1
        <5>1. k \in DOMAIN initfunctions /\ k # entry /\ initfunctions'[i] = initfunctions[k]
              /\ (k < entry <=> i < entry)
          BY <1>1, <1>4, <2>5
        <5>. HIDE DEF k
        <5>2. runs[initfunctions[k]] = IF k < entry THEN 1 ELSE 0
          BY <1>6, <5>1 DEF IInv, RunsInv
        <5>3. initfunctions[k] \in PluginFiles
          BY <1>1, <5>1
        <5>. QED BY <1>3, <5>1, <5>2, <5>3
      <4>. QED BY <1>1, <1>3, <1>4, <1>6, <2>1, <2>5, <3>0, <4>1
      DEF IInv, RunsInv, InitialisePlugins, world, PluginFiles
    <3>4. BusInv'
      BY <1>4, <1>6, <2>1, <2>5, <3>0
      DEF IInv, BusInv, CoreTime, InitialisePlugins, world
    <3>. QED BY <3>1, <3>2, <3>3, <3>4 DEF IInv
  <2>. QED BY <1>6, <2>4, <2>5 DEF InitialisePlugins, p
<1>. QED BY <1>5, <1>6 DEF InitialisePlugins

LEMMA InvNext == IInv /\ [pluginNext]_pluginVars => IInv'
BY InvQuiet, InvLoad, InvCore, InvInitialise DEF pluginNext

LEMMA Invariant == pluginSpec => []IInv
BY InvInit, InvNext, PTL DEF pluginSpec

-----------------------------------------------------------------------------
(* Theorems *)

\* Every variable keeps its type; the position of the loop over the plugins
\* never leaves the list, however entries are removed under it.
THEOREM TypeCorrect == pluginSpec => []PluginTypeOK
BY Invariant, PTL DEF IInv

\* Nothing that can be called has been unloaded.
THEOREM CodeIsLoadedAlways == pluginSpec => []CodeIsLoaded
<1>1. IInv => CodeIsLoaded
  <2>. SUFFICES ASSUME IInv PROVE CodeIsLoaded
    OBVIOUS
  <2>1. ToSet(callbacks) \subseteq loaded
    BY DEF IInv, BusInv, ToSet
  <2>2. ToSet(initfunctions) \subseteq loaded /\ ToSet(coreinitfunctions) \subseteq loaded
    BY DEF IInv, ListsInv, ToSet
  <2>. QED BY <2>1, <2>2 DEF IInv, RunsInv, CodeIsLoaded
<1>. QED BY Invariant, <1>1, PTL

\* The devices of the bus outlive the tweaks that point to them.
THEOREM BusOutlivesTweaksAlways == pluginSpec => []BusOutlivesTweaks
<1>1. IInv => BusOutlivesTweaks
  BY DEF IInv, BusInv, BusOutlivesTweaks
<1>. QED BY Invariant, <1>1, PTL

\* A tree is built by calling each InitPlugin of the list exactly once.
THEOREM InitOnceAlways == pluginSpec => []InitOnce
<1>1. IInv => InitOnce
  BY DEF IInv, RunsInv, InitOnce, ToSet
<1>. QED BY Invariant, <1>1, PTL

\* A process that returns has destroyed its tweaks and closed the bus.
THEOREM EndReleasesAllAlways == pluginSpec => []EndReleasesAll
<1>1. IInv => EndReleasesAll
  BY EmptySeq DEF IInv, BusInv, EndReleasesAll
<1>. QED BY Invariant, <1>1, PTL

=============================================================================
