------------------------------- MODULE Plugins -------------------------------
(***************************************************************************)
(* The plugins of a powertweak process: loading them, calling their        *)
(* InitPlugin functions, unloading those that fail, the shutdown callbacks *)
(* and what a reload does with all that (libpowertweak/plugin.c and        *)
(* register.c, main() and restart() of the daemon).                        *)
(*                                                                         *)
(* The tree is here the set of plugins that own a tweak in it.  What the   *)
(* machine offers may change at any time (devices come and go).            *)
(***************************************************************************)
EXTENDS Naturals, SequencesExt

CONSTANTS
  Pcilib,    \* libpcilib.so, the one core plugin: it scans the PCI bus
  Normal,    \* the files in the directory of normal plugins
  OnBus,     \* those of them that walk the devices Pcilib has found
  Stays,     \* those whose InitPlugin succeeds also when it finds nothing
  Partial,   \* those that may have registered a tweak when they fail: DMI
  MaxReloads, MaxPlugs  \* bounds on what happens from outside

PluginFiles == Normal \cup {Pcilib}

ASSUME PluginAssumption ==
  /\ Pcilib \notin Normal
  /\ OnBus \subseteq Normal /\ Stays \subseteq Normal
  /\ Partial \subseteq Normal \ OnBus
  /\ MaxReloads \in Nat /\ MaxPlugs \in Nat

VARIABLES
  pc,                 \* where the process is
  mode,               \* why it is there: "start", "reload" or "exit"
  unread,             \* entries of the directory being read
  initfunctions,      \* list of loaded plugins
  coreinitfunctions,  \* list of core plugins, once they are initialised
  entry,              \* the entry of initfunctions whose InitPlugin is next
  loaded,             \* the files that are mapped (dlopen, dlclose)
  callbacks,          \* shutdown callbacks, the one registered last first
  pacc,               \* pacc # NULL: the devices of the bus are in memory
  owners,             \* the plugins that own a tweak of the tree
  runs,               \* calls of each InitPlugin since the tree was empty
  hardware,           \* plugins whose hardware the machine has
  reloads, plugs      \* how often the outside acted

loading == <<unread, initfunctions, coreinitfunctions, entry, loaded>>
built == <<callbacks, pacc, owners, runs>>
world == <<hardware, reloads, plugs>>
pluginVars == <<pc, mode, loading, built, world>>

pluginInit ==
  /\ pc = "loadcore" /\ mode = "start"
  /\ unread = {Pcilib}
  /\ initfunctions = <<>> /\ coreinitfunctions = <<>> /\ entry = 1
  /\ loaded = {} /\ callbacks = <<>> /\ pacc = FALSE
  /\ owners = {} /\ runs = [p \in PluginFiles |-> 0]
  /\ hardware \in SUBSET PluginFiles
  /\ reloads = 0 /\ plugs = 0

-----------------------------------------------------------------------------
(* Loading *)

\* One directory entry; a file dlopen() refuses is passed over.
load_plugin(p) ==
  /\ pc \in {"loadcore", "loadnormal"} /\ p \in unread
  /\ unread' = unread \ {p}
  /\ \/ /\ initfunctions' = <<p>> \o initfunctions
        /\ loaded' = loaded \cup {p}
     \/ UNCHANGED <<initfunctions, loaded>>
  /\ UNCHANGED <<pc, mode, coreinitfunctions, entry, built, world>>

DirectoryRead ==
  /\ unread = {}
  /\ \/ pc = "loadcore" /\ pc' = "initcore"
     \/ pc = "loadnormal" /\ pc' = "initnormal"
  /\ UNCHANGED <<mode, loading, built, world>>

\* Without the core directory InitPlugins fails and main() returns at once.
\* Without the other one it goes on with no normal plugins.
DirectoryMissing ==
  /\ \/ pc = "loadcore" /\ unread = {Pcilib} /\ pc' = "gone"
     \/ pc = "loadnormal" /\ unread = Normal /\ pc' = "initnormal"
  /\ unread' = {}
  /\ UNCHANGED <<mode, initfunctions, coreinitfunctions, entry, loaded, built, world>>

-----------------------------------------------------------------------------
(* Initialising *)

have_core_plugin == \E i \in DOMAIN coreinitfunctions : coreinitfunctions[i] = Pcilib

\* Variant: no callback is registered.
InitPcilibSilent(result) ==
  /\ result = (Pcilib \in hardware)
  /\ pacc' = (pacc \/ result)
  /\ UNCHANGED <<callbacks, owners>>

\* InitPlugin of the core plugin: scans the bus, if there is one.
InitPcilib(result) ==
  /\ result = (Pcilib \in hardware)
  /\ pacc' = (pacc \/ result)
  /\ callbacks' = IF result THEN <<Pcilib>> \o callbacks ELSE callbacks
  /\ UNCHANGED owners

\* InitPlugin of a normal plugin: registers tweaks for what it finds, and fails
\* if it finds nothing (or was told not to show information, showinfo).
InitNormal(p, result) ==
  LET able == p \in OnBus => have_core_plugin
  IN /\ result = (able /\ p \in hardware \cup Stays)
     /\ owners' = IF able /\ p \in hardware THEN owners \cup {p} ELSE owners
     /\ UNCHANGED <<pacc, callbacks>>

\* InitPlugin of the DMI plugin registers the version at "_SM_" and the tables
\* at "_DMI_", but succeeds only if it has seen "_DMI_".
InitPartial(p, result) ==
  /\ result => p \in hardware
  /\ \/ UNCHANGED owners
     \/ p \in hardware /\ owners' = owners \cup {p}
  /\ UNCHANGED <<pacc, callbacks>>

\* Walking pacc->devices when pacc is NULL.
NullBus(p) == p \in OnBus /\ have_core_plugin /\ ~pacc

initfunc(p, result) ==
  IF p = Pcilib THEN InitPcilib(result)
  ELSE IF p \in Partial THEN InitPartial(p, result) ELSE InitNormal(p, result)

\* Variants: the loop steps over the entry that took the place of a removed
\* one; a plugin that fails is unloaded and its entry stays.
UnloadSkipping(p) ==
  /\ initfunctions' = RemoveAt(initfunctions, entry)
  /\ loaded' = loaded \ {p}
  /\ entry' = entry + 1

UnloadNotRemoving(p) ==
  loaded' = loaded \ {p} /\ entry' = entry + 1 /\ UNCHANGED initfunctions

\* InitPlugin failed: the next entry takes the place of this one.
Unload(p) ==
  /\ initfunctions' = RemoveAt(initfunctions, entry)
  /\ loaded' = loaded \ {p}
  /\ UNCHANGED entry

\* One round of the loop of InitialisePlugins.
InitialisePlugins ==
  /\ pc \in {"initcore", "initnormal"}
  /\ entry \in DOMAIN initfunctions
  /\ LET p == initfunctions[entry] IN
     /\ ~NullBus(p)
     /\ runs' = [runs EXCEPT ![p] = @ + 1]
     /\ \/ initfunc(p, TRUE) /\ entry' = entry + 1 /\ UNCHANGED <<initfunctions, loaded>>
        \/ initfunc(p, FALSE) /\ Unload(p)
  /\ UNCHANGED <<pc, mode, unread, coreinitfunctions, world>>

\* The process is gone: a plugin dereferences the null pointer, or a method of
\* a tweak is called - the destructor by a reload or at the end, another one for
\* a client - whose plugin has been unloaded.
Segfault ==
  /\ \/ pc = "initnormal" /\ entry \in DOMAIN initfunctions /\ NullBus(initfunctions[entry])
     \/ pc \in {"serving", "destroy"} /\ ~(owners \subseteq loaded)
  /\ pc' = "segfault"
  /\ UNCHANGED <<mode, loading, built, world>>

\* InitPlugins goes on with the normal plugins.
CoreInitialised ==
  /\ pc = "initcore" /\ entry \notin DOMAIN initfunctions
  /\ coreinitfunctions' = initfunctions
  /\ initfunctions' = <<>> /\ entry' = 1
  /\ unread' = Normal
  /\ pc' = "loadnormal"
  /\ UNCHANGED <<mode, loaded, built, world>>

\* The daemon serves, or gives up when there is nothing to serve.
NormalInitialised ==
  /\ pc = "initnormal" /\ entry \notin DOMAIN initfunctions
  /\ IF owners # {}
     THEN pc' = "serving" /\ UNCHANGED mode
     ELSE pc' = "shutdown" /\ mode' = "exit"
  /\ UNCHANGED <<loading, built, world>>

-----------------------------------------------------------------------------
(* Reload and exit *)

restart ==
  /\ pc = "serving" /\ reloads < MaxReloads
  /\ reloads' = reloads + 1
  /\ pc' = "destroy" /\ mode' = "reload"
  /\ UNCHANGED <<loading, built, hardware, plugs>>

\* Variant: the backends are shut down before their tweaks are destroyed.
ExitShuttingDown ==
  /\ pc = "serving"
  /\ pc' = "shutdown" /\ mode' = "exit"
  /\ UNCHANGED <<loading, built, world>>

Exit ==
  /\ pc = "serving"
  /\ pc' = "destroy" /\ mode' = "exit"
  /\ UNCHANGED <<loading, built, world>>

DestroyAllTweaks ==
  /\ pc = "destroy" /\ owners \subseteq loaded
  /\ owners' = {} /\ runs' = [p \in PluginFiles |-> 0]
  /\ pc' = "shutdown"
  /\ UNCHANGED <<mode, loading, callbacks, pacc, world>>

\* The callbacks, the oldest first; Pcilib's frees the devices.
ShutdownPlugins ==
  /\ pc = "shutdown" /\ callbacks # <<>>
  /\ callbacks' = Front(callbacks)
  /\ pacc' = (pacc /\ Last(callbacks) # Pcilib)
  /\ UNCHANGED <<pc, mode, loading, owners, runs, world>>

\* A reload initialises the plugins of initfunctions again, and only those.
AfterShutdown ==
  /\ pc = "shutdown" /\ callbacks = <<>>
  /\ IF mode = "reload"
     THEN pc' = "initnormal" /\ entry' = 1
     ELSE pc' = "freelists" /\ UNCHANGED entry
  /\ UNCHANGED <<mode, unread, initfunctions, coreinitfunctions, loaded, built, world>>

\* An empty list fails the assertion: abort() instead of the exit.
DestroyInitFuncList ==
  /\ pc = "freelists"
  /\ IF initfunctions = <<>> \/ coreinitfunctions = <<>>
     THEN pc' = "abort" /\ UNCHANGED <<initfunctions, coreinitfunctions>>
     ELSE pc' = "gone" /\ initfunctions' = <<>> /\ coreinitfunctions' = <<>>
  /\ UNCHANGED <<mode, unread, entry, loaded, built, world>>

-----------------------------------------------------------------------------
(* The machine *)

\* A device appears or disappears.
Plug(p) ==
  /\ plugs < MaxPlugs
  /\ plugs' = plugs + 1
  /\ hardware' = IF p \in hardware THEN hardware \ {p} ELSE hardware \cup {p}
  /\ UNCHANGED <<pc, mode, loading, built, reloads>>

pluginNext ==
  \/ \E p \in PluginFiles : load_plugin(p) \/ Plug(p)
  \/ DirectoryRead \/ DirectoryMissing
  \/ InitialisePlugins \/ Segfault \/ CoreInitialised \/ NormalInitialised
  \/ restart \/ Exit \/ DestroyAllTweaks
  \/ ShutdownPlugins \/ AfterShutdown \/ DestroyInitFuncList

pluginSpec == pluginInit /\ [][pluginNext]_pluginVars

-----------------------------------------------------------------------------
(* Properties *)

Pcs == {"loadcore", "initcore", "loadnormal", "initnormal", "serving", "destroy",
        "shutdown", "freelists", "gone", "abort", "segfault"}

PluginTypeOK ==
  /\ pc \in Pcs /\ mode \in {"start", "reload", "exit"}
  /\ unread \subseteq PluginFiles /\ loaded \subseteq PluginFiles
  /\ initfunctions \in Seq(PluginFiles) /\ coreinitfunctions \in Seq({Pcilib})
  /\ entry \in Nat /\ (pc # "gone" => entry \in 1 .. Len(initfunctions) + 1)
  /\ callbacks \in Seq({Pcilib}) /\ pacc \in BOOLEAN
  /\ owners \subseteq Normal /\ runs \in [PluginFiles -> Nat]
  /\ hardware \subseteq PluginFiles /\ reloads \in Nat /\ plugs \in Nat

\* Whatever can be called is code that is mapped: the methods of the tweaks in
\* the tree, the shutdown callbacks and the InitPlugin functions of both lists,
\* also after plugins whose InitPlugin failed have been unloaded.  The one
\* exception is the tweaks of a plugin that registers before it fails (DMI, on a
\* machine with an SMBIOS entry point and without the older one): they stay in
\* the tree, and calling one of them is the second kind of Segfault.
CodeIsLoaded ==
  (owners \ Partial) \cup ToSet(callbacks) \cup ToSet(initfunctions)
    \cup ToSet(coreinitfunctions) \subseteq loaded

\* A tweak on the PCI bus points to a device of pacc: the devices are there
\* as long as the tweak is, through every reload and exit.
BusOutlivesTweaks == owners \cap OnBus # {} => pacc

\* A tree is built by calling every InitPlugin once: a plugin is neither
\* passed over when the one before it is unloaded, nor called again without
\* its tweaks having been destroyed.
InitOnce ==
  /\ \A p \in PluginFiles : runs[p] <= 1
  /\ pc = "serving" => \A p \in ToSet(initfunctions) : runs[p] = 1

\* A process that ends by returning has given everything back.
EndReleasesAll ==
  pc \in {"gone", "freelists"} => owners = {} /\ callbacks = <<>> /\ ~pacc

\* ChangeLog:26, "Daemon applies settings on getting a HUP": a reload ends in a
\* daemon that serves or exits, not in a crash - not even where the DMI plugin,
\* whose tweaks may crash it on their own account, is not installed.
ReloadSurvives == pc # "segfault"

=============================================================================
