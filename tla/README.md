# Powertweak: a verification project

TLA+ models of Powertweak 0.99.5, TLC runs over small instances of them, and
proofs about them that TLAPS checks. Powertweak shows the settings of a Linux
machine - PCI chipset registers, files in /proc/sys, CPU registers, disk
parameters - as a tree of *tweaks*, lets root change them from a graphical, a
textual or a line interface, and keeps them in `/etc/powertweak/tweaks`.

Paths are relative to the repository; code paths name `src/`, so
`daemon/daemon.c` below is `src/daemon/daemon.c`.

## 1. Inventory

### 1.1 The parts, their state and their operations

| part | state | operations |
|---|---|---|
| **powertweakd** (`daemon/`) | the tweak tree, `gotHUP`, `gotTERM`, the listening socket `/var/run/powertweakd`, the pid file, one connection at a time | start (`create_daemon`), accept, authenticate (root only, SO_PEERCRED), `message_loop`, reload on SIGHUP (`restart`), end on SIGTERM |
| **protocol** (`libpowertweak/socketlib.c`, `include/messages.h`) | the byte stream, `HaveError` | framing without resynchronisation: header, arguments, reply; the tree is sent node by node |
| **client backend** (`backends/client/`) | the connection, a copy of the tree whose methods are remote calls | connect, `requesttweaks`, `getvalue`, `getvalueraw`, `setvalue`, `saveconfig`, `bye` |
| **tweak tree** (`libpowertweak/register.c`, `misc.c`, `libpowertweak.c`) | linked lists `Next`/`Sub` of `struct tweak` | `RegisterTweak` (creates the path, merges equal names, drops duplicates), `sort_tweak_list`, `find_tweak_by_configname`, `DestroyAllTweaks` |
| **plugins** (`libpowertweak/plugin.c`) | two lists of loaded plugins, a list of shutdown callbacks | load core and normal plugins, `InitialisePlugins` (unloads those that fail), `ShutdownPlugins` |
| **configuration** (`libpowertweak/config.c`) | `/etc/powertweak/tweaks` | `save_tree_to_config`, `merge_config_in_tree`, `update_tree_values` |
| **profiles** (`libpowertweak/profile.c`, `xml/profile/`) | files of settings "name operator value" | merge: move each tweak to a value that satisfies its setting |
| **backends with registers**: PCI (`backends/PCI/`), /proc (`backends/proc/`), elevator (`backends/Elevator/`) | per tweak the stored value; the register or file outside | `GetValue` (stored), `GetValueRaw` (read), `ChangeValue(value, immediate)` (store, and read-modify-write) |
| **other value backends**: CD-ROM, Sony PI, shared memory, PowerNow, the S.M.A.R.T. switch of a disk | per tweak the stored value; descriptors | the same, with a conversion between value and device |
| **CPU** (`backends/CPU/`), **DMI**, **hdparm** information | none that changes | build information pages from cpuid, MSRs, SMBIOS tables, ATA IDENTIFY |
| **hdparm** (`backends/hdparm/`) | none that is kept | buttons that send ATA commands, pages from IDENTIFY |
| **descriptions** (`xml/`, `backends/*/xml.c`, `backends/PCI/pci.c`, `latency.c`) | the list of PCI devices while tweaks are built | a tweak for each description that fits the machine, and its place in the tree; wildcards in file names |
| **GTK interface** (`GTK/`) | widgets, `TempValue` of each tweak | build, edit, Apply, Save, Refresh, quit |
| **text interface** (`textmode/*.cc`) | the same | build, edit, Apply without reading back, Save, open a profile, quit |
| **lspowertweak** (`client/`) | none | prints the tree |
| Turbo Vision (`textmode/tvision/`), pciutils (`backends/core/PCILIB/`) | | third-party code in the tree |

### 1.2 How they interact

An interface first tries the daemon. If that answers, every method call of the
interface's tree is a message with the tweak's *configuration name* and the
daemon makes the call on its own tree. If nobody listens, the interface loads
the plugins itself ("local mode") and calls the methods directly. Several such
processes may run; they share the hardware registers, the files in /proc and
the configuration file, and take no lock on any of them.

Everything inside a process is sequential. What interrupts it are signals: the
handlers of the daemon set flags, and because `sigaction` is called without
SA_RESTART a blocked `accept()` or `read()` fails when they run.

### 1.3 What is hard, and what makes each part correct

* *Signals at every point* of the daemon's loop, the half-served request when
  one cuts a read short, and what the client sees then (`Daemon`). Correct: the
  stream stays in step, every reply is the one asked for, every client that
  waits is answered or told, a reload never pulls the tree from under a
  session, signals are honoured.
* *Files in /var/run over many runs*: a second daemon started while one serves,
  stops or has crashed (`Daemon`). Correct: the socket file leads to the daemon
  that listens, the pid file to the one that serves.
* *Cached values*: register, stored value, widget and file are four copies of
  one setting, and five operations copy between them in different directions
  (`TweakBackend`, `TweakSession`). Correct: after each operation the copies it
  promises to make equal are equal.
* *Read-modify-write of shared bytes* by several tweaks and several processes
  (`TweakBackend`, `TweakSession`). Correct: neighbours keep their bits, no
  field gets a pattern of its own.
* *Crashes and concurrent readers between truncating and writing the
  configuration file* (`TweakSession`).
* *Order of settings* from the file, the profiles and the clients (`Profile`,
  `TweakSession`). Correct: what can hold together does in the end.
* *Plugins that fail, come back and go* while tweaks point into their code and
  data (`Plugins`). Correct: nothing unloaded is called but the tweaks of a plugin
  that registered and then failed (DMI), every plugin is initialised once per
  tree, everything is given back at the end.
* *One number changed in a file that is written whole*, by several processes,
  while files lose their permissions or disappear (`ProcFile`). Correct: the
  other numbers stay, whatever is lost no element gets a number of another one,
  and no process ends as long as its files can be written and have the elements
  that their descriptions name.
* *Values in another unit than the device's* (`ValueDevices`), which pass through
  a widget with a range of its own. Correct: what was read and is written back
  changes nothing, but for three cases that can be named; a request gets the
  closest setting that does not exceed it; descriptors are lost in two places and
  nowhere else, over any number of reloads.
* *Places that several devices could claim* (`Descriptions`). Correct:
  everything the machine has ends with a tweak of its own, in whatever order
  plugins and directories are read.
* *A singly linked tree changed in place*: inserted into, sorted by exchanging
  neighbours, freed from the leaves (`TweakTree`). Correct: no node is lost or
  reached twice, whoever came first keeps a path.
* *Two recursions over one socket* that have to agree on every message
  (`TweakWire`). Correct: the copy is the tree.

`PROJECT.json` lists the hazards line by line with the properties that watch
them.

## 2. Modules

| module | about | proofs |
|---|---|---|
| `Daemon` | lifecycle, signals, sessions and protocol of powertweakd and its clients | `DaemonProofs` |
| `TweakBackend` | what one `ChangeValue` and one `GetValueRaw` of the register backends compute (no state of its own) | in `TweakSessionProofs` |
| `TweakSession` | the values of the tweaks in all processes that hold a tree: EXTENDS `TweakBackend` | `TweakSessionProofs` |
| `MCTweakSession` | machines for it, from shipped descriptions | |
| `ProcFile` | the files under /proc/sys behind the tweaks: one number changed, the file written whole | `ProcFileProofs` |
| `ValueDevices` | tweaks whose value is a number in another unit than the device's | `ValueDeviceProofs` |
| `Descriptions` | which tweaks a machine gets and where they are in the tree | `DescriptionsProofs` |
| `Profile` | merging profiles into a tree | `ProfileProofs` |
| `MCProfile` | all small profiles | |
| `Plugins` | loading, initialising, unloading and shutting down plugins, reload and exit | `PluginsProofs` |
| `MCBackends` | machines for `ProcFile`, `ValueDevices`, `Descriptions`, `Profile` and `Plugins`, checked in one run: EXTENDS them and `MCProfile` | |
| `Catalogue` | what the tree of tweaks promises: a set of paths | |
| `TweakTree` | the linked lists of tweaks: registering, sorting, destroying | `TweakTreeProofs` |
| `TweakWire` | the daemon's tree sent to a client through a socket: EXTENDS `TweakTree` | `TweakTreeProofs` |
| `MCTweakWire` | small menus for it | |

### 2.1 Daemon

`dpc[d]` is where run `d` of the daemon is in `main`, `create_daemon`,
`daemon_loop`, `restart` or `message_loop`; one action per system call that can
block, fail or be observed from outside, so `CreateServer` (bind and listen),
`WritePid`, `InitTweaks`, `CheckTERM` (the test of `gotTERM` before `accept`),
`Accept`, `GotConn` (the test of `gotHUP` after it), `Restart`, `Authenticate`,
`ReadMessage`, `ReadArgs`, `Reply`, `EndSession`, and the exit in four steps.
`ReceiveHUP` and `ReceiveTERM` are the handlers; they may run at any point, and
make a blocked `accept` or `read` return (`Interrupt`). `Crash` is SIGKILL or
any other death; `BrokenPipe` is SIGPIPE, which the code does not handle.

A connection is two sequences: `toD[c]` of headers and arguments, `toC[c]` of
replies. `fds[d]` are the connections whose descriptor the daemon has not
closed: it never closes one after a session, so a client sees the end of its
connection only when the daemon exits (which is why `ServerHolds` and not the
session decides whether `Receive` blocks). `ReadAtEOF` is the read of zero
bytes from a client that is gone: `receive_blob` takes what is on the stack for
the length, so the message is any of those `message_loop` can see then.

A descriptor table has `MaxFds` entries for connections. When it is full
`accept()` fails, `Accept` leaves `conn` at `Nobody`, and the client stays in the
backlog: `ShutOut` says that of a client. `cut` is history: the clients whose own
session a SIGHUP has ended.

The values of tweaks do not occur here; a tree is the number of times the
plugins have built it (`gen`, and `cgen[c]` for the copy the client was sent).

### 2.2 TweakBackend and TweakSession

A register is a set of bits; a tweak has a register, a mask, two patterns (for
switches), a widget and a backend. `NewValue(t, r, v)` is the register that
`ChangeValue(v)` computes from `r`, `Shown(t, r)` the value `GetValueRaw` finds
in it, `NotSet(t, v)` the values that are stored and never written.

In `TweakSession` a process is a daemon with (at most) one interface, or an
interface in local mode. The interface is the GTK one, or for the processes in
`Textual` the text interface: that reads no values back after Apply, has no
Refresh, makes a check mark of any value but 0 (`Drawn`), and can open a profile
(`OpenProfile`). What a handler does is a *job*: the sequence of method
calls it makes on the tree, in tree order, computed where the handler starts.
`Apply` of the GTK interface, for example, is `ChangeValue(TempValue, 1)` of
every tweak and then `GetValue` of every tweak into its widget. Each method call is a step of its
own, and `ChangeValue` is two: the read of the register (`hold[p]` has it) and
the write. Between any two steps another process may do one, the kernel may
change registers (`Elsewhere`), or the process may die.

Properties speak about the moment an operation is over; `done[p]` says so, and
is withdrawn when anybody else writes what the property reads. `clean`,
`fresh`, `edited` and `set` are history of the same kind: they are read by no
guard.

Assumptions on the data: combo boxes and radio buttons over a session are left
out (no shipped description that reaches the tree has one), one bit stands for
the bits of a wider field, and a tweak's value is a set of bits, so that
"outside the mask" means "does not fit into the field".

### 2.3 Profile

An int has `2 * Bound` values and wraps around. A profile is a sequence of
settings; several files are one profile, in glob order. `Merge` starts one,
`Actuate` applies the setting at `pos`, `Unknown` passes over one whose name is
not `Known`, `Crash` is the call through the null `ChangeValue` of a file that
cannot be written. `TweakSession` has the same settings with the result of
`perform_operation` worked out: the values a setting accepts and the one it
makes of any other.

### 2.4 Plugins

One process from `InitPlugins` to the return of `main`. `load_plugin` takes a
directory entry in any order (readdir) and puts it in front of `initfunctions`;
`InitialisePlugins` is one round of the loop: it calls the `InitPlugin` of the
entry at `entry` and, when that fails, takes the entry out of the list and unmaps
the file (`Unload`). `CoreInitialised` moves the list to `coreinitfunctions`.
`restart` and `Exit` share `DestroyAllTweaks` and `ShutdownPlugins`, which runs
the callbacks from the oldest on; then `AfterShutdown` goes back to the normal
plugins or to the end. `Segfault` is `pacc->devices` with `pacc == NULL`, or the
call of a method of a tweak - the destructor by a reload or the exit, another one
for a client - whose plugin has been unmapped.

The tree is here the set of plugins that own a tweak in it (`owners`). Four kinds
of normal plugin occur in the code: those that need the PCI bus (`OnBus`), those
that succeed although they found nothing (`Stays`), the DMI plugin (`Partial`),
which registers a tweak at the signature `_SM_` and succeeds only if it also
comes upon `_DMI_` (`InitPartial`), and the others. `hardware` changes at any
time.

### 2.5 TweakTree and Catalogue

A node has the pointers `Next` and `Sub`; with the global `tweaks` they are the
*places* of the tree, and `ptr[p]` is what the pointer in place `p` leads to. A
`struct tweak **` in the code is a place here, so that `prev` is both `Prev` of
the two searches and `prev` of `_sort_tweak_list`.

* `RegisterTweak` allocates the tweak, then every round of its loop is a search:
  `Walk` compares the text with the next node of a list, `Enter` and
  `additemtolist_create` end the search of an element of the path,
  `additemtolist_insert` and `Duplicate` that of the tweak itself. A text is a
  number in the order of `strcmp`; `Fold` maps it to the one that stands for
  all that `strcasecmp` finds equal.
* `sort_tweak_list`: `Swap`, `Advance` and `Sorted` are one turn each of the
  loops of `_sort_tweak_list`, `SortSub` and `SortReturn` of the loop over the
  sorted list. `stack` has the variable `tweak` of every activation; the one of
  the first is `*t` before the sort, as in the code.
* `DestroyAllTweaks` in the same way; `DestroyReturn` is what follows the
  recursive call. Afterwards a daemon registers again (reload) or ends.

The texts of the nodes are all of the data; the seven types of inner nodes are
reduced to three, because the code only asks whether a node is a tree.

`Catalogue` is the abstract specification: a set of paths, each kept by the node
that came first, with nothing leaving before everything does. `TweakTree`
implements it (`IsCatalogue`) under the mapping `entries` = the paths, ignoring
case, of all nodes below `tweaks`; from the first step of `DestroyAllTweaks` on
it is empty. Every step of the sort is a stutter: it may change lists and must
not change paths.

### 2.6 TweakWire

`sending` has the activations of `SendTweakStructure`, `receiving` those of
`magic_tweak_code`, each with what it does next; a list is a recursion too,
because both functions call themselves for `Next`. `socket` is the channel, of
`Room` messages; `Send` blocks when it is full, `ReceiveTweak` and
`ReceiveMessage` when it is empty. `copy` is the client's memory, which gets a
pointer when a call returns, so that the copy is complete only with the last
message. `Interrupt` is the signal that makes a blocked `write()` fail: with
`HaveError` set nothing more is sent and the session ends, but its connection
stays open and the client waits.

### 2.7 ProcFile

`TweakSession` takes the read and the write of a register for granted; here they
are taken apart for /proc. A file is a sequence of numbers as the kernel has
them (`element`), as many as this kernel has (`Sizes`, also none), each with the
numbers the kernel accepts (`Legal`), and `access` is what a process may do with
it. `Reach` of them are sure to begin in the first 63 characters, which is what
`read_int_from_proc_file` reads.
`do_one_xml_record` registers a tweak, with or without `ChangeValue`, or not at
all; `proc_get_value_raw` may take `ChangeValue` away and never gives it back;
`proc_change_value` begins a call, which `ReadElements` (the loop with `fscanf`,
`Scans` times) and `WriteElements` end. All three read the number of their own
element first, by counting the tabs before it (`backends/proc/proc.c:57-63`). The
loop has no bound: where the file has fewer numbers, or has them farther behind,
it runs out of its buffer (`ScanLeaves`), and then either finds a tab in whatever
memory follows or faults (`ScanFaults`). Between any two of these steps another
process may do one, other programs may write (`Elsewhere`) and permissions may
change (`ChangeAccess`). A process uses its tree (`Serving`) when it has read
all descriptions; `Reload` makes it read them again. `actuate_profile_setting` is the caller that does not ask for
`ChangeValue` first. `seen`, `calm` and `lost` are history: the numbers an
element has had or was asked to have, that nobody else has changed the file
during a call, the files that were not writable at some time.

### 2.8 ValueDevices

Five kinds of device, none of which shares a register with another tweak, so
that a method call is one step. `Drawn` is what the widget may hand back of a
value that nobody touched: the value, or what the range of a slider or spin
button makes of it. (GTK does not limit the value a widget is created with but
every one it is given later; the text interface limits none.) `SetTo` is what `ChangeValue` sets a device to,
`ReadValue` what `GetValueRaw` stores, `FirstValues` what `InitPlugin` does,
`DestroyTweaks` is the part of a reload that takes the tweaks away; `InitPlugin`
then runs again. The K6 alone starts with a clock that the kernel has measured. Devices come and
go (`there`), CD-ROM drives may be without a line in the settings file
(`silent`), others may set them. `fresh`, `asked`, `switches` and `unsaid` are
history: the stored values taken from the device as it still is (0 of a silent
drive among them), the last request to a CPU, how often a switch of a disk was
registered, the calls for one that only stored.

### 2.9 Descriptions

The bus is a sequence of devices, each with an id and a flag for bus masters; a
directory has entries, some of them hidden. A plugin offers its tweaks
(`LoadDescriptions`: latencies, registers of the first device of each id,
wildcards expanded for every entry) and `RegisterOffered` registers them one by
one, keeping whoever is first in a place, as `Catalogue` promises. Names and
numbers of devices are `find_devicename`: a device that is not the only one of
its id gets its number among them.

### 2.10 MCBackends

`ProcFile`, `ValueDevices`, `Descriptions`, `Profile` and `Plugins` share no
variable and do not interact. They are checked in one run: every behaviour is one
of a `part`, and the others keep one initial state. The devices of `ValueDevices`
do not interact either, so that each of them is a part of its own.

## 3. Runs

| run | module and bounds | shows |
|---|---|---|
| `daemon_safety` | `Daemon`, two runs of the daemon, a root client and one that is not; client and first run may be killed; one request each, one connection waiting, two descriptors | the seven safety properties with SIGHUP and SIGTERM anywhere |
| `daemon_service` | `Daemon`, one run, three clients of which two are root, two descriptors, one connection waiting, both signals | whoever waits is answered or told, unless a SIGHUP has ended its own session or earlier sessions have used up the descriptors; SIGTERM in a session is honoured; a pending reload is done when the next client connects |
| `session_one` | `MCTweakSession`, one daemon, two latencies of one disk and one /proc file, two edits, saving, a profile, other writers | the five contracts of connect, start, apply, save, refresh, and that untouched tweaks keep their bits |
| `session_two` | `MCTweakSession`, a daemon with the text interface and a local GTK interface on one byte with a one-bit switch and a two-bit pattern, a profile that can be opened | the read-modify-write race loses updates and nothing else; an opened profile is in effect, also where the stored values were stale |
| `session_contract`, `session_names` | `MCTweakSession` | two statements of header and ChangeLog that do not hold (findings) |
| `backends` | `MCBackends`: two processes, two files (of none to two numbers, and a switch), one change by others; one device of each kind for two processes, two changes by others, two lost descriptors; all buses of up to three devices of two ids, two wildcards, three entries; all profiles of up to three settings of one tweak and all pairs over three names, ints of two bits; the core plugin and four normal ones, two of them on the bus and one the DMI plugin, two reloads, two devices that come or go | files keep their other numbers; an untouched widget changes its device only in three known cases, clocks are rounded down, descriptors accounted for; everything the machine has gets a tweak; compatible settings hold, changes are minimal; nothing unloaded is called except for DMI's tweaks, tweaks do not outlive what they point to, one call of each InitPlugin per tree, everything is given back |
| `smart_descriptor` | `MCBackends` | the switch for S.M.A.R.T. keeps a descriptor open (finding) |
| `profile_eq` | `MCProfile` | the shipped operator `eq` does nothing (finding) |
| `plugin_reload` | `Plugins` | the first reload of a daemon with PCI plugins crashes it (finding) |
| `tree` | `MCTweakWire`, three calls of `RegisterTweak` out of seven with paths of three and four elements, 14 nodes, a socket for two messages; then sort, transfers, destruction, and again | no node is lost, doubled or freed twice; the tree is a catalogue; the top level is in order; the sort ends; a client that is not cut off gets the exact tree |
| `tree_sort` | `MCTweakWire` | lists below trees that the sort moves are not sorted (finding) |

Why the bounds are enough. In `Daemon` the daemon serves one client at a time;
two runs are needed for the races over the files, and no action involves a third.
One request covers all seven kinds because the kind is chosen anew. `MaxFds = 2`
lets the leak of descriptors reach a second session, and three clients, one of
which may be turned away before its session, use both descriptors up while one
still waits: `accept()` then fails with clients in the backlog and without, after
a session and after a SIGHUP. In `TweakSession` two tweaks in one byte
are the least that can disturb each other, three would be two pairs; two edits
let a user change a tweak, apply, and change another. In `Profile` the int of
two bits has an interior and both ends, and the theorem is for every width;
every int is an initial value of a tweak, so that one merge is enough.

In `backends` a file of two numbers has one element behind the one that is
written and one before it, and one of one number the end of the file right
behind it; the switch is the other kind of call, which does not read first. A file of none or of one
number is too short for its second tweak, which is what the search for tabs
needs to leave the buffer. The
two processes are interchangeable (`SYMMETRY`, their steps do not tell them
apart). A char of three bits has both signs, an int of 1024 values holds the
clocks, 200 bytes of memory make a percentage coarser than bytes. A drive that is
set to 40 is above its widget's 24. Two lost descriptors are one of each place, or
two of one, before and after a reload. The four normal plugins are one of each
kind: on the bus with and without a reason to fail, the one that registers and
fails, and one that depends on its hardware alone; after the first reload
the list lacks what failed at the start, after the second what failed in the first. Three devices give one alone, two
and three alike and two alike around another. What does depend on sizes - 62
numbers, 256 values of a char, any bus - is in the theorems.

In `TweakWire` three tweaks give lists of
three trees in every order at the top level and of two below, which is where an
exchange has a node before it, one behind it, both or none; fourteen nodes are
what three paths of four elements and their tweaks can take. The bound
`MaxTweaks` is over all trees that a process builds, so that a tree of one tweak
may follow one of two. Two messages in the socket let the daemon be ahead of
the client by one activation or blocked at any message. `Depth` (5) is the
longest path.

Deadlock is not checked (`CHECK_DEADLOCK FALSE`) where the system stops by
design: the daemon has exited and every client has quit, every profile has
been merged, everything is registered, a process has crashed, or a client waits for
the rest of a tree that was cut.

## 4. Fairness

`Daemon!FairSpec`: weak fairness of each daemon's and each client's own steps -
the scheduler runs them - and of `Quit`: a user who is not waiting for an
answer ends the session some time. Nothing is assumed of users beyond that, and
nothing of signals. Without the fairness of `Quit` a single idle client keeps
the daemon from everybody, which the design accepts (one connection at a time).
Both signals are allowed in the run. `EveryWaitEnds` has two exceptions, for what
the code does not give. A client whose own session a SIGHUP has ended (`cut`) is
left without an answer and with an open connection, because descriptors are never
closed after a session; a SIGHUP at any other time excuses nothing. And a client
in the backlog of a daemon that has no descriptor left (`ShutOut`) is not served,
because every earlier session has kept its own. A SIGTERM that falls between the test of `gotTERM` and
`accept()` is honoured only when somebody connects; `SessionTERMEndsDaemon`
speaks of those that fall into a session.

`TweakWire!FairSpec`: the daemon goes on with what it is doing to its tree
(`TreeStep`), writes when there is room, and the client reads when there is
something to read. Requests, reloads, signals and goodbyes are nobody's duty.
The transfer does end without the fairness of `TreeStep`, the sort does not.

## 5. Proofs

All theorems are about the specifications above with the constants' named
assumptions (`DaemonAssumption`, `BackendAssumption`, `DescriptionAssumption`,
`SessionAssumption`, `ProfileAssumption`, `PluginAssumption`, `TreeAssumption`,
`WireAssumption`, `FileAssumption`, `DeviceAssumption`,
`DescriptionsAssumption`) and nothing else, except where stated.

* `DaemonProofs`: `TypeCorrect`, `ListenerOwnsSocketFile`, `ServerOwnsPidFile`,
  `RootOnly`, `StreamAlwaysInStep`, `RepliesAlwaysMatch`,
  `SessionTreeAlwaysCurrent`: all seven safety properties, for any number of
  runs and clients. One inductive invariant: types, with the fact that whoever is
  authenticated or talked to is a connection; `ConnInv`, that the
  connection of a session is a root client's over an open descriptor;
  `FilesInv`, which adds to the two file properties who may unlink what: an
  instance that is in the middle of exiting still owns the socket file until it
  has unlinked it, so a successor cannot have bound it; and `LinkInv`, which is
  what the three properties of the stream need. A connection is in one place of
  one instance, at its head or in its queue; whatever lies in its stream is
  well-formed from where the instance reads on, beyond the head too; of the
  messages on the way, the one the instance is at included, at most one asks for
  a reply, and it is the last one unless its arguments follow; a client that
  waits has that one or its reply on the way, a client about to send arguments
  has asked for nothing earlier; and a client that was sent a tree was sent the
  present one. A stream whose client is gone is exempt: there the daemon reads
  what was left on its stack, and nobody is left to disagree.
* `TweakSessionProofs`: three layers, for any number of daemons and local GUIs
  whose reads, writes, saves and profiles overlap in any order.

  `TypeCorrect` has no hypotheses.

  `FieldsStayLegalAlways`. If at boot every switch holds one of its two
  patterns, if whoever else writes registers respects them, if tweaks of one
  name have fields alike and if the values that enter (from the file, the
  profiles, the user) fit the fields they are for (`LegalInputs`), then no
  interleaving leaves another pattern in a switch. The property is not
  inductive: a register is written from a value read long before and from
  values that went through the file, the tree and the widgets. The invariant
  says that *every* copy is legal: the register, the copy each process holds
  between its read and its write, the values stored, shown, saved and still to
  be sent. The core is a lemma about masks: `ChangeValue` of one tweak does not
  change the field of another (`NeighboursKept`), and leaves a pattern of its
  own in its own (`SwitchedLegal`).

  `AppliedIsInEffectAlways`, `WidgetsShowSystemAlways`,
  `StartAppliesConfigAlways`, `SaveStoresWidgetsAlways`,
  `OpenedProfileIsInEffectAlways`, `ApplyKeepsUneditedAlways`: the contracts of
  the operations. They assume `ExactInputs`: no radio buttons (§6: none gets
  into a tree); values that the widgets can show (the spinbox of the text
  interface knows no range, and a value larger than its field is outside of
  these theorems: see §8); and unique names, as `powertweak.h:105` has it, the
  run `session_names` showing what happens without. The registers may hold
  anything at any time. `ApplyKeepsUneditedAlways` also assumes that no text
  interface opens a profile, after which the widgets are stale. None of the
  contracts is inductive, as each speaks of a finished operation. The
  invariant `ContractInv` says of a process what of its job has been done:
  what a `ChangeValue` holds between its read and its write is what the
  register has, unless somebody interfered (`HoldInv`); for each tweak either
  the last change of it is among the calls still to make or the system already
  shows an accepted value (`WorkInv`, with one part for each kind of job, and
  `Settles`); the promise of the operation that was finished last holds until
  something happens (`DoneInv`); and what was read and not touched since is
  what the system shows (`FreshInv`). That a call does not undo an earlier one
  is again `NeighboursKept`: two tweaks of one register have disjoint masks.
* `ProcFileProofs`: `TypeCorrect`, `ElementsKeepTheirNumbers`,
  `CrashesNeedLoss`, `WritesArePrecise`, for files of none to 62 numbers, any
  number of processes and any order of their steps. `CrashesNeedLoss` names
  both causes of a death: a file that was not writable, or one that the search for tabs leaves;
  since the number of elements is a constant of a machine, a death once explained
  stays explained. The
  invariant says of a call in the middle what an array that was read is: its own
  element has the number that was asked for, every other one a number that this
  element of the file has had, and it has as many as the file; that is what a
  write at any later time may put back without inventing a number. While nobody
  else has written (`calm`) the array is the file but for that element, so that
  the write is precise; what the kernel does not accept is cut off behind the
  element, where nothing would change.
* `ValueDeviceProofs`: `DescriptorsAlwaysAccounted`,
  `UneditedApplyAlwaysChangesOnly`, `ClockIsAlwaysClosest`, for chars and ints of
  any width, any set of devices and any order of calls and reloads. The first is
  the sum of two counts that both survive `DestroyTweaks`; the invariant of the
  second is that a value is fresh only if the conversion takes it back to the
  device, with one lemma for the char and one for the ratio of a measured clock,
  and `DrawnAgrees` says that a widget which does not leave the value alone leaves
  the clock its ratio and the switch its state; the third follows from the ratio
  that is chosen, described without CHOOSE (`Ratio`).
* `DescriptionsProofs`: `TreeIsTheMachineAlways`, for any bus, any descriptions
  and any order. What has to be shown is that places tell apart everything that
  can be offered (`PlacesTellApart`): two devices of one id have different
  numbers, because fewer of their kind are in front of the first one
  (`SeenMore`, by counting); the places of the two kinds of PCI tweaks differ in
  their frame, those of wildcards in entry or text. The invariant then says that
  every tweak offered so far is in the tree or still to come.
* `ProfileProofs`: `TypeCorrect`, `CompatibleSettingsHoldAlways`,
  `ChangesAreMinimalAlways`. The invariant of the second is that while a
  profile is being merged the settings behind `pos` hold; it is preserved
  because a setting moves a value only up to its own bound, which the common
  solution is not beyond.

* `PluginsProofs`: `TypeCorrect`, `CodeIsLoadedAlways`,
  `BusOutlivesTweaksAlways`, `InitOnceAlways`, `EndReleasesAllAlways`, for any
  set of plugins and any number of reloads. `CodeIsLoadedAlways` excepts the tweaks
  of plugins in `Partial`, and of nothing else that those plugins have. The invariant has three parts:
  `ListsInv` (no file twice in the list, every entry mapped, nothing unread
  mapped), `RunsInv` (entries before `entry` have been initialised, those
  from it on have not, and only initialised plugins own tweaks: so the plugin
  being unloaded owns none, unless it is one of `Partial`) and `BusInv` (the devices are there exactly while
  their callback is registered). What makes `InitOnce` hold is a lemma about
  removing an entry from a sequence (`Removed`): the entries behind it move up
  by one, and `entry` then names the next one.

* `TweakTreeProofs`: nine theorems, for any finite number of nodes, any texts
  and any registrations.

  `TreeTypeCorrect`, `OnePointerAlways`. `OnePointer` is not inductive, for
  three reasons that are the parts of the invariant `IInv`. An exchange of two
  neighbours makes two pointers equal if they are each other's successor, so
  `AheadInv` excludes circles of one and two. A node that is inserted must not
  bring pointers of its own along: outside the tree they are NULL
  (`BlankInv`), and the place a search has reached is in the tree
  (`SearchInv`). And `DestroyAllTweaks` leaves pointers to freed nodes behind;
  `DestroyInv` says that they are only in the Sub fields of the nodes the
  recursion is inside, and that nothing but the list an activation walks along
  leads to where it stands. One lemma, `InvFree`, then serves both places
  where a node is freed. The transfer is covered because none of its steps
  changes the tree (`WireStep`).

  `NothingLostAlways`. What pointers lead to is computed by a recursion over as
  many rounds as there are nodes (`From`). It is the smallest closed set
  (`FromIsLeast`, by counting: a round that adds nothing is the last one), and
  with that the invariant need not mention the recursion: `ReachInv` says that
  *whatever* closed set the tree begins in has every allocated node. That
  survives an exchange of neighbours, because a set that is closed afterwards
  was closed before, or is so without the first of the two. While the tree is
  destroyed the sets are closed but for the Sub lists the recursion is inside,
  and `StandInv` says that it is inside allocated nodes, each once.

  `TopLevelInOrderAlways` and `TreeIsCatalogue`, the refinement of `Catalogue`.
  There is no variable for the path of a node; the invariant `NameInv` says that
  there is a function `dir` which gives every node the path of its list, that
  each pointer agrees with it, that a node is in the list its path says, and
  that no two nodes have one path (`Names`). To be in a list is again to be in
  every set that the list leads into and does not leave (`InList`). A search has
  passed only nodes of other texts (`Searched`), so that what is put at the end
  of a list has a new path; an exchange leaves `dir` as it is. The sort adds
  `Ordered`: what the loop has passed at the top is in order, and once it is
  done nothing below disturbs the top, since whatever is exchanged there has
  another path. A level of `Entries` is then the nodes with paths of that length
  (`EntriesNow`), a new node is one step of `Catalogue` or, deeper than `Depth`,
  none, and every other step until the destruction is a stutter. Strictness of
  the order comes from the names: equal texts in one list would be equal paths.

  `SortGetsOnAlways` and `SearchGetsOnAlways` are what can be said without
  fairness of the ends of two loops. The sort begins again at the head of the
  list after every exchange and calls itself for every Sub list; what decreases
  with each step is a tuple of finite things, in this order: the pairs of nodes
  that are in one list the wrong way round (`Inversions`), the nodes the
  recursion has still to come to (`Remaining`), its depth, the phase, and what
  the inner loop has still to compare (`Ahead`). An exchange removes its own
  pair and adds none (`SwapShrinks`, from `BehindExchanged`: nothing else comes
  to be behind anything). That the recursion does not come to a node twice
  needs that no list is a circle (`ListAcyclic`, from `ReachInv`: a circle would
  have no pointer into it) and that the stack is a way down the tree, each list
  the Sub list of the node before (`WayInv`): what is left on the levels above
  has paths that part from it (`NotAgain`). A step of the search likewise ends
  it, or leaves less of the path, or less of the list. That the steps are taken
  at all is fairness, and stays with `SortEnds`.

  `InStepAlways` and `CopyIsExactAlways`, for a socket of any size. The
  client's recursion is where the daemon's was when it sent what the client
  reads next, so `WireInv` has a witness for every message on the way: the
  activations of the daemon before it sent it (`Transfers`), each following from
  the one before by the step of `SendTweakStructure` that sends that message,
  and the client mirrors the first of them. The copy is then exact in every
  pointer of the nodes that the client has left, and of those it is inside only
  the pointers still to be read are missing; when it has returned from the first
  one nothing is missing, and what the root leads to is all of the tree.

Three assumptions on constants say what a machine gives and a model has to be
told: nodes are finitely many and none of them is NULL, and addresses are told
apart from the messages of the protocol. `MenuAssumption`, which only the
order of the top level and the catalogue rest on, is the callers': every format
given to `RegisterTweak` in the plugins begins with `m`, so that a path begins
with a menu and nothing but trees is at the top. (`RegisterTweak(NULL, "")` in
`daemon/daemon.c:406` stands under `if (argc<0)` and is never reached.)

Only model-checked: liveness (`EveryWaitEnds`, `SessionTERMEndsDaemon`,
`ReloadAtNextConnection`, `SortEnds`, `TransferEnds`), which is out of the
prover's reach; of `SortEnds`, the half that is not about fairness is
`SortGetsOnAlways`. All other properties of the passing runs have a theorem.

## 6. Not modelled

* Parsing of XML, of the configuration file and of profiles: the models begin
  with what the parsers return, and the shipped descriptions are data of the
  `MC` modules. What a description says is not a question about states.
* Information pages (CPU, DMI, PCI, ATA IDENTIFY): read once, decoded and shown,
  without a state that the code keeps and without a reference to check the
  decoding against but the code itself. Buttons that send an ATA command have no
  value.
* Tweaks of model-specific registers (`backends/CPU/x86`): no tree has one.
  `ParseIndex` (`backends/CPU/x86/xml.c:306-356`) compares the child elements of
  an entry, the shipped `xml/cpu/index.xml` has attributes, so that no CPU is
  found.
* Strings: no shipped description of a string can be changed
  (`write_string_to_proc_file` does not work yet, says its comment). Combo boxes
  and radio buttons: no shipped description gets one into the tree.
* In the transfer, a client that runs out of memory, and what a daemon does
  after a signal has cut one (it serves the next client; see `Daemon`).
* Windows, menus, layout.
* Running out of memory, and what a process does that has no descriptor left for
  its devices (`ValueDevices` counts those that are lost up to `MaxLeak`; that
  `accept()` fails for want of one is in `Daemon`).
* Turbo Vision (`textmode/tvision/`) and pciutils (`backends/core/PCILIB/`),
  third-party code: 28,700 of the 45,400 lines of C and C++. Much of the other
  16,700 builds windows and information pages, so that the share of all lines
  that the map names is small.

## 7. Plan

Done: the modules above and their proofs. To come, in this order:

1. An abstract store of settings that `TweakSession` implements when processes
   do not overlap; the daemon of `Daemon` and the transfer of `TweakWire`
   composed, so that a cut transfer is followed to its end.
2. Proofs: what makes the transfer and the destruction of the tree end, as far
   as it can be said without fairness, in the way `SortGetsOnAlways` does.

## 8. Statements left to the reader

Where the models have a behaviour that a document or a comment contradicts, and
no run of its own:

* A second SIGHUP is not heard (`hupIgnored` in `Daemon`; ChangeLog:25 says
  "Daemon now handles >1 HUP.").
* A slider's value that does not fit its mask is cut in the register and kept
  whole in the tree (`PCIValue` in `TweakBackend`;
  `xml/pci/Intel/82371AB-PIIX4-0.xml:14-21` has such a slider).
* Opening a profile changes the system and not the widgets, and the next Apply
  takes its settings back (`OpenProfile` in `TweakSession`);
  `Documentation/FAQ:77-80` says of these profiles that they "adjust the
  settings in the GUI to optimal".
* `shm_get_value_raw` stores bytes in a tweak that is labelled and set in
  percent (`backends/proc/misc/shm.c:43`, 114): Apply of a slider that nobody
  touched asks for that many percent (`ReadValue` and `SetTo` in
  `ValueDevices`).
* A CD-ROM settings file without a line for the speed makes the speed 0, which
  Apply then selects (`silent` in `ValueDevices`).

* An interface that reads the brightness of a Vaio in its upper half stores it as
  a negative number, because the byte is a signed `char`
  (`backends/sonypi/sonypitweaks.c:73`); its spin button has the range 0..255
  (line 143), makes 0 of it at the next update, and Apply sets it to the least
  (`Drawn` in `ValueDevices`, the third exception of `UneditedApplyChangesOnly`).
* A DMI plugin that finds `_SM_` and no `_DMI_` registers a tweak, fails, and is
  unmapped (`backends/DMI/dmitweaks.c:74-98`, `libpowertweak/plugin.c:160`); the
  reload, the exit or a request then calls a method that is not there (`Partial`
  and `Segfault` in `Plugins`).
* The search for the tabs in front of an element has no bound
  (`backends/proc/proc.c:57-63`): a file with fewer numbers than its description
  names is read past the buffer (`ScanFaults` in `ProcFile`).
* Every session costs the daemon a descriptor; once they are used up `accept()`
  fails and the daemon tries again at once, for as long as it lives
  (`daemon/daemon.c:367`, `ShutOut` in `Daemon`).

And seen while reading, outside of the models:

* The radio buttons in `xml/pci/Intel/82434.xml:70-101` have NAME where the
  parser expects WIDGETTEXT, so that they are destroyed and their group is
  empty, which the text interface refuses with an assertion
  (`textmode/ptradiobutton.cc`); the same file selects the first button of a
  group when it is built, whatever is set (lines 74-81).
* `elevatortweaks.c:215` starts the slider for bomb_segments from the read
  latency.
* `backends/hdparm/hdparm.c:25-29` explains the missing `GetValueRaw` with "all
  the available tweaks are read-only"; the switch for S.M.A.R.T. is not, and
  keeps showing what it was set to.
