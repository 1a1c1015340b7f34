---------------------------- MODULE TweakSession ----------------------------
(***************************************************************************)
(* The values of the tweaks in the processes that hold a tweak tree, from  *)
(* the register through the backend's cached value to the widget, and to   *)
(* the configuration file and back.                                        *)
(*                                                                         *)
(* A process is powertweakd, which a GUI reaches over a session, or a GUI  *)
(* that found no daemon and loaded the plugins itself.  The GUI is the GTK *)
(* interface or the text interface; the latter reads no values back after  *)
(* Apply, cannot refresh, and opens profiles.  Processes share the         *)
(* registers and the configuration file and nothing else.  What a      *)
(* process does is a job: the sequence of method calls that a handler      *)
(* makes on its tweaks, in tree order.  ChangeValue reads the register,    *)
(* computes, and writes it in a later step.                                *)
(*                                                                         *)
(* Sources: src/libpowertweak/config.c and profile.c, src/daemon/daemon.c, *)
(* src/GTK/ (mainwindow.c, gtkgui.c, widgetvalues.c, tab.c), src/textmode/ *)
(* (main.cc, fixup.cc, ptcheckbox.cc, ptspinbox.cc) and TweakBackend's.    *)
(***************************************************************************)
EXTENDS TweakBackend, Naturals, Sequences

CONSTANTS
  Daemons,        \* the processes that are powertweakd
  Locals,         \* the GUIs in local mode
  Savers,         \* the processes in which Save is clicked
  Textual,        \* those whose GUI is the text interface
  Order,          \* the tweaks in tree order
  ConfigName,     \* the name of each tweak, which two may share
  Choices,        \* the values the user picks, of each tweak
  InitialConfigs, \* contents of the configuration file to start from
  Profile,        \* the settings of the profiles that are loaded by themselves
  Opened,         \* those of the profile that is opened in a text interface
  BootStates,     \* contents of the registers to start from
  KernelStates,   \* contents somebody else may put into them later
  MaxEdits,       \* how often the user changes a widget
  None            \* no value

Procs == Daemons \cup Locals
Configs == [Tweaks -> {None} \cup Values]
Machine == [Registers -> Values]
Settings == [tweak : Tweaks, value : Values, unless : SUBSET Values]

ASSUME SessionAssumption ==
  /\ Daemons \cap Locals = {} /\ Savers \subseteq Procs /\ Textual \subseteq Procs
  /\ Tweaks # {}
  /\ Order \in Seq(Tweaks) /\ {Order[i] : i \in DOMAIN Order} = Tweaks
  /\ \A t \in Tweaks : Choices[t] \subseteq Values
  /\ InitialConfigs \subseteq Configs
  /\ Profile \in Seq(Settings) /\ Opened \in Seq(Settings)
  /\ BootStates \subseteq Machine /\ KernelStates \subseteq Machine
  /\ (\A v \in Values : v # None) /\ MaxEdits \in Nat

VARIABLES
  reg,      \* the registers
  config,   \* /etc/powertweak/tweaks, None: the tweak has no line
  phase,    \* what each process is doing
  job,      \* the method calls its handler has still to make
  hold,     \* what ChangeValue has read and not yet written back, or None
  pvt,      \* PrivateData->value of each tweak: what GetValue returns
  temp,     \* TempValue of each tweak: what the widget shows
  edits,    \* edits the user may still make
  \* History, read by the properties only:
  done,     \* the last operation that nobody interfered with and that is over
  clean,    \* nobody has interfered since the operation at hand began
  fresh,    \* nor since the values were last read from the registers
  edited,   \* the tweaks whose widget the user has changed since then
  set       \* the last value ChangeValue was called with in this tree, or None

values  == <<pvt, temp>>
history == <<done, clean, fresh, edited, set>>
vars    == <<reg, config, phase, job, hold, values, edits, history>>

-----------------------------------------------------------------------------
(* Jobs *)

Busy   == {"starting", "connecting", "applying", "saving", "refreshing", "opening"}
Phases == {"down", "serving", "ui"} \cup Busy

Call(op, t, v, unless, now) ==
  [op |-> op, tweak |-> t, value |-> v, unless |-> unless, now |-> now]
Calls == [op : {"raw", "get", "skip", "change", "truncate", "put"},
          tweak : Tweaks, value : Values, unless : SUBSET Values, now : BOOLEAN]

\* find_tweak_by_configname: the first tweak of the tree that has the name.
Find(t) ==
  LET same == {i \in DOMAIN Order : ConfigName[Order[i]] = ConfigName[t]} IN
  Order[CHOOSE i \in same : \A k \in same : i <= k]

\* The tweak on which a method call of the GUI ends up: over a session the
\* calls carry the name.
Reached(p, t) == IF p \in Daemons THEN Find(t) ELSE t

\* One call for each tweak of the tree.
ForAll(op) == [i \in DOMAIN Order |-> Call(op, Order[i], {}, {}, FALSE)]

\* GetValueRaw of each tweak, in the process that holds the tree.
update_tree_values == ForAll("raw")

\* The same, asked for by the GUI.
RefreshValuesFromDaemon(p) ==
  [i \in DOMAIN Order |-> Call("raw", Reached(p, Order[i]), {}, {}, FALSE)]

\* TempValue becomes GetValue, when the windows are built (in the text interface
\* FixUpTree, in an order that nothing can tell) and afterwards; the latter
\* visits a tweak when it has visited those behind it.
fill_frame == ForAll("get")
update_GTK_tree_values ==
  [i \in DOMAIN Order |-> fill_frame[Len(Order) + 1 - i]]

\* GuiToDaemon: ChangeValue of each tweak with its TempValue.
GuiToDaemon(p, now) ==
  [i \in DOMAIN Order |-> Call("change", Reached(p, Order[i]), temp[p][Order[i]], {}, now)]

\* merge_config_in_tree: the file is read as a whole, then ChangeValue of each
\* tweak that has a line in it.
merge_config_in_tree(now) ==
  [i \in DOMAIN Order |->
     LET t == Order[i] IN
     IF config[t] = None THEN Call("skip", t, {}, {}, now)
                         ELSE Call("change", t, config[t], {}, now)]

\* A setting changes its tweak, at once, unless GetValue already satisfies it;
\* "value" is what perform_operation makes of any other value.
merge_profile(settings) ==
  [i \in DOMAIN settings |->
     Call("change", settings[i].tweak, settings[i].value, settings[i].unless, TRUE)]

load_profiles == merge_profile(Profile)

\* save_tree_to_config: fopen truncates, then one line for each tweak.
save_tree_to_config == <<Call("truncate", Order[1], {}, {}, FALSE)>> \o ForAll("put")

-----------------------------------------------------------------------------
(* Initial state *)

Init ==
  /\ reg \in BootStates
  /\ config \in InitialConfigs
  /\ phase = [p \in Procs |-> "down"]
  /\ job = [p \in Procs |-> <<>>]
  /\ hold = [p \in Procs |-> None]
  /\ pvt = [p \in Procs |-> [t \in Tweaks |-> {}]]
  /\ temp = [p \in Procs |-> [t \in Tweaks |-> {}]]
  /\ edits = MaxEdits
  /\ done = [p \in Procs |-> "none"]
  /\ clean = [p \in Procs |-> TRUE]
  /\ fresh = [p \in Procs |-> TRUE]
  /\ edited = [p \in Procs |-> {}]
  /\ set = [p \in Procs |-> [t \in Tweaks |-> None]]

\* The process begins the operation ph, which makes the calls of calls.
Begin(p, ph, calls) ==
  /\ phase' = [phase EXCEPT ![p] = ph]
  /\ job' = [job EXCEPT ![p] = calls]
  /\ done' = [done EXCEPT ![p] = "none"]
  /\ clean' = [clean EXCEPT ![p] = TRUE]
  /\ fresh' = IF ph \in {"starting", "connecting", "refreshing"}
              THEN [fresh EXCEPT ![p] = TRUE] ELSE fresh
  /\ UNCHANGED <<reg, config, hold, edits>>

\* Everybody but p finds the registers or the file changed.
Interfere(p) ==
  /\ done' = [q \in Procs |-> IF q = p THEN done[q] ELSE "none"]
  /\ clean' = [q \in Procs |-> q = p /\ clean[q]]
  /\ fresh' = [q \in Procs |-> q = p /\ fresh[q]]

-----------------------------------------------------------------------------
(* Operations *)

\* Variant: the daemon stores the configuration without putting it in effect.
StartWithoutEffect(p) ==
  /\ phase[p] = "down"
  /\ Begin(p, "starting",
           update_tree_values \o merge_config_in_tree(FALSE) \o load_profiles
             \o (IF p \in Locals THEN fill_frame ELSE <<>>))
  /\ set' = [set EXCEPT ![p] = [t \in Tweaks |-> None]]
  /\ UNCHANGED <<values, edited>>

\* main of powertweakd (immediate = 1), or LoadPluginsIfNecessary in a GUI
\* (immediate = 0), which then builds its window.
Start(p) ==
  /\ phase[p] = "down"
  /\ Begin(p, "starting",
           update_tree_values \o merge_config_in_tree(p \in Daemons)
             \o load_profiles \o (IF p \in Locals THEN fill_frame ELSE <<>>))
  /\ set' = [set EXCEPT ![p] = [t \in Tweaks |-> None]]
  /\ UNCHANGED <<values, edited>>

\* restart() after SIGHUP, between two sessions.  With a tweak of the PCI
\* backend in the tree it crashes (module Plugins): that is Die.
Reload(p) ==
  /\ p \in Daemons /\ phase[p] = "serving"
  /\ \A t \in Tweaks : Backend[t] # "PCI"
  /\ Begin(p, "starting", 
           update_tree_values \o merge_config_in_tree(TRUE) \o load_profiles)
  /\ set' = [set EXCEPT ![p] = [t \in Tweaks |-> None]]
  /\ UNCHANGED <<values, edited>>

\* Variant: a session begins with the values the daemon remembers.
ConnectRemembering(p) ==
  /\ p \in Daemons /\ phase[p] = "serving"
  /\ Begin(p, "connecting", fill_frame)
  /\ UNCHANGED <<values, edited, set>>

\* A session: the daemon refreshes its tree, the GUI fills its widgets.
Connect(p) ==
  /\ p \in Daemons /\ phase[p] = "serving"
  /\ Begin(p, "connecting", update_tree_values \o fill_frame)
  /\ UNCHANGED <<values, edited, set>>

\* Change_CheckBox, Change_Slider, Change_SpinButton; TCheckbox::press and
\* TSpinbox::handleEvent, which knows no range.
Edit(p) ==
  /\ phase[p] = "ui"
  /\ edits > 0
  /\ \E t \in Tweaks : \E v \in Choices[t] \ {temp[p][t]} :
       /\ temp' = [temp EXCEPT ![p][t] = v]
       /\ edited' = [edited EXCEPT ![p] = @ \cup {t}]
  /\ edits' = edits - 1
  /\ done' = [done EXCEPT ![p] = "none"]
  /\ UNCHANGED <<reg, config, phase, job, hold, pvt, clean, fresh, set>>

\* applyfunction; cmApplyTweaks reads nothing back.
Apply(p) ==
  /\ phase[p] = "ui"
  /\ Begin(p, "applying",
           GuiToDaemon(p, TRUE) \o (IF p \in Textual THEN <<>> ELSE update_GTK_tree_values))
  /\ UNCHANGED <<values, edited, set>>

\* Variant: Save writes the file without handing the widgets' values over.
SaveStored(p) ==
  /\ p \in Savers /\ phase[p] = "ui"
  /\ Begin(p, "saving", save_tree_to_config)
  /\ UNCHANGED <<values, edited, set>>

\* savefunction, cmSaveTweaks
Save(p) ==
  /\ p \in Savers /\ phase[p] = "ui"
  /\ Begin(p, "saving", GuiToDaemon(p, FALSE) \o save_tree_to_config)
  /\ UNCHANGED <<values, edited, set>>

\* refreshfunction; a GUI in local mode has no refresh button, the text interface
\* no refresh at all.
Refresh(p) ==
  /\ p \in Daemons \ Textual /\ phase[p] = "ui"
  /\ Begin(p, "refreshing", RefreshValuesFromDaemon(p) \o update_GTK_tree_values)
  /\ UNCHANGED <<values, edited, set>>

\* cmOpenProfile: the settings take effect at once.  The widgets are left as they
\* are, and the next Apply sends what they show.
OpenProfile(p) ==
  /\ p \in Textual /\ phase[p] = "ui" /\ Opened # <<>>
  /\ Begin(p, "opening", merge_profile(Opened))
  /\ UNCHANGED <<values, edited, set>>

\* The handler is over.
Finish(p) ==
  /\ phase[p] \in Busy /\ job[p] = <<>>
  /\ phase' = [phase EXCEPT ![p] =
                 IF @ = "starting" /\ p \in Daemons THEN "serving" ELSE "ui"]
  /\ done' = [done EXCEPT ![p] = IF clean[p] THEN phase[p] ELSE "none"]
  /\ UNCHANGED <<reg, config, job, hold, values, edits, clean, fresh, edited, set>>

\* The GUI quits: the daemon goes on, a GUI in local mode is gone.
Quit(p) ==
  /\ phase[p] = "ui"
  /\ phase' = [phase EXCEPT ![p] = IF p \in Daemons THEN "serving" ELSE "down"]
  /\ done' = [done EXCEPT ![p] = "none"]
  /\ edited' = [edited EXCEPT ![p] = {}]
  /\ UNCHANGED <<reg, config, job, hold, values, edits, clean, fresh, set>>

\* The process dies, between two calls or in the middle of ChangeValue.
Die(p) ==
  /\ phase[p] # "down"
  /\ phase' = [phase EXCEPT ![p] = "down"]
  /\ job' = [job EXCEPT ![p] = <<>>]
  /\ hold' = [hold EXCEPT ![p] = None]
  /\ done' = [done EXCEPT ![p] = "none"]
  /\ edited' = [edited EXCEPT ![p] = {}]
  /\ UNCHANGED <<reg, config, values, edits, clean, fresh, set>>

-----------------------------------------------------------------------------
(* Method calls *)

Todo(p) == Head(job[p])
Drop(p) == job' = [job EXCEPT ![p] = Tail(@)]
Here(p) == Register[Todo(p).tweak]

GetValueRaw(p) ==
  /\ job[p] # <<>> /\ Todo(p).op = "raw"
  /\ pvt' = [pvt EXCEPT ![p][Todo(p).tweak] = Shown(Todo(p).tweak, reg[Here(p)])]
  /\ Drop(p)
  /\ UNCHANGED <<reg, config, phase, hold, temp, edits, history>>

\* What the widget makes of a value: a check mark of the text interface has
\* one bit, and pressing it puts that into TempValue.
Drawn(p, t, v) == IF p \in Textual /\ Widget[t] = "checkbox" /\ v # {} THEN One ELSE v

GetValue(p) ==
  /\ job[p] # <<>> /\ Todo(p).op = "get"
  /\ temp' = [temp EXCEPT ![p][Todo(p).tweak] =
                Drawn(p, Todo(p).tweak, pvt[p][Reached(p, Todo(p).tweak)])]
  /\ edited' = [edited EXCEPT ![p] =
                  IF phase[p] = "applying" THEN @ ELSE @ \ {Todo(p).tweak}]
  /\ Drop(p)
  /\ UNCHANGED <<reg, config, phase, hold, pvt, edits, done, clean, fresh, set>>

\* A tweak that has no line in the file.
Skip(p) ==
  /\ job[p] # <<>> /\ Todo(p).op = "skip"
  /\ Drop(p)
  /\ UNCHANGED <<reg, config, phase, hold, values, edits, history>>

\* The value that ChangeValue is called with.
Wanted(p) ==
  LET c == Todo(p) IN
  IF pvt[p][c.tweak] \in c.unless THEN pvt[p][c.tweak] ELSE c.value

\* Variant: a value that is stored already is not written.
ChangeValueIfNew(p) ==
  LET c == Todo(p) IN
  /\ job[p] # <<>> /\ c.op = "change" /\ hold[p] = None
  /\ pvt' = [pvt EXCEPT ![p][c.tweak] = Wanted(p)]
  /\ set' = [set EXCEPT ![p][c.tweak] = Wanted(p)]
  /\ \/ /\ c.now /\ ~NotSet(c.tweak, Wanted(p)) /\ Wanted(p) # pvt[p][c.tweak]
        /\ hold' = [hold EXCEPT ![p] = reg[Here(p)]]
        /\ UNCHANGED job
     \/ /\ ~c.now \/ NotSet(c.tweak, Wanted(p)) \/ Wanted(p) = pvt[p][c.tweak]
        /\ Drop(p)
        /\ UNCHANGED hold
  /\ UNCHANGED <<reg, config, phase, temp, edits, done, clean, fresh, edited>>

\* ChangeValue up to the read of the register: with immediate = 0, or with a
\* value that is not to be set, that is all.
ChangeValue(p) ==
  LET c == Todo(p) IN
  /\ job[p] # <<>> /\ c.op = "change" /\ hold[p] = None
  /\ pvt' = [pvt EXCEPT ![p][c.tweak] = Wanted(p)]
  /\ set' = [set EXCEPT ![p][c.tweak] = Wanted(p)]
  /\ \/ /\ c.now /\ ~NotSet(c.tweak, Wanted(p))
        /\ hold' = [hold EXCEPT ![p] = reg[Here(p)]]
        /\ UNCHANGED job
     \/ /\ ~c.now \/ NotSet(c.tweak, Wanted(p))
        /\ Drop(p)
        /\ UNCHANGED hold
  /\ UNCHANGED <<reg, config, phase, temp, edits, done, clean, fresh, edited>>

\* The write that ends ChangeValue; the PCI backend omits it when it believes
\* that nothing changes.
WriteBack(p) ==
  LET c == Todo(p)
      new == NewValue(c.tweak, hold[p], Wanted(p)) IN
  /\ hold[p] # None
  /\ hold' = [hold EXCEPT ![p] = None]
  /\ Drop(p)
  /\ IF Backend[c.tweak] = "PCI" /\ new = hold[p]
     THEN UNCHANGED <<reg, done, clean, fresh>>
     ELSE /\ reg' = [reg EXCEPT ![Here(p)] = new]
          /\ Interfere(p)
  /\ UNCHANGED <<config, phase, values, edits, edited, set>>

\* fopen (filename, "w")
Truncate(p) ==
  /\ job[p] # <<>> /\ Todo(p).op = "truncate"
  /\ config' = [t \in Tweaks |-> None]
  /\ Drop(p)
  /\ Interfere(p)
  /\ UNCHANGED <<reg, phase, hold, values, edits, edited, set>>

\* fprintf of "name = GetValue", for one tweak
Put(p) ==
  /\ job[p] # <<>> /\ Todo(p).op = "put"
  /\ config' = [config EXCEPT ![Todo(p).tweak] = pvt[p][Todo(p).tweak]]
  /\ Drop(p)
  /\ Interfere(p)
  /\ UNCHANGED <<reg, phase, hold, values, edits, edited, set>>

\* The kernel, another tool or a reboot changes the registers.
Elsewhere ==
  /\ reg' \in KernelStates \ {reg}
  /\ done' = [q \in Procs |-> "none"]
  /\ clean' = [q \in Procs |-> FALSE]
  /\ fresh' = [q \in Procs |-> FALSE]
  /\ UNCHANGED <<config, phase, job, hold, values, edits, edited, set>>

-----------------------------------------------------------------------------
(* Specification *)

Step(p) ==
  \/ GetValueRaw(p) \/ GetValue(p) \/ Skip(p) \/ ChangeValue(p) \/ WriteBack(p)
  \/ Truncate(p) \/ Put(p) \/ Finish(p)

Next ==
  \/ \E p \in Procs :
       \/ Start(p) \/ Reload(p) \/ Connect(p) \/ Edit(p) \/ Apply(p) \/ Save(p)
       \/ Refresh(p) \/ OpenProfile(p) \/ Step(p) \/ Quit(p) \/ Die(p)
  \/ Elsewhere

Spec == Init /\ [][Next]_vars

-----------------------------------------------------------------------------
(* Properties *)

TypeOK ==
  /\ reg \in Machine
  /\ config \in Configs
  /\ phase \in [Procs -> Phases]
  /\ job \in [Procs -> Seq(Calls)]
  /\ hold \in [Procs -> {None} \cup Values]
  /\ \A p \in Procs : hold[p] # None => job[p] # <<>> /\ Todo(p).op = "change"
  /\ pvt \in [Procs -> [Tweaks -> Values]]
  /\ temp \in [Procs -> [Tweaks -> Values]]
  /\ edits \in 0..MaxEdits
  /\ done \in [Procs -> {"none"} \cup Busy]
  /\ clean \in [Procs -> BOOLEAN] /\ fresh \in [Procs -> BOOLEAN]
  /\ edited \in [Procs -> SUBSET Tweaks]
  /\ set \in [Procs -> [Tweaks -> {None} \cup Values]]

\* Whatever processes read, compute and write at the same time, a checkbox
\* field never holds a pattern its description does not know.
FieldsStayLegal == \A t \in Tweaks : Legal(t, reg[Register[t]])

\* When Apply is over the system shows every widget's value, also where
\* several tweaks have been written into one register one after the other.
AppliedIsInEffect ==
  \A p \in Procs : done[p] = "applying" =>
    \A t \in Tweaks : Shown(t, reg[Register[t]]) = temp[p][t]

\* The system shows of each tweak a value that its last setting accepts.
LastSettingsHold(settings) ==
  \A i \in DOMAIN settings :
    LET t == settings[i].tweak IN
    (\A k \in DOMAIN settings : settings[k].tweak = t => k <= i) =>
      Shown(t, reg[Register[t]]) \in settings[i].unless \cup {settings[i].value}

\* When a daemon has started or reloaded, the settings of the file are in
\* effect, also those that an earlier GUI only saved; a tweak with settings in
\* the profiles has a value that the last one of them accepts.
StartAppliesConfig ==
  \A p \in Daemons : done[p] = "starting" =>
    /\ \A t \in Tweaks : (\A i \in DOMAIN Profile : Profile[i].tweak # t) /\ config[t] # None
                         => Shown(t, reg[Register[t]]) = config[t]
    /\ LastSettingsHold(Profile)

\* When a profile has been opened its settings are in effect, also those that
\* were compared with a stored value that the system no longer has.
OpenedProfileIsInEffect == \A p \in Textual : done[p] = "opening" => LastSettingsHold(Opened)

\* When Save is over the file has the value of every widget.
SaveStoresWidgets ==
  \A p \in Procs : done[p] = "saving" => config = temp[p]

\* A GUI that has just connected or refreshed shows the state of the system
\* (ChangeLog: "Tweaks that have changed value since the daemon has loaded
\* now reflect their current state in the UIs").
WidgetsShowSystem ==
  \A p \in Procs : done[p] \in {"connecting", "refreshing"} =>
    \A t \in Tweaks : Shown(t, reg[Register[t]]) = temp[p][t]

\* Apply sends every widget, but the tweaks the user has not touched since
\* they were read keep their bits, as long as nobody else has interfered and
\* the fields hold patterns the descriptions know.
ApplyKeepsUnedited ==
  [][\A p \in Procs :
       phase[p] = "applying" /\ hold[p] # None /\ hold'[p] = None
         /\ phase'[p] # "down" /\ fresh[p] /\ p \in Daemons
         /\ Todo(p).tweak \notin edited[p] /\ Legal(Todo(p).tweak, hold[p])
       => reg' = reg]_vars

\* powertweak.h:50-55, GetValue: "If ChangeValue() is ever called, GetValue
\* will return the value set by that."
GetValueReturnsSetting ==
  \A p \in Procs : \A t \in Tweaks :
    phase[p] # "down" /\ set[p][t] # None => pvt[p][t] = set[p][t]

=============================================================================
