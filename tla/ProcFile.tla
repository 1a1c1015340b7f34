------------------------------- MODULE ProcFile -------------------------------
(***************************************************************************)
(* The files under /proc/sys and the tweaks that change their elements: a  *)
(* file is read whole and written whole for one element of it (write_int_  *)
(* to_proc_file in backends/proc/proc.c), files lose their permissions or  *)
(* disappear with the devices they are about, and several processes do     *)
(* this at the same time, without a lock.                                  *)
(*                                                                         *)
(* What TweakSession calls one read and one write of a register is here    *)
(* taken apart for the /proc backend; the values the tweaks store are      *)
(* modelled there and left out here.  Every shipped description has the    *)
(* default masks: a switch writes 1 or 0, anything else its value.         *)
(***************************************************************************)
EXTENDS Integers

CONSTANTS
  Procs,      \* processes with a tree: the daemon, interfaces in local mode
  Tweaks,     \* the tweaks of one /proc file each
  Files,
  Order,      \* when its description is read
  File,       \* the file of each tweak
  Element,    \* ELEMENT of its description, -1 where the file is one number
  Widget,     \* "checkbox", "radio" or "number"
  Sizes,      \* how many numbers a file may have: kernels differ
  Reach,      \* how many of them are sure to begin in its first 63 characters
  Values,     \* what users, profiles and configuration files ask for
  Legal,      \* the numbers the kernel accepts as each element of a file
  MaxOutside  \* bound on what others do to the files

ASSUME FileAssumption ==
  /\ File \in [Tweaks -> Files] /\ Sizes \in [Files -> SUBSET (0 .. 62)]
  /\ Reach \in [Files -> Nat]
  /\ Element \in [Tweaks -> Int] /\ \A t \in Tweaks : Element[t] \in -1 .. 62
  /\ Widget \in [Tweaks -> {"checkbox", "radio", "number"}]
  /\ Order \in [Tweaks -> Nat]
  /\ Values \subseteq Int /\ 0 \in Values /\ MaxOutside \in Nat
  /\ DOMAIN Legal = Files
  /\ \A f \in Files : Legal[f] \in [0 .. 61 -> SUBSET Int]

\* The room of the array elements[] of write_int_to_proc_file.
Room == 63

VARIABLES
  size,     \* how many numbers each file has
  element,  \* the numbers in each file
  access,   \* what a process may do with a file: "rw", "r" or "none"
  status,   \* the tweak of each process: "unknown" while its description has
            \* not been read, "absent" (not registered), "readonly" (its
            \* ChangeValue is NULL) or "writable"
  call,     \* the call of ChangeValue each process is in
  outside,  \* how often others acted
  \* History, read by no guard:
  seen,     \* the numbers every element has had or was asked to have
  calm,     \* nobody else has changed the file since this call began
  lost      \* the files that were not writable at some time

files == <<size, element, access>>
history == <<seen, calm, lost>>
vars == <<files, status, call, outside, history>>

Slots(f) == 0 .. size[f] - 1
Slot(t) == IF Element[t] = -1 THEN 0 ELSE Element[t]

\* What the kernel may have in a file.
Contents(f) == {c \in [Slots(f) -> UNION {Legal[f][i] : i \in Slots(f)}] :
                  \A i \in Slots(f) : c[i] \in Legal[f][i]}

Idle == [step |-> "idle"]
Dead(t) == [step |-> "dead", tweak |-> t]

Init ==
  /\ size \in [Files -> 0 .. 62] /\ \A f \in Files : size[f] \in Sizes[f]
  /\ element \in [Files -> UNION {Contents(f) : f \in Files}]
  /\ \A f \in Files : element[f] \in Contents(f)
  /\ access \in [Files -> {"rw", "r", "none"}]
  /\ status = [p \in Procs |-> [t \in Tweaks |-> "unknown"]]
  /\ call = [p \in Procs |-> Idle]
  /\ outside = 0
  /\ seen = [f \in Files |-> [i \in Slots(f) |-> {element[f][i]}]]
  /\ calm = [p \in Procs |-> TRUE]
  /\ lost = {f \in Files : access[f] # "rw"}

-----------------------------------------------------------------------------
(* Finding the file of a tweak and reading its number: when its            *)
(* description is read, and at every GetValueRaw                           *)

\* read_int_from_proc_file looks for the tabs before an element in the first 63
\* characters of the file.  Where there are too few of them it goes on behind.
ScanLeaves(t) ==
  /\ Slot(t) > 0
  /\ Slot(t) >= size[File[t]] \/ Slot(t) >= Reach[File[t]]

\* Then it finds a tab somewhere in memory and returns a number from there, or
\* it comes to the end of the memory.
ScanFaults(p, t) ==
  /\ access[File[t]] # "none" /\ ScanLeaves(t)
  /\ call' = [call EXCEPT ![p] = Dead(t)]
  /\ UNCHANGED <<files, status, outside, history>>

\* Variant: the answer of access() is taken the wrong way round.
FoundInverted(p, t) ==
  IF access[File[t]] = "rw" THEN "readonly" ELSE status[p][t]

\* ChangeValue becomes NULL and nothing makes it a method again; a file that is
\* gone changes nothing.
fill_struct_tweak_from_proc(p, t) ==
  IF access[File[t]] = "r" THEN "readonly" ELSE status[p][t]

\* The description of a tweak: with a file it is registered, without one freed.
do_one_xml_record(p, t) ==
  /\ call[p] = Idle /\ status[p][t] = "unknown"
  /\ \A u \in Tweaks : Order[u] < Order[t] => status[p][u] # "unknown"
  /\ \/ ScanFaults(p, t)
     \/ /\ status' = [status EXCEPT ![p][t] =
             CASE access[File[t]] = "rw"   -> "writable"
               [] access[File[t]] = "r"    -> "readonly"
               [] access[File[t]] = "none" -> "absent"]
        /\ UNCHANGED <<files, call, outside, history>>

\* A process uses its tree when all descriptions have been read.
Serving(p, t) ==
  /\ call[p] = Idle
  /\ \A u \in Tweaks : status[p][u] # "unknown"
  /\ status[p][t] # "absent"

proc_get_value_raw(p, t) ==
  /\ Serving(p, t)
  /\ \/ ScanFaults(p, t)
     \/ /\ status' = [status EXCEPT ![p][t] = fill_struct_tweak_from_proc(p, t)]
        /\ UNCHANGED <<files, call, outside, history>>

\* A reload of the daemon reads the descriptions again.
Reload(p) ==
  /\ call[p] = Idle
  /\ status' = [status EXCEPT ![p] = [t \in Tweaks |-> "unknown"]]
  /\ UNCHANGED <<files, call, outside, history>>

-----------------------------------------------------------------------------
(* ChangeValue with immediate # 0 *)

\* What proc_change_value puts into the element.
NumberFor(t, v) ==
  IF Widget[t] = "checkbox" THEN IF v # 0 THEN 1 ELSE 0 ELSE v

\* "0 values for combo/radio-elements should _NOT_ be set"
NotSet(t, v) == Widget[t] = "radio" /\ v = 0

BeginWrite(p, t, v) ==
  /\ call' = [call EXCEPT ![p] =
       IF Element[t] = -1
       THEN [step |-> "write", tweak |-> t, value |-> NumberFor(t, v),
             elements |-> [i \in {0} |-> NumberFor(t, v)]]
       ELSE [step |-> "read", tweak |-> t, value |-> NumberFor(t, v)]]
  /\ seen' = [seen EXCEPT ![File[t]] =
       [i \in Slots(File[t]) |-> IF i = Slot(t) THEN @[i] \cup {NumberFor(t, v)} ELSE @[i]]]
  /\ calm' = [calm EXCEPT ![p] = TRUE]
  /\ UNCHANGED <<files, status, outside, lost>>

\* The interfaces, the daemon and the configuration file ask for ChangeValue
\* before they call it.  It reads the element first, of which the mask leaves
\* nothing.
proc_change_value(p, t, v) ==
  /\ Serving(p, t) /\ status[p][t] = "writable" /\ ~NotSet(t, v)
  /\ \/ ScanFaults(p, t)
     \/ BeginWrite(p, t, v)

\* A profile calls it without asking.
actuate_profile_setting(p, t) ==
  /\ Serving(p, t) /\ status[p][t] = "readonly"
  /\ call' = [call EXCEPT ![p] = Dead(t)]
  /\ UNCHANGED <<files, status, outside, history>>

\* How often fscanf is called: white space behind the last number keeps the
\* end of the file from the call that reads it.
Scans(f) == IF size[f] + 1 < Room THEN size[f] + 1 ELSE Room

\* Variants: the last number is the end of the file; the element of the
\* description counts from 1.
ReadElementsShort(p) ==
  /\ call[p].step = "read"
  /\ LET t == call[p].tweak
         f == File[t]
         i == Slot(t)
     IN IF access[f] = "none"
        THEN call' = [call EXCEPT ![p] = Idle]
        ELSE call' = [call EXCEPT ![p] =
          [step |-> "write", tweak |-> t, value |-> call[p].value,
           elements |-> [j \in 0 .. Scans(f) - 3 |->
                           IF j = i THEN call[p].value ELSE element[f][j]]]]
  /\ UNCHANGED <<files, status, outside, history>>

ReadElementsFromOne(p) ==
  /\ call[p].step = "read"
  /\ LET t == call[p].tweak
         f == File[t]
     IN IF access[f] = "none"
        THEN call' = [call EXCEPT ![p] = Idle]
        ELSE call' = [call EXCEPT ![p] =
          [step |-> "write", tweak |-> t, value |-> call[p].value,
           elements |-> [j \in 0 .. Scans(f) - 2 |->
                           IF j + 1 = Slot(t) THEN call[p].value ELSE element[f][j]]]]
  /\ UNCHANGED <<files, status, outside, history>>

\* The whole file is read, and the element put into the array; behind the
\* numbers of the file it is not written.
ReadElements(p) ==
  /\ call[p].step = "read"
  /\ LET t == call[p].tweak
         f == File[t]
     IN IF access[f] = "none"
        THEN call' = [call EXCEPT ![p] = Idle]
        ELSE call' = [call EXCEPT ![p] =
          [step |-> "write", tweak |-> t, value |-> call[p].value,
           elements |-> [j \in 0 .. Scans(f) - 2 |->
                           IF j = Slot(t) THEN call[p].value ELSE element[f][j]]]]
  /\ UNCHANGED <<files, status, outside, history>>

\* The kernel takes the numbers up to the first that it does not accept.
Taken(f, given) == {i \in Slots(f) \cap DOMAIN given : \A j \in 0 .. i : given[j] \in Legal[f][j]}
Written(f, given) == [i \in Slots(f) |-> IF i \in Taken(f, given) THEN given[i] ELSE element[f][i]]

\* The array is written.  Where the file cannot be opened the call ends, except
\* for files of one number: fclose() of the null pointer.
WriteElements(p) ==
  /\ call[p].step = "write"
  /\ LET t == call[p].tweak
         f == File[t]
     IN IF access[f] = "rw"
        THEN /\ element' = [element EXCEPT ![f] = Written(f, call[p].elements)]
             /\ call' = [call EXCEPT ![p] = Idle]
             /\ calm' = [q \in Procs |->
                  q = p \/ (calm[q] /\ (call[q].step \in {"read", "write"}
                                           => File[call[q].tweak] # f))]
        ELSE /\ call' = [call EXCEPT ![p] = IF Element[t] = -1 THEN Dead(t) ELSE Idle]
             /\ UNCHANGED <<element, calm>>
  /\ UNCHANGED <<size, access, status, outside, seen, lost>>

-----------------------------------------------------------------------------
(* The kernel and everybody else *)

\* Other programs write the file.
Elsewhere(f) ==
  /\ outside < MaxOutside /\ outside' = outside + 1
  /\ \E c \in Contents(f) \ {element[f]} :
       /\ element' = [element EXCEPT ![f] = c]
       /\ seen' = [seen EXCEPT ![f] = [i \in Slots(f) |-> @[i] \cup {c[i]}]]
  /\ calm' = [q \in Procs |-> calm[q] /\ (call[q].step \in {"read", "write"}
                                           => File[call[q].tweak] # f)]
  /\ UNCHANGED <<size, access, status, call, lost>>

\* A device goes with its files or comes back, /proc is mounted anew.
ChangeAccess(f) ==
  /\ outside < MaxOutside /\ outside' = outside + 1
  /\ \E a \in {"rw", "r", "none"} \ {access[f]} : access' = [access EXCEPT ![f] = a]
  /\ lost' = IF access'[f] = "rw" THEN lost ELSE lost \cup {f}
  /\ UNCHANGED <<size, element, status, call, seen, calm>>

Next ==
  \/ \E p \in Procs, t \in Tweaks :
       \/ do_one_xml_record(p, t) \/ proc_get_value_raw(p, t)
       \/ actuate_profile_setting(p, t)
       \/ \E v \in Values : proc_change_value(p, t, v)
  \/ \E p \in Procs : Reload(p) \/ ReadElements(p) \/ WriteElements(p)
  \/ \E f \in Files : Elsewhere(f) \/ ChangeAccess(f)

Spec == Init /\ [][Next]_vars

-----------------------------------------------------------------------------
(* Properties *)

Value == {NumberFor(t, v) : t \in Tweaks, v \in Values}
IsCall(c) ==
  \/ c = Idle
  \/ \E t \in Tweaks : c = Dead(t)
  \/ /\ c.step \in {"read", "write"} /\ c.tweak \in Tweaks /\ c.value \in Value
     /\ DOMAIN c = {"step", "tweak", "value"} \cup (IF c.step = "write" THEN {"elements"} ELSE {})
     /\ c.step = "write" => \E n \in 0 .. 62 : c.elements \in [0 .. n - 1 -> Int]

TypeOK ==
  /\ size \in [Files -> 0 .. 62]
  /\ DOMAIN element = Files /\ \A f \in Files : element[f] \in Contents(f)
  /\ access \in [Files -> {"rw", "r", "none"}]
  /\ status \in [Procs -> [Tweaks -> {"unknown", "absent", "readonly", "writable"}]]
  /\ DOMAIN call = Procs /\ \A p \in Procs : IsCall(call[p])
  /\ DOMAIN seen = Files /\ \A f \in Files : seen[f] \in [Slots(f) -> SUBSET Int]
  /\ calm \in [Procs -> BOOLEAN] /\ lost \subseteq Files /\ outside \in Nat

\* What the file of a call is to hold when nobody else touches it: its own
\* element has the number, unless the file has no such element or the kernel
\* does not accept it, and every other element is what it was.
Asked(p) ==
  LET t == call[p].tweak
      f == File[t]
  IN IF Slot(t) \in Slots(f) /\ call[p].value \in Legal[f][Slot(t)]
     THEN [element[f] EXCEPT ![Slot(t)] = call[p].value]
     ELSE element[f]

\* A call of ChangeValue that is alone with its file changes the element of its
\* tweak and no other, although it writes all of them: neither the reading
\* until the end of the file nor the writing of what was read drops, shifts or
\* repeats a number (write_int_to_proc_file).
WriteIsPrecise ==
  [][\A p \in Procs :
       LET f == File[call[p].tweak]
       IN call[p].step = "write" /\ call'[p].step = "idle" /\ calm[p] /\ access[f] = "rw"
          => element'[f] = Asked(p)]_vars

\* Also when several processes read and write a file in any order, what an
\* element holds is a number that it had before or that somebody asked for:
\* updates are lost, but no element gets a number of another one.
NothingInvented == \A f \in Files : \A i \in Slots(f) : element[f][i] \in seen[f][i]

\* The calls through a null ChangeValue (profile.c:122) and fclose() of a null
\* pointer (proc.c:107) need a file that could not be written at some time, and
\* the search for tabs (proc.c:59) ends a process only where a file has no such
\* element, or has it too far behind: as long as the files stay writable and are
\* what their descriptions say, no order of calls and reloads ends a process.
CrashNeedsLoss ==
  \A p \in Procs : call[p].step = "dead" =>
    File[call[p].tweak] \in lost \/ ScanLeaves(call[p].tweak)

=============================================================================
